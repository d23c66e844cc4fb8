-------------------------- MODULE CaseStateMachine --------------------------
(***************************************************************************)
(* The pure decision core of the case workflow (src/domain/workflow):      *)
(* the transition table, the four guards, the justification rule and the   *)
(* available-actions projection.  There are no variables here: a decision  *)
(* is a function of a context (what the case looks like) and a command     *)
(* (what the reviewer submits), as in evaluateTransition.                  *)
(*                                                                         *)
(* A refusal is modelled by the set of error codes the code may report, {} *)
(* meaning "permitted": the loop over document_types reports the first     *)
(* offending element, and the model keeps the array as a set.              *)
(***************************************************************************)
EXTENDS Naturals, FiniteSets

CONSTANTS
  DocTypes,     (* document types in upper snake form                        *)
  RawTypes,     (* document types as a caller may spell them                 *)
  Normal,       (* RawTypes -> DocTypes: what normalizeDocumentType returns  *)
  UnlistedDoc,  (* 'UNLISTED_DOCUMENT', the type the projection probes with  *)
  Users,        (* ids of the rows of the users table                        *)
  Nobody,       (* an omitted user id                                        *)
  Justs,        (* the classes of justification the commands are drawn from  *)
  MaxRequested, (* maxItems of document_types, 10 in the code                *)
  MaxNamed      (* maxItems of exception_ids, 20 in the code                 *)

ASSUME TypesAssumption ==
  /\ DocTypes \subseteq RawTypes
  /\ UnlistedDoc \in DocTypes
  /\ Normal \in [RawTypes -> DocTypes]
  /\ \A d \in DocTypes : Normal[d] = d
ASSUME UsersAssumption == Nobody \notin Users
ASSUME SizesAssumption == MaxRequested \in Nat /\ MaxNamed \in Nat

Statuses == {"NEW", "IN_REVIEW", "AWAITING_INFORMATION", "ON_HOLD",
             "ESCALATED", "PENDING_APPROVAL", "CLEARED"}

UserActions == {"REQUEST_INFORMATION", "SEND_FOR_SPECIALIST_REVIEW",
                "CLEAR_EXCEPTION", "PLACE_ON_HOLD", "ESCALATE_TO_SUPERVISOR"}

(***************************************************************************)
(* Justifications, by trimmed length: below 10, 10-19, 20-39, 40-2000 and  *)
(* above 2000.                                                             *)
(***************************************************************************)
JustClasses == {"under10", "from10", "from20", "from40", "over2000"}

ASSUME JustsAssumption == Justs \subseteq JustClasses

Bases == {"EXCEPTIONS_RESOLVED", "EXCEPTIONS_ACCEPTED", "MIXED"}

(***************************************************************************)
(* The bodies of POST /api/cases/:id/actions, one schema per action.       *)
(* Columns no decision and no modelled row depends on (requested_from,     *)
(* due_by, review_by, the reasons, the details) are left out.              *)
(***************************************************************************)
RequestCommands ==
  [action : {"REQUEST_INFORMATION"}, just : Justs,
   docs : (SUBSET RawTypes) \ {{}}, unlisted : BOOLEAN]
ReviewCommands ==
  [action : {"SEND_FOR_SPECIALIST_REVIEW"}, just : Justs,
   assignee : Users \cup {Nobody}]
ClearCommands(Ids) ==
  [action : {"CLEAR_EXCEPTION"}, just : Justs, ids : SUBSET Ids,
   basis : Bases, ack : BOOLEAN]
HoldCommands == [action : {"PLACE_ON_HOLD"}, just : Justs]
EscalateCommands ==
  [action : {"ESCALATE_TO_SUPERVISOR"}, just : Justs,
   target : Users \cup {Nobody}]

Commands(Ids) ==
  RequestCommands \cup ReviewCommands \cup ClearCommands(Ids)
    \cup HoldCommands \cup EscalateCommands

(* The bounds of the schemas: a body with more items never gets to the     *)
(* service (422 VALIDATION_FAILED).                                        *)
WithinSchema(cmd) ==
  /\ cmd.action = "REQUEST_INFORMATION" => Cardinality(cmd.docs) <= MaxRequested
  /\ cmd.action = "CLEAR_EXCEPTION" => Cardinality(cmd.ids) <= MaxNamed

(***************************************************************************)
(* The transition table.  A permitted row leads to Destination[action]; a  *)
(* row of RedundantRows is an explicit TRANSITION_REDUNDANT.               *)
(***************************************************************************)
Destination ==
  [REQUEST_INFORMATION        |-> "AWAITING_INFORMATION",
   SEND_FOR_SPECIALIST_REVIEW |-> "IN_REVIEW",
   CLEAR_EXCEPTION            |-> "CLEARED",
   PLACE_ON_HOLD              |-> "ON_HOLD",
   ESCALATE_TO_SUPERVISOR     |-> "ESCALATED"]

(* Rows of a faulty table, where a case on hold may be held again.         *)
RedundantRowsWithoutHold ==
  {<<"IN_REVIEW", "SEND_FOR_SPECIALIST_REVIEW">>,
   <<"ESCALATED", "ESCALATE_TO_SUPERVISOR">>}

RedundantRows ==
  {<<"IN_REVIEW", "SEND_FOR_SPECIALIST_REVIEW">>,
   <<"ON_HOLD", "PLACE_ON_HOLD">>,
   <<"ESCALATED", "ESCALATE_TO_SUPERVISOR">>}

(* The guards a row lists; REQUEST_INFORMATION and CLEAR_EXCEPTION carry   *)
(* a second one from AWAITING_INFORMATION.                                 *)
GuardsOf(from, action) ==
  CASE action = "REQUEST_INFORMATION" ->
         IF from = "AWAITING_INFORMATION" THEN {"G-DOC", "G-DUP"} ELSE {"G-DOC"}
    [] action = "CLEAR_EXCEPTION" ->
         IF from = "AWAITING_INFORMATION" THEN {"G-REC", "G-ACK"} ELSE {"G-REC"}
    [] OTHER -> {}

(***************************************************************************)
(* Justification.                                                          *)
(***************************************************************************)
MinDefault(just) == just \in {"from10", "from20", "from40"}

ValidateJustification(cmd) ==
  /\ MinDefault(cmd.just)
  /\ cmd.action = "CLEAR_EXCEPTION" /\ cmd.basis # "EXCEPTIONS_RESOLVED"
       => cmd.just = "from40"
  /\ cmd.action = "REQUEST_INFORMATION" /\ cmd.unlisted
       => cmd.just \in {"from20", "from40"}

(***************************************************************************)
(* Guards.  A context is                                                   *)
(*   [status, open, missing, received, requested]                          *)
(* and each guard returns the codes it may refuse with.                    *)
(***************************************************************************)
NormalizedTypes(cmd) == {Normal[r] : r \in cmd.docs}

GDoc(ctx, cmd) ==
  LET types == NormalizedTypes(cmd)
      unlisted == {t \in types \ ctx.received : t \notin ctx.missing /\ ~cmd.unlisted}
  IN {"DOCUMENT_ALREADY_RECEIVED" : t \in types \cap ctx.received}
       \cup {"DOCUMENT_TYPE_NOT_REQUIRED" : t \in unlisted}

(* A faulty G-DUP, which compares the spelling and not the normal form. *)
GDupSpelling(ctx, cmd) ==
  {"DUPLICATE_DOCUMENT_REQUEST" : t \in cmd.docs \cap ctx.requested}

GDup(ctx, cmd) ==
  {"DUPLICATE_DOCUMENT_REQUEST" : t \in NormalizedTypes(cmd) \cap ctx.requested}

(* A faulty G-REC, content with a superset of the open exceptions. *)
GRecSuperset(ctx, cmd) ==
  {"EXCEPTION_SET_STALE" : s \in {ctx.open} \ SUBSET cmd.ids}

GRec(ctx, cmd) == {"EXCEPTION_SET_STALE" : s \in {cmd.ids} \ {ctx.open}}

GAck(ctx, cmd) ==
  {"OUTSTANDING_REQUESTS_NOT_ACKNOWLEDGED" :
     t \in {u \in ctx.requested \ ctx.received :
              ctx.status = "AWAITING_INFORMATION" /\ ~cmd.ack}}

(* The row's guards in order, first failure wins. *)
GuardRefusals(ctx, cmd) ==
  LET ids    == GuardsOf(ctx.status, cmd.action)
      first  == CASE "G-DOC" \in ids -> GDoc(ctx, cmd)
                  [] "G-REC" \in ids -> GRec(ctx, cmd)
                  [] OTHER -> {}
      second == CASE "G-DUP" \in ids -> GDup(ctx, cmd)
                  [] "G-ACK" \in ids -> GAck(ctx, cmd)
                  [] OTHER -> {}
  IN IF first # {} THEN first ELSE second

(* Terminal first, then the table, the justification and the guards. *)
EvaluateTransition(ctx, cmd) ==
  IF ctx.status = "CLEARED" THEN {"CASE_TERMINAL"}
  ELSE IF <<ctx.status, cmd.action>> \in RedundantRows THEN {"TRANSITION_REDUNDANT"}
  ELSE IF ~ValidateJustification(cmd) THEN {"JUSTIFICATION_REQUIRED"}
  ELSE GuardRefusals(ctx, cmd)

(***************************************************************************)
(* The available-actions projection.  The probe for REQUEST_INFORMATION    *)
(* names the first missing type in row order; which one comes first is a   *)
(* matter of random exception ids, so it is a parameter here.              *)
(***************************************************************************)
FirstMissing(ctx) == IF ctx.missing = {} THEN {UnlistedDoc} ELSE ctx.missing

(* A faulty probe, which names no exceptions. *)
ProbeCommandUnnamed(action, ctx, first) ==
  CASE action = "REQUEST_INFORMATION" ->
         [action |-> action, just |-> "from40", docs |-> {first},
          unlisted |-> ctx.missing = {}]
    [] action = "SEND_FOR_SPECIALIST_REVIEW" ->
         [action |-> action, just |-> "from40", assignee |-> Nobody]
    [] action = "CLEAR_EXCEPTION" ->
         [action |-> action, just |-> "from40", ids |-> {},
          basis |-> "EXCEPTIONS_RESOLVED", ack |-> FALSE]
    [] action = "PLACE_ON_HOLD" ->
         [action |-> action, just |-> "from40"]
    [] action = "ESCALATE_TO_SUPERVISOR" ->
         [action |-> action, just |-> "from40", target |-> Nobody]

ProbeCommand(action, ctx, first) ==
  CASE action = "REQUEST_INFORMATION" ->
         [action |-> action, just |-> "from40", docs |-> {first},
          unlisted |-> ctx.missing = {}]
    [] action = "SEND_FOR_SPECIALIST_REVIEW" ->
         [action |-> action, just |-> "from40", assignee |-> Nobody]
    [] action = "CLEAR_EXCEPTION" ->
         [action |-> action, just |-> "from40", ids |-> ctx.open,
          basis |-> "EXCEPTIONS_RESOLVED", ack |-> FALSE]
    [] action = "PLACE_ON_HOLD" ->
         [action |-> action, just |-> "from40"]
    [] action = "ESCALATE_TO_SUPERVISOR" ->
         [action |-> action, just |-> "from40", target |-> Nobody]

NothingToRequest(action, ctx) ==
  /\ action = "REQUEST_INFORMATION"
  /\ ctx.status # "CLEARED"
  /\ ctx.missing = {}
  /\ ctx.requested = {}

(* One entry of the projection: whether the button is enabled, and why not. *)
AvailableAction(action, ctx, first) ==
  LET refusals == EvaluateTransition(ctx, ProbeCommand(action, ctx, first))
      reasons  == refusals \cap {"TRANSITION_REDUNDANT", "CASE_TERMINAL"}
  IN IF NothingToRequest(action, ctx)
     THEN [available |-> FALSE, reasons |-> {"NO_MISSING_DOCUMENTS"}]
     ELSE [available |-> refusals = {}, reasons |-> reasons]
=============================================================================
