---------------------------- MODULE CaseWorkflow ----------------------------
(***************************************************************************)
(* The case workflow service over its database rows: executeAction         *)
(* (src/app/workflowService.ts), which takes one reviewer's command,       *)
(* decides it and writes the action, the case row, the exceptions and the  *)
(* idempotency record in one transaction; and detectExceptions             *)
(* (src/app/evaluationService.ts), which re-evaluates a shipment and       *)
(* replaces its open exceptions under the same case row.                   *)
(*                                                                         *)
(* Each call reads and writes in one transaction, which is one step:       *)
(* executeAction begins with BEGIN IMMEDIATE, and a detectExceptions that  *)
(* another writer overtook cannot write on what it read, it fails and is   *)
(* rolled back.  Only the lookup of an idempotency key comes before the    *)
(* transaction, so that with a second process on the same file it may be   *)
(* out of date when the call writes.                                       *)
(* A crash before the commit rolls the call back and a crash after it only *)
(* loses the response, so neither adds a behaviour: the variables are the  *)
(* committed rows, and any command may be submitted again at any time.     *)
(***************************************************************************)
EXTENDS CaseStateMachine, Priority, Integers, Sequences, FiniteSets

CONSTANTS
  Cases,           (* ids of the cases, one per cargo entry                 *)
  Rules,           (* ids of the enabled rules                              *)
  MissingOf,       (* Rules -> SUBSET DocTypes: what a finding may list     *)
  SeverityOf,      (* Rules -> Ladder: severity after priority_mapping      *)
  HighValue,       (* the cases whose shipment reaches the value threshold  *)
  AgeLimit,        (* seven days                                            *)
  Supervisors,     (* the users whose role is SUPERVISOR                    *)
  Actor,           (* CARGODEMO_DEFAULT_ACTOR_USER_ID                       *)
  SeedStatuses,    (* the statuses the fixtures give a case                 *)
  SeedOfficial,    (* the approving official of a CLEARED fixture           *)
  Keys,            (* non-empty Idempotency-Key values                      *)
  NoKey,           (* the header is absent                                  *)
  BlankKeys,       (* Idempotency-Key present but empty, if callers do that *)
  NoVersion,       (* If-Match-Case-Version absent, or not a finite number  *)
  Watched,         (* the cases a reviewer may read again during the run    *)
  Arriving,        (* the document types a shipment may still receive       *)
  Leavers,         (* the users who may be deactivated                      *)
  ClockSteps,      (* how far the wall clock may move between two reads     *)
  MaxTime,         (* bound on the clock                                    *)
  MaxActions,      (* bound on the actions of one case                      *)
  MaxEvaluations   (* bound on the evaluations of one case                  *)

ASSUME RulesAssumption ==
  /\ MissingOf \in [Rules -> SUBSET DocTypes]
  /\ SeverityOf \in [Rules -> Ladder]
  /\ IsFiniteSet(Rules)
ASSUME ActorAssumption ==
  Supervisors \subseteq Users /\ {Actor, SeedOfficial} \subseteq Users
ASSUME KeysAssumption ==
  NoKey \notin Keys \cup BlankKeys /\ Keys \cap BlankKeys = {}
ASSUME SurroundingsAssumption ==
  /\ SeedStatuses \subseteq Statuses
  /\ Watched \subseteq Cases
  /\ Arriving \subseteq DocTypes
  /\ Leavers \subseteq Users
ASSUME VersionAssumption == NoVersion \notin Nat
ASSUME BoundsAssumption ==
  /\ ClockSteps \subseteq Int
  /\ {MaxTime, MaxActions, MaxEvaluations, AgeLimit} \subseteq Nat

VARIABLES
  case,         (* the cases table                                          *)
  evaluations,  (* how many evaluations each case has (their versions)      *)
  open,         (* exceptions rows with status OPEN                         *)
  cleared,      (* ... with status CLEARED_BY_DECISION                      *)
  superseded,   (* ... with status SUPERSEDED_BY_EVALUATION                 *)
  actions,      (* the case_actions rows of each case, in insertion order   *)
  keys,         (* the idempotency_keys rows in the scope of each case      *)
  received,     (* document types RECEIVED and not superseded               *)
  active,       (* the users with active = 1                                *)
  clock,        (* the last instant the wall clock returned (milliseconds)  *)
  seen,         (* what a reviewer last read of each case                   *)
  matched       (* whether the last accepted command named a version        *)

vars == <<case, evaluations, open, cleared, superseded, actions, keys,
          received, active, clock, seen, matched>>

(***************************************************************************)
(* Rows.  An exception is identified by its evaluation and its rule (the   *)
(* unique index idx_exceptions_eval_rule), an action by its place in the   *)
(* insertion order.                                                        *)
(***************************************************************************)
KeyInputs == Keys \cup BlankKeys \cup {NoKey}

CaseRow ==
  [status : Statuses, updated_at : Nat, evaluation : Nat, open_count : Nat,
   queued : BOOLEAN, priority : Ladder, last_action : Nat,
   assigned_to : Users \cup {Nobody}, escalated_to : Users \cup {Nobody},
   official : Users \cup {Nobody}]

ExceptionRow ==
  [case : Cases, evaluation : Nat, rule : Rules, first : Nat,
   opened_at : Nat, missing : SUBSET DocTypes]

ActionRow ==
  [action : UserActions, before : Statuses, after : Statuses,
   docs : SUBSET DocTypes, ids : SUBSET ExceptionRow, ack : BOOLEAN,
   user : Users \cup {Nobody}, key : KeyInputs, evaluation : Nat, at : Nat]

KeyRow == [key : Keys, action : Nat]

(***************************************************************************)
(* What buildTransitionContext reads.  Requests count from the latest      *)
(* occurred_at of an entry into AWAITING_INFORMATION, all of them when     *)
(* there is none; rows are compared by occurred_at, not by insertion.      *)
(***************************************************************************)
EntersAwaiting(a) ==
  a.after = "AWAITING_INFORMATION" /\ a.before # "AWAITING_INFORMATION"

(* A faulty reading of the period, which drops the request that began it. *)
RequestedAfter(h) ==
  UNION {h[i].docs : i \in {j \in DOMAIN h :
    /\ h[j].action = "REQUEST_INFORMATION"
    /\ \A e \in DOMAIN h : EntersAwaiting(h[e]) => h[j].at > h[e].at}}

Requested(h) ==
  UNION {h[i].docs : i \in {j \in DOMAIN h :
    /\ h[j].action = "REQUEST_INFORMATION"
    /\ \A e \in DOMAIN h : EntersAwaiting(h[e]) => h[j].at >= h[e].at}}

Context(c) ==
  [status    |-> case[c].status,
   open      |-> open[c],
   missing   |-> UNION {e.missing : e \in open[c]},
   received  |-> received[c],
   requested |-> Requested(actions[c])]

ClockReads == {t \in 0..MaxTime : t - clock \in ClockSteps}

-----------------------------------------------------------------------------
(***************************************************************************)
(* executeAction: the checks, in the order of the code.  A command that a  *)
(* check refuses is rolled back, and one whose key the lookup finds gets   *)
(* the stored answer or IDEMPOTENCY_KEY_REUSED: both leave every row as it *)
(* was, a stuttering step.  What remains are the accepted commands.  Their *)
(* lookup found nothing, which says nothing of what is stored by now.      *)
(***************************************************************************)
(* A faulty check, which only rejects versions from the future. *)
VersionFromFuture(c, version) ==
  version # NoVersion /\ version > case[c].updated_at

VersionConflict(c, version) ==
  version # NoVersion /\ version # case[c].updated_at

(* The checks of applySideEffects. *)
SideEffectRefusals(cmd) ==
  CASE cmd.action = "SEND_FOR_SPECIALIST_REVIEW" ->
         {"ASSIGNEE_INVALID" : u \in {cmd.assignee} \ (active \cup {Nobody})}
    [] cmd.action = "ESCALATE_TO_SUPERVISOR" ->
         {"ESCALATION_TARGET_INVALID" :
            u \in {cmd.target} \ ((active \cap Supervisors) \cup {Nobody})}
    [] OTHER -> {}

(* A faulty write, which trusts the lookup for the keys it looks up. *)
KeyAlreadyUsedTrusting(c, key) ==
  key \in BlankKeys /\ \E i \in DOMAIN actions[c] : actions[c][i].key = key

(* UNIQUE(case_id, idempotency_key): an empty key is stored, not absent,   *)
(* although no lookup is made for it.  A second use fails with a 500.      *)
KeyAlreadyUsed(c, key) ==
  key # NoKey /\ \E i \in DOMAIN actions[c] : actions[c][i].key = key

Refusals(c, cmd, key, version) ==
  LET decision == EvaluateTransition(Context(c), cmd) IN
  IF ~WithinSchema(cmd) THEN {"VALIDATION_FAILED"}
  ELSE IF ~ValidateJustification(cmd) THEN {"JUSTIFICATION_REQUIRED"}
  ELSE IF VersionConflict(c, version) THEN {"CASE_VERSION_CONFLICT"}
  ELSE IF Actor \notin active THEN {"ACTOR_UNAVAILABLE"}
  ELSE IF decision # {} THEN decision
  ELSE IF SideEffectRefusals(cmd) # {} THEN SideEffectRefusals(cmd)
  ELSE IF KeyAlreadyUsed(c, key) THEN {"INTERNAL_ERROR"}
  ELSE {}

Accepted(c, cmd, key, version) ==
  /\ Refusals(c, cmd, key, version) = {}
  /\ Len(actions[c]) < MaxActions

Versions(c) == {NoVersion, seen[c].version}

(***************************************************************************)
(* executeAction: the writes.  An omitted column is kept (COALESCE).       *)
(***************************************************************************)
Coalesce(user, former) == IF user = Nobody THEN former ELSE user

NewAction(c, cmd, key, t) ==
  [action |-> cmd.action, before |-> case[c].status,
   after |-> Destination[cmd.action], docs |-> {}, ids |-> {}, ack |-> FALSE,
   user |-> Nobody, key |-> key, evaluation |-> case[c].evaluation, at |-> t]

(* The record saved for a non-empty key, in the same transaction.  Of the  *)
(* answer it stores, the model keeps which action it tells of.             *)
KeyRecord(c, key) ==
  {[key |-> k, action |-> Len(actions[c]) + 1] : k \in {key} \cap Keys}

(* insertCaseAction and the idempotency record. *)
Log(c, row, version) ==
  /\ actions' = [actions EXCEPT ![c] = Append(@, row)]
  /\ keys' = [keys EXCEPT ![c] = @ \cup KeyRecord(c, row.key)]
  /\ clock' = row.at
  /\ matched' = (version # NoVersion)
  /\ UNCHANGED <<evaluations, received, active, seen>>

(* A faulty applyTransition, which leaves last_action_id behind. *)
TransitionedUnlinked(c, row) ==
  [case[c] EXCEPT !.status = row.after, !.updated_at = row.at]

(* applyTransition's columns that every action writes. *)
Transitioned(c, row) ==
  [case[c] EXCEPT !.status = row.after, !.updated_at = row.at,
                  !.last_action = Len(actions[c]) + 1]

RequestInformation(c) ==
  \E cmd \in RequestCommands, key \in KeyInputs, version \in Versions(c), t \in ClockReads :
    LET row == [NewAction(c, cmd, key, t) EXCEPT !.docs = NormalizedTypes(cmd)] IN
    /\ Accepted(c, cmd, key, version)
    /\ case' = [case EXCEPT ![c] = Transitioned(c, row)]
    /\ Log(c, row, version)
    /\ UNCHANGED <<open, cleared, superseded>>

SendForSpecialistReview(c) ==
  \E cmd \in ReviewCommands, key \in KeyInputs, version \in Versions(c), t \in ClockReads :
    LET row == [NewAction(c, cmd, key, t) EXCEPT !.user = cmd.assignee] IN
    /\ Accepted(c, cmd, key, version)
    /\ case' = [case EXCEPT ![c] =
         [Transitioned(c, row) EXCEPT !.assigned_to = Coalesce(cmd.assignee, @)]]
    /\ Log(c, row, version)
    /\ UNCHANGED <<open, cleared, superseded>>

PlaceOnHold(c) ==
  \E cmd \in HoldCommands, key \in KeyInputs, version \in Versions(c), t \in ClockReads :
    LET row == NewAction(c, cmd, key, t) IN
    /\ Accepted(c, cmd, key, version)
    /\ case' = [case EXCEPT ![c] = Transitioned(c, row)]
    /\ Log(c, row, version)
    /\ UNCHANGED <<open, cleared, superseded>>

EscalateToSupervisor(c) ==
  \E cmd \in EscalateCommands, key \in KeyInputs, version \in Versions(c), t \in ClockReads :
    LET row == [NewAction(c, cmd, key, t) EXCEPT !.user = cmd.target] IN
    /\ Accepted(c, cmd, key, version)
    /\ case' = [case EXCEPT ![c] =
         [Transitioned(c, row) EXCEPT !.escalated_to = Coalesce(cmd.target, @)]]
    /\ Log(c, row, version)
    /\ UNCHANGED <<open, cleared, superseded>>

(***************************************************************************)
(* CLEAR_EXCEPTION also clears the submitted rows, whatever their status:  *)
(* the statement selects them by id and case only.                         *)
(***************************************************************************)
ExceptionsOf(c) == open[c] \cup cleared[c] \cup superseded[c]

(* A faulty clearance, which leaves the case in the queue. *)
ClearedColumnsQueued(row) == [row EXCEPT !.official = Actor, !.open_count = 0]

ClearedColumns(row) ==
  [row EXCEPT !.official = Actor, !.open_count = 0, !.queued = FALSE]

ClearException(c) ==
  \E cmd \in ClearCommands(ExceptionsOf(c)), key \in KeyInputs,
     version \in Versions(c), t \in ClockReads :
    LET row == [NewAction(c, cmd, key, t) EXCEPT !.ids = cmd.ids, !.ack = cmd.ack] IN
    /\ Accepted(c, cmd, key, version)
    /\ case' = [case EXCEPT ![c] = ClearedColumns(Transitioned(c, row))]
    /\ open' = [open EXCEPT ![c] = @ \ cmd.ids]
    /\ superseded' = [superseded EXCEPT ![c] = @ \ cmd.ids]
    /\ cleared' = [cleared EXCEPT ![c] = @ \cup cmd.ids]
    /\ Log(c, row, version)

Execute(c) ==
  \/ RequestInformation(c)
  \/ SendForSpecialistReview(c)
  \/ PlaceOnHold(c)
  \/ EscalateToSupervisor(c)
  \/ ClearException(c)

-----------------------------------------------------------------------------
(***************************************************************************)
(* detectExceptions.  Which rules fire is up to the rule engine and the    *)
(* shipment's current data: any set of rules, except that a rule about     *)
(* documents fires only while one of them is missing.                      *)
(***************************************************************************)
FindingSets(c) ==
  {F \in SUBSET Rules : \A r \in F : MissingOf[r] = {} \/ ~(MissingOf[r] \subseteq received[c])}

(* Faulty readings: the evaluation before the latest, and any status. *)
PriorOpenOffByOne(c) == {e \in open[c] : e.evaluation = evaluations[c] - 1}
PriorOpenAnyStatus(c) == {e \in ExceptionsOf(c) : e.evaluation = evaluations[c]}

(* The OPEN rows of the entry's latest evaluation. *)
PriorOpen(c) == {e \in open[c] : e.evaluation = evaluations[c]}

(* A faulty finding, which carries the first detection but not its date. *)
FindingRedated(c, r, t) ==
  LET prior   == {e \in PriorOpen(c) : e.rule = r}
      version == evaluations[c] + 1
  IN [case |-> c, evaluation |-> version, rule |-> r,
      first |-> IF prior = {} THEN version ELSE (CHOOSE e \in prior : TRUE).first,
      opened_at |-> t,
      missing |-> MissingOf[r] \ received[c]]

(* A finding of a rule that was already open keeps its first detection. *)
Finding(c, r, t) ==
  LET prior   == {e \in PriorOpen(c) : e.rule = r}
      version == evaluations[c] + 1
  IN [case |-> c, evaluation |-> version, rule |-> r,
      first |-> IF prior = {} THEN version ELSE (CHOOSE e \in prior : TRUE).first,
      opened_at |-> IF prior = {} THEN t ELSE (CHOOSE e \in prior : TRUE).opened_at,
      missing |-> MissingOf[r] \ received[c]]

ProjectedPriority(c, found, t) ==
  DerivePriority({SeverityOf[e.rule] : e \in found}, c \in HighValue,
                 Cardinality(found), \E e \in found : t - e.opened_at > AgeLimit)

(* A faulty updateProjection, which returns a case with findings to NEW. *)
ProjectedReopened(c, found, t) ==
  [case[c] EXCEPT !.priority = ProjectedPriority(c, found, t),
                  !.queued = Cardinality(found) > 0,
                  !.open_count = Cardinality(found),
                  !.evaluation = evaluations[c] + 1,
                  !.updated_at = t,
                  !.status = IF found = {} THEN @ ELSE "NEW"]

(* updateProjection: never the status. *)
Projected(c, found, t) ==
  [case[c] EXCEPT !.priority = ProjectedPriority(c, found, t),
                  !.queued = Cardinality(found) > 0,
                  !.open_count = Cardinality(found),
                  !.evaluation = evaluations[c] + 1,
                  !.updated_at = t]

DetectExceptions(c) ==
  \E findings \in FindingSets(c), t \in ClockReads :
    LET found == {Finding(c, r, t) : r \in findings} IN
    /\ evaluations[c] < MaxEvaluations
    /\ evaluations' = [evaluations EXCEPT ![c] = @ + 1]
    /\ open' = [open EXCEPT ![c] = (@ \ PriorOpen(c)) \cup found]
    /\ superseded' = [superseded EXCEPT ![c] = @ \cup PriorOpen(c)]
    /\ case' = [case EXCEPT ![c] = Projected(c, found, t)]
    /\ clock' = t
    /\ UNCHANGED <<cleared, actions, keys, received, active, seen, matched>>

-----------------------------------------------------------------------------
(***************************************************************************)
(* The surroundings.  A reviewer reads a case and remembers its version.   *)
(* Documents and users are rows this service only reads.                   *)
(***************************************************************************)
(* The version is what the client keeps; what is written by then is noted  *)
(* beside it for the properties.                                           *)
Observation(c) ==
  [version |-> case[c].updated_at, decisions |-> Len(actions[c]),
   evaluation |-> evaluations[c]]

Observe(c) ==
  /\ c \in Watched
  /\ seen' = [seen EXCEPT ![c] = Observation(c)]
  /\ UNCHANGED <<case, evaluations, open, cleared, superseded, actions, keys,
                 received, active, clock, matched>>

ReceiveDocument(c) ==
  /\ \E d \in Arriving \ received[c] : received' = [received EXCEPT ![c] = @ \cup {d}]
  /\ UNCHANGED <<case, evaluations, open, cleared, superseded, actions, keys,
                 active, clock, seen, matched>>

DeactivateUser ==
  /\ \E u \in active \cap Leavers : active' = active \ {u}
  /\ UNCHANGED <<case, evaluations, open, cleared, superseded, actions, keys,
                 received, clock, seen, matched>>

(***************************************************************************)
(* A freshly seeded database: every case has one evaluation, in any status *)
(* and with any findings, except that a CLEARED fixture has none.          *)
(***************************************************************************)
SeededExceptions(c, findings) ==
  {[case |-> c, evaluation |-> 1, rule |-> r, first |-> 1, opened_at |-> 0,
    missing |-> MissingOf[r]] : r \in findings}

SeededCase(c, status, found) ==
  [status |-> status, updated_at |-> 0, evaluation |-> 1,
   open_count |-> Cardinality(found), queued |-> Cardinality(found) > 0,
   priority |-> ProjectedPriority(c, found, 0), last_action |-> 0,
   assigned_to |-> Nobody, escalated_to |-> Nobody,
   official |-> IF status = "CLEARED" THEN SeedOfficial ELSE Nobody]

Init ==
  \E status \in [Cases -> SeedStatuses], findings \in [Cases -> SUBSET Rules] :
    /\ \A c \in Cases : status[c] = "CLEARED" => findings[c] = {}
    /\ open = [c \in Cases |-> SeededExceptions(c, findings[c])]
    /\ case = [c \in Cases |-> SeededCase(c, status[c], SeededExceptions(c, findings[c]))]
    /\ evaluations = [c \in Cases |-> 1]
    /\ cleared = [c \in Cases |-> {}]
    /\ superseded = [c \in Cases |-> {}]
    /\ actions = [c \in Cases |-> <<>>]
    /\ keys = [c \in Cases |-> {}]
    /\ received = [c \in Cases |-> {}]
    /\ active = Users
    /\ clock = 0
    /\ seen = [c \in Cases |-> [version |-> 0, decisions |-> 0, evaluation |-> 1]]
    /\ matched = FALSE

Next ==
  \/ \E c \in Cases : \/ Execute(c)
                      \/ DetectExceptions(c)
                      \/ Observe(c)
                      \/ ReceiveDocument(c)
  \/ DeactivateUser

Spec == Init /\ [][Next]_vars

-----------------------------------------------------------------------------
(***************************************************************************)
(* Type correctness.                                                       *)
(***************************************************************************)
(* Every row keeps the shape the schema and the types of src/shared give   *)
(* it, in every reachable state.                                           *)
TypeOK ==
  /\ case \in [Cases -> CaseRow]
  /\ evaluations \in [Cases -> Nat]
  /\ open \in [Cases -> SUBSET ExceptionRow]
  /\ cleared \in [Cases -> SUBSET ExceptionRow]
  /\ superseded \in [Cases -> SUBSET ExceptionRow]
  /\ actions \in [Cases -> Seq(ActionRow)]
  /\ keys \in [Cases -> SUBSET KeyRow]
  /\ received \in [Cases -> SUBSET DocTypes]
  /\ active \subseteq Users
  /\ clock \in Nat
  /\ seen \in [Cases -> [version : Nat, decisions : Nat, evaluation : Nat]]
  /\ matched \in BOOLEAN

(***************************************************************************)
(* Exceptions and the case row.                                            *)
(***************************************************************************)
(* Every open exception belongs to its case's latest evaluation, the one   *)
(* the case row points at: a re-evaluation leaves no stale finding open,   *)
(* so a reviewer always decides on one generation of findings.             *)
OpenAreCurrent ==
  \A c \in Cases :
    /\ case[c].evaluation = evaluations[c]
    /\ \A e \in open[c] : e.case = c /\ e.evaluation = evaluations[c]

(* queued and open_exception_count, which detection and clearance write    *)
(* on separate paths, always describe the exceptions that are open.        *)
ProjectionAgrees ==
  \A c \in Cases :
    /\ case[c].queued <=> open[c] # {}
    /\ case[c].open_count = Cardinality(open[c])

Rung(applies) == IF applies THEN 1 ELSE 0
Capped(rank)  == IF rank > Critical THEN Critical ELSE rank

(* A case stands as high as its severest open exception, one rung higher   *)
(* for a shipment of high value, one for many exceptions, one at most for  *)
(* their age, never beyond CRITICAL: whatever clearances and evaluations   *)
(* came before, its priority answers to what is open now.                  *)
PriorityExplained ==
  \A c \in Cases : \A e \in open[c] :
    (\A f \in open[c] : SeverityOf[f.rule] <= SeverityOf[e.rule]) =>
      \E aged \in BOOLEAN :
        case[c].priority =
          Capped(SeverityOf[e.rule] + Rung(c \in HighValue)
                   + Rung(Cardinality(open[c]) >= MultiplicityThreshold) + Rung(aged))

(* first_detected_evaluation_id and opened_at carried over re-evaluations  *)
(* tell the truth: the rule has fired in every evaluation since, each time *)
(* with the same instant of opening, and none of those rows was cleared.   *)
FirstDetectionCarried ==
  \A c \in Cases : \A e \in open[c] : \A v \in e.first..(e.evaluation - 1) :
    \E s \in superseded[c] :
      s.rule = e.rule /\ s.evaluation = v /\ s.opened_at = e.opened_at

(***************************************************************************)
(* History.                                                                *)
(***************************************************************************)
(* The case_actions rows form one chain that ends in the case row: each    *)
(* action starts from the status the one before it left, the last one left *)
(* the current status, and last_action_id names it.                        *)
HistoryConnected ==
  \A c \in Cases : LET h == actions[c] IN
    /\ case[c].last_action = Len(h)
    /\ \A i \in 1..(Len(h) - 1) : h[i].after = h[i + 1].before
    /\ Len(h) > 0 => h[Len(h)].after = case[c].status

(* A clearance decided on exactly the findings of the evaluation recorded  *)
(* with it, of its own case, and what it named is what is cleared: no      *)
(* superseded finding is revived as cleared, none is cleared unnamed.      *)
ClearedByDecision ==
  \A c \in Cases : LET h == actions[c] IN
    /\ cleared[c] = UNION {h[i].ids : i \in DOMAIN h}
    /\ \A i \in DOMAIN h : \A e \in h[i].ids :
         e.case = c /\ e.evaluation = h[i].evaluation

(* The actions i < j of one uninterrupted stay in AWAITING_INFORMATION.    *)
SamePeriod(h, i, j) ==
  /\ h[i].after = "AWAITING_INFORMATION"
  /\ \A k \in (i + 1)..j : h[k].before = "AWAITING_INFORMATION"
  /\ \A k \in (i + 1)..(j - 1) : h[k].after = "AWAITING_INFORMATION"

(* No document type is requested twice in one stay in AWAITING_INFORMATION *)
(* (G-DUP), although the stay is found by comparing timestamps.            *)
NoDuplicateRequest ==
  \A c \in Cases : LET h == actions[c] IN
    \A i, j \in DOMAIN h :
      i < j /\ SamePeriod(h, i, j) => h[i].docs \cap h[j].docs = {}

(* A case cleared out of AWAITING_INFORMATION had every document requested *)
(* in that stay received, or the reviewer acknowledged it was not (G-ACK). *)
OutstandingAcknowledged ==
  \A c \in Cases : LET h == actions[c] IN
    \A i, j \in DOMAIN h :
      /\ i < j
      /\ SamePeriod(h, i, j)
      /\ h[j].action = "CLEAR_EXCEPTION"
      => h[i].docs \subseteq received[c] \/ h[j].ack

(***************************************************************************)
(* Idempotency.                                                            *)
(***************************************************************************)
(* Whichever process took a command and whatever it had looked up before:  *)
(* an action taken under a key has its record, the record tells of that    *)
(* action, and a key has no second record.  So a retry is answered with    *)
(* what its first attempt did, and finds nothing done and forgotten.       *)
KeysRecordActions ==
  \A c \in Cases : LET h == actions[c] IN
    /\ \A k \in keys[c] :
         /\ k.action \in DOMAIN h
         /\ h[k.action].key = k.key
    /\ \A i \in DOMAIN h : h[i].key \in Keys =>
         \E k \in keys[c] : k.key = h[i].key /\ k.action = i
    /\ \A k, l \in keys[c] : k.key = l.key => k = l

(***************************************************************************)
(* Steps.                                                                  *)
(***************************************************************************)
(* CLEARED is terminal: no later step adds an action or changes status.    *)
ClearedIsTerminal ==
  [][\A c \in Cases : case[c].status = "CLEARED" =>
       case'[c].status = "CLEARED" /\ actions'[c] = actions[c]]_vars

(* "rejected with CASE_VERSION_CONFLICT if the case has changed since that *)
(* version" (F03): a command sent with the version a reviewer read takes   *)
(* effect only if nothing was written to the case since that read.         *)
NoLostUpdate ==
  [][\A c \in Cases : actions'[c] # actions[c] /\ matched' =>
       /\ seen[c].decisions = Len(actions[c])
       /\ seen[c].evaluation = evaluations[c]]_vars

(* What the version check of executeAction achieves.  A command sent with  *)
(* the version a reviewer read takes effect over a decision or a finding   *)
(* the reviewer has not seen only if that one was written in the very      *)
(* millisecond of the version: whatever is any later is never overlooked.  *)
UnseenAreSimultaneous ==
  [][\A c \in Cases : actions'[c] # actions[c] /\ matched' =>
       /\ \A i \in DOMAIN actions[c] :
            i > seen[c].decisions => actions[c][i].at = seen[c].version
       /\ \A e \in ExceptionsOf(c) :
            e.first > seen[c].evaluation => e.opened_at = seen[c].version]_vars

(* A decision stands: a finding cleared by a reviewer stays cleared, and   *)
(* no later evaluation reopens it or records it as superseded.             *)
DecisionsStand ==
  [][\A c \in Cases :
       cleared[c] \subseteq cleared'[c] \ (open'[c] \cup superseded'[c])]_vars

(***************************************************************************)
(* Refinement: the rows of the database seen as a case's life.             *)
(***************************************************************************)
Decisions(h) ==
  [i \in DOMAIN h |->
     [action |-> h[i].action, before |-> h[i].before, after |-> h[i].after]]

Lifecycle ==
  INSTANCE CaseLifecycle
    WITH status  <- [c \in Cases |-> case[c].status],
         waiting <- open,
         settled <- cleared,
         log     <- [c \in Cases |-> Decisions(actions[c])]

(* Every step of the service on its rows is a step of CaseLifecycle or     *)
(* none: whatever it does to seven tables, a case only ever moves by a     *)
(* logged decision that is not a no-op, clearing settles exactly what was  *)
(* waiting, and a re-evaluation never brings back a decided finding.       *)
ImplementsLifecycle == Lifecycle!Spec

(***************************************************************************)
(* What getAvailableActions offers.                                        *)
(***************************************************************************)
(* A command as the panel sends it when it offers this action: within the  *)
(* schema, justified, naming the open exceptions or the type the offer was *)
(* probed with.                                                            *)
AsOffered(c, cmd, first) ==
  /\ WithinSchema(cmd)
  /\ ValidateJustification(cmd)
  /\ cmd.action = "CLEAR_EXCEPTION" => cmd.ids = open[c]
  /\ cmd.action = "REQUEST_INFORMATION" =>
       NormalizedTypes(cmd) = {first} /\ (Context(c).missing = {} => cmd.unlisted)

(* The projection decides one probe for each action, the write path what   *)
(* is submitted.  Whatever happened to a case, an action that is offered   *)
(* is accepted; one called redundant or terminal is refused in every form; *)
(* and one is unavailable without a reason only if the probed type has     *)
(* been requested or received meanwhile, or if a clearance has requests to *)
(* acknowledge, which the probe does not.                                  *)
OffersHold ==
  \A c \in Cases : LET ctx == Context(c) IN
    \A first \in FirstMissing(ctx), cmd \in Commands(open[c]) :
      LET offer   == AvailableAction(cmd.action, ctx, first)
          refused == EvaluateTransition(ctx, cmd) # {}
          waiting == IF ctx.status = "AWAITING_INFORMATION" THEN ctx.requested ELSE {}
      IN /\ offer.available /\ AsOffered(c, cmd, first) => ~refused
         /\ offer.reasons \cap {"TRANSITION_REDUNDANT", "CASE_TERMINAL"} # {} => refused
         /\ \/ offer.available \/ offer.reasons # {}
            \/ cmd.action = "REQUEST_INFORMATION" /\ first \in waiting \cup received[c]
            \/ cmd.action = "CLEAR_EXCEPTION" /\ ~(waiting \subseteq received[c])
=============================================================================
