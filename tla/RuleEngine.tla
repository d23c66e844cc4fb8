----------------------------- MODULE RuleEngine -----------------------------
(***************************************************************************)
(* The evaluation of an entry against the rule rows: detectExceptions      *)
(* parses the rows, evaluateEntry (src/domain/rules/engine.ts) takes the   *)
(* enabled ones in the binding order and sorts each into findings, skipped *)
(* or invalid rules, and detectExceptions holds the findings against its   *)
(* evidence gates.  What it then writes is in CaseWorkflow.                *)
(*                                                                         *)
(* An evaluation is synchronous and runs in one transaction, so the entry  *)
(* changes only between evaluations.  No code of the repository receives a *)
(* document yet; Receive is the DOCUMENT_UPLOAD the trigger is named for.  *)
(***************************************************************************)
EXTENDS RuleEvaluators

CONSTANTS
  Instances,      \* pairs <<entry, rows>>, rows a set of rules with distinct ids
  MaxEvaluations  \* bound on evaluations

ASSUME IdsDistinct ==
  \A i \in Instances : \A q, r \in i[2] : q.id = r.id => q = r
ASSUME EvaluationsBounded == MaxEvaluations \in Nat

(* Entries and their documents have the columns of the tables; an HTS code *)
(* is a text.                                                              *)
ASSUME EntriesShaped ==
  \A i \in Instances :
    /\ DOMAIN i[1] = {"value", "words", "hts", "origin", "manufacturer", "documents"}
    /\ i[1].hts # None => i[1].hts \in Seq(STRING)
    /\ \A d \in DOMAIN i[1].documents :
         DOMAIN i[1].documents[d] = {"type", "status", "file", "superseded", "stated"}

(* The parameter schemas (schemas.ts) want integers for the digit counts,  *)
(* a list of fields and pairs of ISO codes.                                *)
ASSUME ParamsShaped ==
  \A i \in Instances : \A r \in i[2] : r.schema =>
    /\ r.type = "INVALID_HTS_CODE" =>
         /\ r.params.expected_digit_count \in 6..12
         /\ r.params.min_digit_count \in 4..12
         /\ r.params.known_code_prefix_length \in 4..10
    /\ r.type = "CONFLICTING_COUNTRY_OF_ORIGIN" =>
         /\ DOMAIN r.params.comparison_fields \subseteq Nat
         /\ \A pair \in r.params.allowed_pairs : None \notin {pair[1], pair[2]}

VARIABLES
  entry,      \* the cargo entry with its documents
  snapshot,   \* the entry as the evaluation read it
  rows,       \* the rules table
  todo,       \* rules this evaluation has not come to
  findings,   \* EvaluationResult.findings, in order
  skipped,    \* ids in skipped_rules
  invalid,    \* ids in invalid_rules, rows that do not parse included
  status,     \* "idle", "running", "done", "thrown" or "refused"
  previous,   \* findings of the last evaluation committed before, or None
  evaluations \* evaluations started

vars ==
  <<entry, snapshot, rows, todo, findings, skipped, invalid, status, previous, evaluations>>

(***************************************************************************)
(* The binding order: exception type, severity from the highest, id.  The  *)
(* CHECK on rules.exception_type keeps other types out of the table;       *)
(* "UNSUPPORTED" stands for one that comes without it.                     *)
(***************************************************************************)
TypeRank(type) ==
  CASE type = "CONFLICTING_COUNTRY_OF_ORIGIN" -> 1
    [] type = "INVALID_HTS_CODE"              -> 2
    [] type = "MISSING_REQUIRED_DOCUMENT"     -> 3
    [] type = "UNSUPPORTED"                   -> 4

(* A faulty CompareRules: LOW before CRITICAL. *)
CompareRulesAscending(a, b) ==
  \/ TypeRank(a.type) < TypeRank(b.type)
  \/ TypeRank(a.type) = TypeRank(b.type) /\ a.severity < b.severity
  \/ TypeRank(a.type) = TypeRank(b.type) /\ a.severity = b.severity /\ a.id < b.id

CompareRules(a, b) ==
  \/ TypeRank(a.type) < TypeRank(b.type)
  \/ TypeRank(a.type) = TypeRank(b.type) /\ a.severity > b.severity
  \/ TypeRank(a.type) = TypeRank(b.type) /\ a.severity = b.severity /\ a.id < b.id

Init ==
  /\ \E i \in Instances : entry = i[1] /\ rows = i[2]
  /\ snapshot = entry
  /\ todo = {} /\ findings = << >> /\ skipped = {} /\ invalid = {}
  /\ status = "idle" /\ previous = None /\ evaluations = 0

(* Parse the rows, disabled ones too; take up those that are enabled. *)
Load ==
  /\ status # "running" /\ evaluations < MaxEvaluations
  /\ status' = "running" /\ evaluations' = evaluations + 1
  /\ previous' = IF status = "done" THEN findings ELSE previous
  /\ invalid' = {r.id : r \in {q \in rows : ~q.parses}}
  /\ todo' = {r \in rows : r.parses /\ r.enabled}
  /\ snapshot' = entry
  /\ findings' = << >> /\ skipped' = {}
  /\ UNCHANGED <<entry, rows>>

(***************************************************************************)
(* One turn of the loop: the rule it has come to, and what the engine      *)
(* makes of it.                                                            *)
(***************************************************************************)
Turn(r) ==
  /\ status = "running" /\ r \in todo
  /\ \A q \in todo \ {r} : CompareRules(r, q)
  /\ todo' = todo \ {r}
  /\ UNCHANGED <<entry, snapshot, rows, previous, evaluations>>

Usable(r)     == r.type \in Supported /\ ParamsValid(r)
Applicable(r) == Applicability(snapshot, r.conditions)

Rejected(r) ==
  \/ ~Usable(r)
  \/ Applicable(r) = "invalid"
  \/ Usable(r) /\ Applicable(r) = "applicable" /\ Evaluate(snapshot, r) = PathUnknown

(* A faulty Reject, which ends the loop. *)
RejectAndStop(r) ==
  /\ status = "running" /\ \A q \in todo \ {r} : CompareRules(r, q)
  /\ Rejected(r)
  /\ todo' = {} /\ invalid' = invalid \cup {r.id}
  /\ UNCHANGED <<entry, snapshot, rows, previous, evaluations, findings, skipped, status>>

Reject(r) ==
  /\ Turn(r) /\ Rejected(r)
  /\ invalid' = invalid \cup {r.id}
  /\ UNCHANGED <<findings, skipped, status>>

Skip(r) ==
  /\ Turn(r) /\ Usable(r) /\ Applicable(r) = "skipped"
  /\ skipped' = skipped \cup {r.id}
  /\ UNCHANGED <<findings, invalid, status>>

Pass(r) ==
  /\ Turn(r) /\ Usable(r) /\ Applicable(r) = "applicable"
  /\ Evaluate(snapshot, r) = Passes
  /\ UNCHANGED <<findings, skipped, invalid, status>>

Fires(r) ==
  Usable(r) /\ Applicable(r) = "applicable" /\ Evaluate(snapshot, r) \notin {Passes, PathUnknown}

(* A faulty Find, which leaves the conditions out. *)
FindUnconditionally(r) ==
  /\ Turn(r) /\ Usable(r) /\ r.conditions # Malformed
  /\ Evaluate(snapshot, r) \notin {Passes, PathUnknown}
  /\ findings' = Append(findings, FindingOf(snapshot, r))
  /\ UNCHANGED <<skipped, invalid, status>>

Find(r) ==
  /\ Turn(r) /\ Fires(r)
  /\ findings' = Append(findings, FindingOf(snapshot, r))
  /\ UNCHANGED <<skipped, invalid, status>>

(* A TypeError in the conditions is not caught: the loop is left and       *)
(* detectExceptions rolls back.                                            *)
Throw(r) ==
  /\ Turn(r) /\ Usable(r) /\ Applicable(r) = "throws"
  /\ status' = "thrown"
  /\ UNCHANGED <<findings, skipped, invalid>>

(* The loop is over; the gates admit every finding or refuse them all. *)
Conclude ==
  /\ status = "running" /\ todo = {}
  /\ status' = IF \A i \in DOMAIN findings : Admitted(findings[i]) THEN "done" ELSE "refused"
  /\ UNCHANGED <<entry, snapshot, rows, todo, findings, skipped, invalid, previous, evaluations>>

(* A document that had not been received arrives with its file.  The index *)
(* idx_documents_active_type allows one active document per type.          *)
Receive(i) ==
  /\ status # "running"
  /\ entry.documents[i].status = "NOT_RECEIVED"
  /\ \A j \in DOMAIN entry.documents :
       ~( /\ entry.documents[j].type = entry.documents[i].type
          /\ entry.documents[j].status = "RECEIVED"
          /\ ~entry.documents[j].superseded )
  /\ entry' = [entry EXCEPT !.documents[i] = [@ EXCEPT !.status = "RECEIVED", !.file = TRUE]]
  /\ UNCHANGED <<snapshot, rows, todo, findings, skipped, invalid, status, previous, evaluations>>

Next ==
  \/ Load
  \/ \E r \in todo : Reject(r) \/ Skip(r) \/ Pass(r) \/ Find(r) \/ Throw(r)
  \/ Conclude
  \/ \E i \in DOMAIN entry.documents : Receive(i)

Spec == Init /\ [][Next]_vars
-----------------------------------------------------------------------------
Ids        == {r.id : r \in rows}
Reported   == {findings[i].rule : i \in DOMAIN findings}
Enabled    == {r \in rows : r.parses /\ r.enabled}

TypeOK ==
  /\ status \in {"idle", "running", "done", "thrown", "refused"}
  /\ evaluations \in 0..MaxEvaluations
  /\ todo \subseteq rows
  /\ skipped \subseteq Ids /\ invalid \subseteq Ids
  /\ findings \in Seq({FindingOf(snapshot, r) : r \in {q \in Enabled : Fires(q)}})

(* Findings come by type, the severest first, then by id, each rule once.  *)
(* engine.ts calls the order binding: it is persisted and displayed.       *)
FindingsInOrder ==
  \A i, j \in DOMAIN findings : i < j =>
    LET a == findings[i]
        b == findings[j]
    IN \/ TypeRank(a.type) < TypeRank(b.type)
       \/ a.type = b.type /\ a.severity > b.severity
       \/ a.type = b.type /\ a.severity = b.severity /\ a.rule < b.rule

(* Each enabled rule is answered for itself: skipped, rejected and passing *)
(* neighbours change nothing in what evaluateEntry reports of it.          *)
NoneSuppressed ==
  status = "done" => \A r \in Enabled :
    /\ r.id \in Reported <=> Fires(r)
    /\ r.id \in invalid  <=> Rejected(r)
    /\ ~(r.id \in skipped /\ r.id \in Reported \cup invalid)

(***************************************************************************)
(* An HTS code is complete when significant digits, and single separators  *)
(* between two of them, are all there is to it, the digits are as many as  *)
(* expected, or enough of them when part of a code will do, and the code   *)
(* is listed.  The schema forbids no digit among the separators and the    *)
(* placeholders of a rule; such a digit is not significant.                *)
(***************************************************************************)
CompleteHts(code, p) ==
  LET significant ==
        {i \in DOMAIN code :
           code[i] \in Digits \ (p.allowed_separators \cup p.placeholder_characters)}
      number == Cardinality(significant)
      plain  == Without(code, {code[i] : i \in DOMAIN code \ significant})
  IN /\ \A i \in DOMAIN code \ significant :
          code[i] \in p.allowed_separators /\ {i - 1, i + 1} \subseteq significant
     /\ \/ number = p.expected_digit_count
        \/ p.allow_partial /\ number \in p.min_digit_count..p.expected_digit_count
     /\ p.check_known_codes => \E k \in p.known_codes :
          k = SubSeq(plain, 1, Min({number, p.known_code_prefix_length}))

(* evaluateHtsCode strips, searches and counts in six steps; the rule      *)
(* fires on exactly the codes that are not complete.  (A blank that is no  *)
(* separator is trimmed by some steps and seen by others: not covered.)    *)
HtsFindingsExact ==
  status = "done" => \A r \in Enabled :
    /\ r.type = "INVALID_HTS_CODE" /\ Usable(r) /\ Space \in r.params.allowed_separators
    /\ Applicable(r) = "applicable" /\ ~HtsMissing(snapshot)
    => (r.id \in Reported <=> ~CompleteHts(snapshot.hts, r.params))

Disagrees(path, p) ==
  LET text == Resolve(snapshot, path)
      iso  == NormalizeCountry(text)
      declared == NormalizeCountry(Resolve(snapshot, p.declared_field))
  IN IF text \in {None, Blank} THEN p.treat_missing_comparison_as_conflict
     ELSE iso # declared /\ <<declared, iso>> \notin p.allowed_pairs

(* evaluateCountryOfOrigin stops at the first field that decides; whether  *)
(* it reports the entry depends on no order: some field disagrees.         *)
OriginFindingsExact ==
  status = "done" => \A r \in Enabled :
    LET p     == r.params
        paths == {p.comparison_fields[i] : i \in DOMAIN p.comparison_fields}
    IN /\ r.type = "CONFLICTING_COUNTRY_OF_ORIGIN" /\ Usable(r)
       /\ Applicable(r) = "applicable"
       /\ \A path \in paths \cup {p.declared_field} : Known(path)
       => (r.id \in Reported <=>
            IF NormalizeCountry(Resolve(snapshot, p.declared_field)) = None
            THEN p.treat_missing_declared_as_conflict
            ELSE \E path \in paths : Disagrees(path, p))

(* No evaluator emits a finding that the gates of detectExceptions refuse: *)
(* a refusal would roll the whole evaluation back.                         *)
GatesNeverRefuse == status # "refused"

RuleOf(finding) == CHOOSE r \in rows : r.id = finding.rule

(* Documents that arrive between two evaluations only help: a document     *)
(* finding was there before with at least the same types missing.          *)
DocumentsOnlyHelp ==
  status = "done" /\ previous # None => \A i \in DOMAIN findings :
    (findings[i].type = "MISSING_REQUIRED_DOCUMENT"
      /\ "RECEIVED" \in RuleOf(findings[i]).params.accept_statuses)
    => \E j \in DOMAIN previous :
         previous[j].rule = findings[i].rule /\ findings[i].missing \subseteq previous[j].missing

(* "an invalid rule never prevents others from evaluating" (engine.ts).    *)
InvalidNeverPrevents == status # "thrown"
=============================================================================
