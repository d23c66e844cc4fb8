--------------------------- MODULE RuleEvaluators ---------------------------
(***************************************************************************)
(* What one rule says about one entry (src/domain/rules): applicability    *)
(* conditions, the three evaluators with the evidence they attach, and the *)
(* gates detectExceptions holds that evidence against.                     *)
(*                                                                         *)
(* An entry is [value, words, hts, origin, manufacturer, documents]: cents *)
(* of value; the keywords its description contains; the HTS code, a        *)
(* sequence of characters or None; two country texts or None; the document *)
(* rows in the order they are listed, each [type, status, file, superseded,*)
(* stated], where file says that a filename or a storage path is there.    *)
(*                                                                         *)
(* A rule is [id, type, severity, enabled, parses, conditions, schema,     *)
(* params]: parses says that its JSON columns parse, schema that Ajv       *)
(* accepts the params; params are complete, as Ajv leaves them.            *)
(***************************************************************************)
EXTENDS Integers, Sequences, FiniteSets, FiniteSetsExt

CONSTANTS
  None,        \* null
  Malformed,   \* a JSON value the code throws on: no list where it calls map,
               \* null, a number, a truth value or "" for all the conditions
  Blank,       \* a country text of white space
  Prose,       \* a description or an HTS code, read as a country
  Iso,         \* country text -> ISO code, None for a text the table lacks
  Normal       \* document type as spelled -> upper snake case

(***************************************************************************)
(* Normalization (normalize.ts).                                           *)
(***************************************************************************)
Digits            == {"0", "1", "2", "3", "4", "5", "6", "7", "8", "9"}
Space             == " "
DefaultSeparators == {".", "-", Space}

Trimmed(s) ==
  LET inked == {i \in DOMAIN s : s[i] # Space}
  IN IF inked = {} THEN << >> ELSE SubSeq(s, Min(inked), Max(inked))

(* The loop of normalizeHts: one character after the other, some left out. *)
Without(s, dropped) ==
  LET out[i \in 0..Len(s)] ==
        IF i = 0 THEN << >>
        ELSE IF s[i] \in dropped THEN out[i - 1] ELSE Append(out[i - 1], s[i])
  IN out[Len(s)]

Stripped(s, separators) == Trimmed(Without(s, separators))

StartsWith(s, p) == Len(p) <= Len(s) /\ SubSeq(s, 1, Len(p)) = p

NormalizeCountry(text) == IF text = None THEN None ELSE Iso[text]

(***************************************************************************)
(* Rule-supplied paths (fieldPath.ts).  A path is [field, type]; type is   *)
(* the document type of documents.<TYPE>.stated_country, None otherwise.   *)
(***************************************************************************)
FieldNames == {"country_of_origin", "manufacturer.address.country",
               "product_description", "hts_code", "documents"}

Known(path) == path.field \in FieldNames

(* The first active RECEIVED document of the type states the country. *)
Stated(entry, type) ==
  LET rows == {i \in DOMAIN entry.documents :
                 /\ ~entry.documents[i].superseded
                 /\ entry.documents[i].status = "RECEIVED"
                 /\ Normal[entry.documents[i].type] = Normal[type]}
  IN IF rows = {} THEN None ELSE entry.documents[Min(rows)].stated

Resolve(entry, path) ==
  CASE path.field = "country_of_origin"            -> entry.origin
    [] path.field = "manufacturer.address.country" -> entry.manufacturer
    [] path.field = "product_description"          -> Prose
    [] path.field = "hts_code"  -> IF entry.hts = None THEN None
                                   ELSE IF Trimmed(entry.hts) = << >> THEN Blank ELSE Prose
    [] path.field = "documents" -> Stated(entry, path.type)

(***************************************************************************)
(* Applicability conditions (conditions.ts).  Conditions are a function    *)
(* from the keys present; the list conditions hold sets, the HTS prefixes  *)
(* a set of sequences of characters.                                       *)
(***************************************************************************)
ConditionOrder ==
  << "min_shipment_value_usd", "max_shipment_value_usd", "commodity_keywords",
     "hts_prefixes", "country_of_origin_in", "country_of_origin_not_in" >>

ListConditions ==
  {"commodity_keywords", "hts_prefixes", "country_of_origin_in", "country_of_origin_not_in"}

HtsOfConditions(entry) ==
  IF entry.hts = None THEN << >> ELSE Stripped(entry.hts, DefaultSeparators)

MatchesPrefix(hts, p) == IF p = << >> THEN hts = << >> ELSE StartsWith(hts, p)

(* A number that does not parse is NaN, which no value reaches. *)
Met(entry, key, wanted) ==
  LET iso == NormalizeCountry(entry.origin)
  IN /\ wanted # Malformed
     /\ CASE key = "min_shipment_value_usd"   -> entry.value >= 100 * wanted
          [] key = "max_shipment_value_usd"   -> entry.value <= 100 * wanted
          [] key = "commodity_keywords"       -> entry.words \cap wanted # {}
          [] key = "hts_prefixes"             ->
               \E p \in wanted : MatchesPrefix(HtsOfConditions(entry), p)
          [] key = "country_of_origin_in"     -> iso # None /\ iso \in wanted
          [] key = "country_of_origin_not_in" -> iso = None \/ iso \notin wanted

Unmet(entry, conditions) ==
  {i \in DOMAIN ConditionOrder :
     /\ ConditionOrder[i] \in DOMAIN conditions
     /\ ~Met(entry, ConditionOrder[i], conditions[ConditionOrder[i]])}

(* The code calls map on what should be a list, and "in" on what should be *)
(* an object: where it cannot, it throws a TypeError.  Conditions that are *)
(* a list or a text are not malformed: Object.keys gives their indices, as *)
(* keys that are unknown, or none at all for the empty list.               *)
Applicability(entry, conditions) ==
  IF conditions = Malformed THEN "throws"
  ELSE IF \E key \in DOMAIN conditions : \A i \in DOMAIN ConditionOrder : key # ConditionOrder[i]
  THEN "invalid"
  ELSE IF Unmet(entry, conditions) = {} THEN "applicable"
  ELSE LET first == ConditionOrder[Min(Unmet(entry, conditions))]
       IN IF first \in ListConditions /\ conditions[first] = Malformed
          THEN "throws" ELSE "skipped"


(***************************************************************************)
(* Evidence: [kind, field, filled], where filled names the columns among   *)
(* "normalized", "comparison", "expected" and "observed" that are not null.*)
(* An evaluator answers Passes, PathUnknown or the sub-reason it fails for.*)
(***************************************************************************)
Passes      == "NO_FINDING"
PathUnknown == "RULE_PARAM_PATH_UNKNOWN"

Field(name)  == [field |-> name, type |-> None]
Observed(field, filled)   == [kind |-> "OBSERVED", field |-> field, filled |-> filled]
Compared(field, filled)   == [kind |-> "COMPARISON", field |-> field, filled |-> filled]
Lacking(field, filled)    == [kind |-> "MISSING", field |-> field, filled |-> filled]
Context(key)              ==
  [kind   |-> "CONTEXT", field |-> Field(key),
   filled |-> {"expected", "observed"}
              \cup (IF key = "min_shipment_value_usd" THEN {"normalized"} ELSE {})]

(***************************************************************************)
(* INVALID_HTS_CODE (evaluators/htsCode.ts): the first failing check.      *)
(***************************************************************************)
HtsChecks == << "PLACEHOLDER", "NON_NUMERIC", "ODD_STRUCTURE",
                "TOO_MANY_DIGITS", "INCOMPLETE_DIGITS", "UNKNOWN_CODE" >>

(* A faulty OddStructure, which overlooks a trailing separator. *)
OddStructureButTrailing(raw, separators) ==
  \/ raw[1] \in separators
  \/ \E i \in 1..(Len(raw) - 1) : raw[i] \in separators /\ raw[i + 1] \in separators

OddStructure(raw, separators) ==
  \/ raw[1] \in separators
  \/ raw[Len(raw)] \in separators
  \/ \E i \in 1..(Len(raw) - 1) : raw[i] \in separators /\ raw[i + 1] \in separators

FailsHts(check, raw, p) ==
  LET code   == Stripped(raw, p.allowed_separators)
      prefix == SubSeq(code, 1, Min({Len(code), p.known_code_prefix_length}))
  IN CASE check = "PLACEHOLDER"       -> \E i \in DOMAIN code : code[i] \in p.placeholder_characters
       [] check = "NON_NUMERIC"       -> \E i \in DOMAIN code : code[i] \notin Digits
       [] check = "ODD_STRUCTURE"     -> OddStructure(raw, p.allowed_separators)
       [] check = "TOO_MANY_DIGITS"   -> Len(code) > p.expected_digit_count
       [] check = "INCOMPLETE_DIGITS" -> /\ Len(code) < p.expected_digit_count
                                         /\ ~(p.allow_partial /\ Len(code) >= p.min_digit_count)
       [] check = "UNKNOWN_CODE"      -> p.check_known_codes /\ prefix \notin p.known_codes

HtsMissing(entry) == entry.hts = None \/ Trimmed(entry.hts) = << >>

EvaluateHtsCode(entry, p) ==
  IF HtsMissing(entry) THEN IF p.treat_missing_as_exception THEN "MISSING" ELSE Passes
  ELSE LET failing == {i \in DOMAIN HtsChecks : FailsHts(HtsChecks[i], entry.hts, p)}
       IN IF failing = {} THEN Passes ELSE HtsChecks[Min(failing)]

(* A faulty HtsEvidence: a missing code leaves nothing to observe. *)
HtsEvidenceUnobserved(reason) ==
  IF reason = "MISSING" THEN {Lacking(Field("hts_code"), {"expected"})}
  ELSE {Observed(Field("hts_code"), {"normalized", "expected", "observed"})}

HtsEvidence(reason) ==
  LET hts == Field("hts_code")
  IN CASE reason = "MISSING"           -> {Observed(hts, {"expected", "observed"}),
                                           Lacking(hts, {"expected"})}
       [] reason = "INCOMPLETE_DIGITS" -> {Observed(hts, {"normalized", "expected", "observed"}),
                                           Lacking(hts, {"expected", "observed"})}
       [] OTHER                        -> {Observed(hts, {"normalized", "expected", "observed"})}

(***************************************************************************)
(* CONFLICTING_COUNTRY_OF_ORIGIN (evaluators/countryOfOrigin.ts): the      *)
(* first comparison field that decides.                                    *)
(***************************************************************************)
(* A faulty CompareField, which reads the allowed pairs the other way round. *)
CompareFieldSwapped(entry, declared, path, p) ==
  LET text == Resolve(entry, path)
      iso  == NormalizeCountry(text)
  IN IF ~Known(path) THEN PathUnknown
     ELSE IF text \in {None, Blank}
     THEN IF p.treat_missing_comparison_as_conflict
          THEN "MISSING_COMPARISON_ORIGIN" ELSE Passes
     ELSE IF iso = None THEN "UNRESOLVABLE_COMPARISON_ORIGIN"
     ELSE IF iso = declared \/ <<iso, declared>> \in p.allowed_pairs THEN Passes
     ELSE "ORIGIN_MISMATCH"

CompareField(entry, declared, path, p) ==
  LET text == Resolve(entry, path)
      iso  == NormalizeCountry(text)
  IN IF ~Known(path) THEN PathUnknown
     ELSE IF text \in {None, Blank}
     THEN IF p.treat_missing_comparison_as_conflict
          THEN "MISSING_COMPARISON_ORIGIN" ELSE Passes
     ELSE IF iso = None THEN "UNRESOLVABLE_COMPARISON_ORIGIN"
     ELSE IF iso = declared \/ <<declared, iso>> \in p.allowed_pairs THEN Passes
     ELSE "ORIGIN_MISMATCH"

Decisive(entry, declared, p) ==
  {i \in DOMAIN p.comparison_fields :
     CompareField(entry, declared, p.comparison_fields[i], p) # Passes}

DeclaredIso(entry, p) == NormalizeCountry(Resolve(entry, p.declared_field))

EvaluateCountryOfOrigin(entry, p) ==
  IF ~Known(p.declared_field) THEN PathUnknown
  ELSE LET declared == DeclaredIso(entry, p)
           decisive == Decisive(entry, declared, p)
       IN IF declared = None
          THEN IF p.treat_missing_declared_as_conflict
               THEN "UNRESOLVABLE_DECLARED_ORIGIN" ELSE Passes
          ELSE IF decisive = {} THEN Passes
          ELSE CompareField(entry, declared, p.comparison_fields[Min(decisive)], p)

(* The rows of a finding: the declared field and the field that decided.   *)
OriginEvidence(entry, p, reason) ==
  LET declared == DeclaredIso(entry, p)
      path     == p.comparison_fields[Min(Decisive(entry, declared, p))]
      row      == CASE reason = "MISSING_COMPARISON_ORIGIN"      -> Lacking(path, {})
                    [] reason = "UNRESOLVABLE_COMPARISON_ORIGIN" -> Compared(path, {})
                    [] reason = "ORIGIN_MISMATCH" ->
                         Compared(path, {"normalized", "comparison", "expected", "observed"})
  IN IF reason = "UNRESOLVABLE_DECLARED_ORIGIN" THEN {Observed(p.declared_field, {})}
     ELSE {Observed(p.declared_field, {"normalized"}), row}

(***************************************************************************)
(* MISSING_REQUIRED_DOCUMENT (evaluators/missingDocument.ts).              *)
(***************************************************************************)
Rows(entry) == {entry.documents[i] : i \in DOMAIN entry.documents}

Accepted(d, p) == d.status \in p.accept_statuses /\ ~(p.ignore_superseded /\ d.superseded)

Satisfies(d, p) == Accepted(d, p) /\ (p.require_file_present => d.file)

ReceivedTypes(entry, p) == {Normal[d.type] : d \in {r \in Rows(entry) : Satisfies(r, p)}}

Required(p) == {Normal[t] : t \in p.required_document_types}

(* A faulty Missing: the alternatives are missing once one is there. *)
MissingInverted(entry, p) ==
  LET received == ReceivedTypes(entry, p)
  IN IF p.match_mode = "ANY_ONE_OF"
     THEN IF Required(p) \cap received # {} THEN Required(p) ELSE {}
     ELSE Required(p) \ received

Missing(entry, p) ==
  LET received == ReceivedTypes(entry, p)
  IN IF p.match_mode = "ANY_ONE_OF"
     THEN IF Required(p) \cap received = {} THEN Required(p) ELSE {}
     ELSE Required(p) \ received

SubReasonFor(entry, type, p) ==
  LET rows     == {d \in Rows(entry) : Normal[d.type] = type}
      accepted == {d \in rows : Accepted(d, p)}
  IN IF rows = {} THEN "DOCUMENT_NOT_DECLARED"
     ELSE IF accepted # {} /\ p.require_file_present /\ \A d \in accepted : ~d.file
     THEN "DOCUMENT_FILE_MISSING" ELSE "DOCUMENT_NOT_RECEIVED"

(* The most specific reason among the missing types. *)
EvaluateMissingDocument(entry, p) ==
  LET missing == Missing(entry, p)
      reasons == {IF p.match_mode = "ANY_ONE_OF" THEN "DOCUMENT_NOT_DECLARED"
                  ELSE SubReasonFor(entry, t, p) : t \in missing}
  IN CASE missing = {}                          -> Passes
       [] "DOCUMENT_FILE_MISSING" \in reasons   -> "DOCUMENT_FILE_MISSING"
       [] "DOCUMENT_NOT_RECEIVED" \in reasons
          /\ "DOCUMENT_FILE_MISSING" \notin reasons -> "DOCUMENT_NOT_RECEIVED"
       [] reasons = {"DOCUMENT_NOT_DECLARED"}   -> "DOCUMENT_NOT_DECLARED"

DocumentEvidence(entry, rule) ==
  {Observed(Field("documents"), {"normalized", "expected", "observed"})}
  \cup {Lacking([field |-> "documents", type |-> t], {"normalized", "expected"})
          : t \in Missing(entry, rule.params)}
  \cup {Context(key) : key \in DOMAIN rule.conditions
                               \cap {"min_shipment_value_usd", "commodity_keywords"}}

(***************************************************************************)
(* What engine.ts asks of a rule: its parameters (validateParams with the  *)
(* cross-field check), the evaluator of its type, the finding.             *)
(***************************************************************************)
Supported == {"MISSING_REQUIRED_DOCUMENT", "INVALID_HTS_CODE", "CONFLICTING_COUNTRY_OF_ORIGIN"}

ParamsValid(rule) ==
  /\ rule.schema
  /\ rule.type = "INVALID_HTS_CODE" =>
       ~(rule.params.check_known_codes /\ rule.params.known_codes = {})

Evaluate(entry, rule) ==
  CASE rule.type = "MISSING_REQUIRED_DOCUMENT"     -> EvaluateMissingDocument(entry, rule.params)
    [] rule.type = "INVALID_HTS_CODE"              -> EvaluateHtsCode(entry, rule.params)
    [] rule.type = "CONFLICTING_COUNTRY_OF_ORIGIN" -> EvaluateCountryOfOrigin(entry, rule.params)

Evidence(entry, rule) ==
  LET reason == Evaluate(entry, rule)
  IN CASE rule.type = "MISSING_REQUIRED_DOCUMENT"     -> DocumentEvidence(entry, rule)
       [] rule.type = "INVALID_HTS_CODE"              -> HtsEvidence(reason)
       [] rule.type = "CONFLICTING_COUNTRY_OF_ORIGIN" -> OriginEvidence(entry, rule.params, reason)

(* missing: the document types listed in missing_information. *)
FindingOf(entry, rule) ==
  [rule     |-> rule.id, type |-> rule.type, severity |-> rule.severity,
   reason   |-> Evaluate(entry, rule),
   evidence |-> Evidence(entry, rule),
   missing  |-> IF rule.type = "MISSING_REQUIRED_DOCUMENT"
                THEN Missing(entry, rule.params) ELSE {}]

(***************************************************************************)
(* assertEvidenceGates (src/app/evaluationService.ts).                     *)
(***************************************************************************)
Admitted(finding) ==
  LET Has(kind, columns) ==
        \E e \in finding.evidence : e.kind = kind /\ columns \subseteq e.filled
  IN /\ finding.evidence # {}
     /\ finding.type = "MISSING_REQUIRED_DOCUMENT" => Has("MISSING", {})
     /\ finding.type = "CONFLICTING_COUNTRY_OF_ORIGIN" /\ finding.reason = "ORIGIN_MISMATCH" =>
          Has("OBSERVED", {"normalized"}) /\ Has("COMPARISON", {"comparison"})
     /\ finding.type = "INVALID_HTS_CODE" => Has("OBSERVED", {"expected", "observed"})
=============================================================================
