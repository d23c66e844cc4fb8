---------------------------- MODULE MCRuleEngine ----------------------------
(***************************************************************************)
(* Instances of RuleEngine for TLC: every HTS code of some characters up   *)
(* to a length, and entries whose origins and documents vary, each against *)
(* small sets of rules.                                                    *)
(***************************************************************************)
EXTENDS RuleEngine

Countries == {"Malaysia", "China", "Singapore", "Atlantis", "blank", "prose"}
MCIso == [t \in Countries |-> CASE t = "Malaysia" -> "MY" [] t = "China" -> "CN"
                                [] t = "Singapore" -> "SG" [] OTHER -> None]

DocTypes == {"COO", "coo", "PACKING_LIST"}
MCNormal == [t \in DocTypes |-> IF t = "coo" THEN "COO" ELSE t]

(* Rules. *)
NoConditions == [k \in {} |-> {}]
Rule(id, type, severity, conditions, params) ==
  [id |-> id, type |-> type, severity |-> severity, enabled |-> TRUE, parses |-> TRUE,
   conditions |-> conditions, schema |-> TRUE, params |-> params]

Separators == {".", " "}
HtsParams(partial, known) ==
  [expected_digit_count |-> 6, min_digit_count |-> 4, allowed_separators |-> Separators,
   allow_partial |-> partial, treat_missing_as_exception |-> ~partial,
   check_known_codes |-> known # {}, known_code_prefix_length |-> 4, known_codes |-> known,
   placeholder_characters |-> {"X"}]
Hts(id, severity, partial, known) ==
  Rule(id, "INVALID_HTS_CODE", severity, NoConditions, HtsParams(partial, known))

Certificate  == [field |-> "documents", type |-> "COO"]
Manufacturer == Field("manufacturer.address.country")
OriginParams(fields, strict, pairs) ==
  [declared_field |-> Field("country_of_origin"), comparison_fields |-> fields,
   treat_missing_declared_as_conflict |-> strict,
   treat_missing_comparison_as_conflict |-> strict, allowed_pairs |-> pairs]
Origin(id, severity, conditions, fields, strict, pairs) ==
  Rule(id, "CONFLICTING_COUNTRY_OF_ORIGIN", severity, conditions,
       OriginParams(fields, strict, pairs))

Documents(id, severity, conditions, types, mode, lenient) ==
  Rule(id, "MISSING_REQUIRED_DOCUMENT", severity, conditions,
       [required_document_types |-> types, match_mode |-> mode,
        accept_statuses |-> {"RECEIVED"}, require_file_present |-> ~lenient,
        ignore_superseded |-> ~lenient])

(* HTS codes: every one over some characters up to a length. *)
Codes(characters, longest) == UNION {[1..n -> characters] : n \in 0..longest}

Entry(value, words, hts, origin, manufacturer, documents) ==
  [value |-> value, words |-> words, hts |-> hts, origin |-> origin,
   manufacturer |-> manufacturer, documents |-> documents]

CodeInstances ==
  LET plain(hts) == Entry(0, {}, hts, "China", "China", << >>)
      listed == {<<"8", "8", "1", "8">>, <<"8", "1", "8", "8">>}
  IN {<<plain(hts), {Hts(1, 2, FALSE, {}), Hts(2, 2, TRUE, {})}>> :
         hts \in Codes({"8", "."}, 9) \cup Codes({"8", ".", "X"}, 6)}
     \cup {<<plain(hts), {Hts(1, 1, FALSE, listed), Hts(2, 3, TRUE, listed),
                          [Hts(3, 0, TRUE, {}) EXCEPT
                             !.params.allowed_separators = {".", " ", "1"}],
                          [Hts(4, 0, TRUE, {}) EXCEPT
                             !.params.placeholder_characters = {"1"}]}>> :
         hts \in Codes({"8", "1", " "}, 6) \cup {None}}

(* Documents: one row of each type, one type spelled in two ways.          *)
Row(type, received, file, superseded, stated) ==
  [type |-> type, status |-> received, file |-> file, superseded |-> superseded,
   stated |-> stated]

CertificateRows ==
  {Row("COO", "NOT_RECEIVED", FALSE, FALSE, None),
   Row("COO", "NOT_RECEIVED", FALSE, FALSE, "China"),
   Row("coo", "RECEIVED", TRUE, FALSE, "Malaysia"),
   Row("COO", "RECEIVED", FALSE, FALSE, "Atlantis"),
   Row("COO", "RECEIVED", TRUE, TRUE, "China")}
PackingRows ==
  {Row("PACKING_LIST", "NOT_RECEIVED", FALSE, FALSE, None),
   Row("PACKING_LIST", "RECEIVED", TRUE, FALSE, None)}

Listed == {<< >>, <<Row("COO", "RECEIVED", TRUE, TRUE, "China"),
                    Row("coo", "RECEIVED", TRUE, FALSE, "Malaysia")>>}
          \cup {<<c>> : c \in CertificateRows}
          \cup {<<c, p>> : c \in CertificateRows, p \in PackingRows}

Both == {"COO", "PACKING_LIST"}
Bound(key, value) == [k \in {key} |-> value]

ArrivalRules ==
  {Documents(1, 1, NoConditions, Both, "ALL", FALSE),
   Documents(2, 2, Bound("min_shipment_value_usd", 500), {"coo"}, "ALL", FALSE),
   Documents(3, 2, Bound("commodity_keywords", {"solar"}), Both, "ANY_ONE_OF", FALSE),
   Documents(4, 0, NoConditions, Both, "ALL", TRUE),
   Origin(5, 3, NoConditions, <<Certificate, Manufacturer>>, FALSE, {}),
   Origin(6, 3, NoConditions, <<Manufacturer, Certificate>>, FALSE, {<<"MY", "SG">>})}

(* Rules that cannot be used, between rules that can.  The conditions of   *)
(* the last are a list of one, whose only key is "0".                      *)
DefectiveRules ==
  {[Hts(1, 2, FALSE, {}) EXCEPT !.parses = FALSE, !.enabled = FALSE],
   [Hts(2, 2, FALSE, {}) EXCEPT !.params.check_known_codes = TRUE],
   [Hts(3, 1, FALSE, {}) EXCEPT !.schema = FALSE],
   [Hts(4, 1, FALSE, {}) EXCEPT !.type = "UNSUPPORTED"],
   [Hts(5, 1, FALSE, {}) EXCEPT !.enabled = FALSE],
   Origin(6, 3, Bound("country_of_origin_in", {"MY", "CN"}), <<Manufacturer>>, TRUE, {}),
   Origin(7, 3, Bound("country_of_origin_not_in", {"MY"}), <<Manufacturer>>, TRUE, {}),
   Origin(8, 1, NoConditions, <<Manufacturer, Field("vessel")>>, FALSE, {}),
   Origin(9, 2, Bound("vessel_in", {}), <<Manufacturer>>, FALSE, {}),
   Hts(10, 0, FALSE, {}),
   Origin(11, 2, Bound("0", {}), <<Manufacturer>>, FALSE, {})}

(* A keyword list that is a string. *)
MalformedRules ==
  {Origin(1, 3, Bound("max_shipment_value_usd", 400), <<Manufacturer>>, TRUE, {}),
   [Hts(2, 3, FALSE, {}) EXCEPT !.conditions = Bound("hts_prefixes", {<<"8">>, << >>})],
   [Hts(3, 2, FALSE, {}) EXCEPT !.conditions = Bound("commodity_keywords", Malformed)],
   Hts(4, 1, FALSE, {})}

Origins == {None, "Malaysia", "China", "Atlantis"}
Makers  == {None, "blank", "Malaysia", "Singapore", "Atlantis"}

ArrivalInstances ==
  {<<Entry(v, w, << >>, o, m, d), ArrivalRules>> :
     v \in {49999, 50000}, w \in {{"solar"}, {"wood"}}, o \in {"Malaysia", "China"},
     m \in {None, "China", "Singapore"}, d \in Listed}

DefectiveInstances ==
  {<<Entry(0, {}, h, o, m, << >>), DefectiveRules>> :
     h \in {None, <<"8", "1">>}, o \in Origins, m \in Makers}

MalformedInstances ==
  {<<Entry(v, {}, h, o, "China", << >>), MalformedRules>> :
     v \in {40000, 40001}, h \in {None, <<"1", "8">>, <<".", "8">>}, o \in Origins}

MCInstances == CodeInstances \cup ArrivalInstances \cup DefectiveInstances
               \cup MalformedInstances
=============================================================================
