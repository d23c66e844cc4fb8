-------------------------- MODULE RuleEngineProofs --------------------------
(***************************************************************************)
(* Proofs about the evaluation loop, for every entry, every set of rules   *)
(* with distinct ids and any number of evaluations: each rule is answered  *)
(* for itself, findings come in the binding order, no evidence gate        *)
(* refuses, what documents do to document findings, and that the origin    *)
(* and HTS evaluators report exactly the entries they are meant to.        *)
(***************************************************************************)
EXTENDS RuleEngine, TLAPS, FiniteSetTheorems

(* While the snapshot and the rows stay, rules say what they said.         *)
LEMMA RulesStay ==
  ASSUME UNCHANGED <<snapshot, rows>>
  PROVE  /\ Enabled' = Enabled /\ Ids' = Ids
         /\ \A r : Fires(r)' <=> Fires(r)
         /\ \A r : Rejected(r)' <=> Rejected(r)
BY DEF Enabled, Ids, Fires, Rejected, Usable, Applicable

(* The outcomes of a turn exclude each other.                              *)
LEMMA OutcomesApart ==
  ASSUME NEW r
  PROVE  /\ ~(Rejected(r) /\ Fires(r))
         /\ Usable(r) /\ Applicable(r) = "skipped" => ~Rejected(r) /\ ~Fires(r)
         /\ Usable(r) /\ Applicable(r) = "applicable" /\ Evaluate(snapshot, r) = Passes =>
              ~Rejected(r) /\ ~Fires(r)
BY DEF Rejected, Fires, Passes, PathUnknown

-----------------------------------------------------------------------------
(* The findings a rule may give, and what precedes it in the listing.      *)
Found == {FindingOf(snapshot, r) : r \in {q \in Enabled : Fires(q)}}

Precedes(finding, r) ==
  \/ TypeRank(finding.type) < TypeRank(r.type)
  \/ TypeRank(finding.type) = TypeRank(r.type) /\ finding.severity > r.severity
  \/ TypeRank(finding.type) = TypeRank(r.type) /\ finding.severity = r.severity
       /\ finding.rule < r.id

(* What the loop has made of a rule it has dealt with.                     *)
AnsweredFor(r) ==
  /\ r.id \in Reported <=> Fires(r)
  /\ r.id \in invalid  <=> Rejected(r)
  /\ ~(r.id \in skipped /\ r.id \in Reported \cup invalid)

LoopInv ==
  /\ \A q, r \in rows : q.id = r.id => q = r
  /\ todo \subseteq Enabled
  /\ findings \in Seq(Found)
  /\ \A i \in DOMAIN findings, r \in todo : Precedes(findings[i], r)
  /\ FindingsInOrder
  /\ \A r \in todo : r.id \notin Reported \cup skipped \cup invalid
  /\ status \in {"running", "done", "refused"} => \A r \in Enabled \ todo : AnsweredFor(r)
  /\ status \in {"idle", "done", "refused"} => todo = {}

(* A finding carries its rule's id, type and severity.                     *)
LEMMA FoundOf ==
  ASSUME NEW f \in Found
  PROVE  \E r \in Enabled :
           /\ Fires(r) /\ f = FindingOf(snapshot, r)
           /\ f.rule = r.id /\ f.type = r.type /\ f.severity = r.severity
           /\ f.type \in Supported
BY DEF Found, FindingOf, Fires, Usable

LEMMA InitLoop == Init => LoopInv
<1> SUFFICES ASSUME Init PROVE LoopInv
  OBVIOUS
<1>1. \A q, r \in rows : q.id = r.id => q = r
  BY IdsDistinct DEF Init
<1>2. findings \in Seq(Found) /\ DOMAIN findings = {}
  BY DEF Init
<1>3. QED
  BY <1>1, <1>2 DEF Init, LoopInv, FindingsInOrder

LEMMA LoadKeeps ==
  ASSUME LoopInv, Load
  PROVE  LoopInv'
<1>1. /\ UNCHANGED rows /\ findings' = << >> /\ DOMAIN findings' = {}
      /\ todo' = {r \in rows : r.parses /\ r.enabled}
      /\ invalid' = {r.id : r \in {q \in rows : ~q.parses}}
      /\ skipped' = {} /\ status' = "running"
  BY DEF Load
<1>2. Enabled' = todo' /\ Reported' = {}
  BY <1>1 DEF Enabled, Reported
<1>3. findings' \in Seq(Found)'
  BY <1>1
<1>4. \A r \in todo' : r.id \notin invalid'
  BY <1>1 DEF LoopInv
<1>5. FindingsInOrder'
  BY <1>1 DEF FindingsInOrder
<1>6. QED
  BY <1>1, <1>2, <1>3, <1>4, <1>5 DEF LoopInv

(* A turn that finds nothing: the rule is rejected, skipped or passed.     *)
LEMMA QuietTurnKeeps ==
  ASSUME LoopInv, NEW r \in todo, Turn(r), UNCHANGED <<findings, status>>,
         ~Fires(r),
         \/ Rejected(r) /\ invalid' = invalid \cup {r.id} /\ skipped' = skipped
         \/ ~Rejected(r) /\ invalid' = invalid /\ skipped' = skipped \cup {r.id}
         \/ ~Rejected(r) /\ UNCHANGED <<invalid, skipped>>
  PROVE  LoopInv'
<1>1. /\ todo' = todo \ {r} /\ UNCHANGED <<snapshot, rows>> /\ status = "running"
      /\ r \in rows /\ r \in Enabled /\ Enabled \subseteq rows
  BY DEF Turn, LoopInv, Enabled
<1>2. /\ Enabled' = Enabled /\ Found' = Found /\ Reported' = Reported
      /\ \A q : (Fires(q)' <=> Fires(q)) /\ (Rejected(q)' <=> Rejected(q))
  BY <1>1, RulesStay DEF Found, Reported
<1>3. \A q \in Enabled \ {r} : q.id # r.id
  BY <1>1 DEF LoopInv
<1>4. AnsweredFor(r)'
  BY <1>1, <1>2 DEF AnsweredFor, LoopInv
<1>5. \A q \in Enabled \ todo' : AnsweredFor(q)'
  BY <1>1, <1>2, <1>3, <1>4 DEF AnsweredFor, LoopInv
<1>6. \A q \in todo' : q.id \notin (Reported \cup skipped \cup invalid)'
  BY <1>1, <1>2, <1>3 DEF LoopInv
<1>7. FindingsInOrder'
  BY DEF LoopInv, FindingsInOrder
<1>8. QED
  BY <1>1, <1>2, <1>5, <1>6, <1>7 DEF LoopInv, Precedes

(* A turn that finds something appends it behind what is there.            *)
LEMMA FindKeeps ==
  ASSUME LoopInv, NEW r \in todo, Find(r)
  PROVE  LoopInv'
<1> DEFINE f == FindingOf(snapshot, r)
<1>1. /\ todo' = todo \ {r} /\ UNCHANGED <<snapshot, rows, skipped, invalid, status>>
      /\ status = "running" /\ Fires(r) /\ findings' = Append(findings, f)
      /\ \A q \in todo \ {r} : CompareRules(r, q)
      /\ r \in Enabled /\ Enabled \subseteq rows
  BY DEF Find, Turn, LoopInv, Enabled
<1>2. /\ Enabled' = Enabled /\ Found' = Found
      /\ \A q : (Fires(q)' <=> Fires(q)) /\ (Rejected(q)' <=> Rejected(q))
  BY <1>1, RulesStay DEF Found
<1>3. /\ f \in Found /\ f.rule = r.id /\ f.type = r.type /\ f.severity = r.severity
      /\ r.type \in Supported
  BY <1>1 DEF Found, FindingOf, Fires, Usable
<1> HIDE DEF f
<1>4. /\ findings' \in Seq(Found)
      /\ Len(findings) \in Nat
      /\ DOMAIN findings = 1..Len(findings)
      /\ DOMAIN findings' = 1..(Len(findings) + 1)
      /\ \A i \in DOMAIN findings : findings'[i] = findings[i]
      /\ findings'[Len(findings) + 1] = f
  BY <1>1, <1>3 DEF LoopInv
<1>5. Reported' = Reported \cup {r.id}
  <2>1. \A i \in DOMAIN findings' : i \in DOMAIN findings \/ i = Len(findings) + 1
    BY <1>4
  <2>2. DOMAIN findings \subseteq DOMAIN findings' /\ Len(findings) + 1 \in DOMAIN findings'
    BY <1>4
  <2>3. QED
    BY <1>3, <1>4, <2>1, <2>2 DEF Reported
<1>6. \A q \in Enabled \ {r} : q.id # r.id
  BY <1>1 DEF LoopInv
<1>7. AnsweredFor(r)'
  BY <1>1, <1>2, <1>5, OutcomesApart DEF AnsweredFor, LoopInv
<1>8. \A q \in Enabled \ todo' : AnsweredFor(q)'
  BY <1>1, <1>2, <1>5, <1>6, <1>7 DEF AnsweredFor, LoopInv
<1>9. \A q \in todo' : q.id \notin (Reported \cup skipped \cup invalid)'
  BY <1>1, <1>2, <1>5, <1>6 DEF LoopInv
<1>10. \A i \in DOMAIN findings', q \in todo' : Precedes(findings'[i], q)
  <2>1. \A q \in todo' : Precedes(f, q)
    BY <1>1, <1>3 DEF Precedes, CompareRules
  <2>2. \A i \in DOMAIN findings, q \in todo' : Precedes(findings[i], q)
    BY <1>1 DEF LoopInv
  <2>3. QED
    BY <1>4, <2>1, <2>2
<1>11. FindingsInOrder'
  <2> SUFFICES ASSUME NEW i \in DOMAIN findings', NEW j \in DOMAIN findings', i < j
               PROVE  LET a == findings'[i]
                          b == findings'[j]
                      IN \/ TypeRank(a.type) < TypeRank(b.type)
                         \/ a.type = b.type /\ a.severity > b.severity
                         \/ a.type = b.type /\ a.severity = b.severity /\ a.rule < b.rule
    BY DEF FindingsInOrder
  <2>1. CASE j \in DOMAIN findings
    BY <1>4, <2>1 DEF LoopInv, FindingsInOrder
  <2>2. CASE j = Len(findings) + 1
    <3>1. i \in DOMAIN findings /\ findings'[i] = findings[i] /\ findings'[j] = f
      BY <1>4, <2>2
    <3>2. Precedes(findings[i], r) /\ findings[i] \in Found
      BY <3>1 DEF LoopInv
    <3>3. findings[i].type \in Supported
      BY <3>2, FoundOf
    <3>4. TypeRank(findings[i].type) = TypeRank(r.type) => findings[i].type = r.type
      BY <1>3, <3>3 DEF Supported, TypeRank
    <3>5. QED
      BY <1>3, <3>1, <3>2, <3>4 DEF Precedes
  <2>3. QED
    BY <1>4, <2>1, <2>2
<1>12. QED
  BY <1>1, <1>2, <1>4, <1>8, <1>9, <1>10, <1>11 DEF LoopInv

(* A TypeError leaves the loop: nothing is claimed of what it has not seen. *)
LEMMA ThrowKeeps ==
  ASSUME LoopInv, NEW r \in todo, Throw(r)
  PROVE  LoopInv'
<1>1. /\ todo' = todo \ {r} /\ status' = "thrown"
      /\ UNCHANGED <<snapshot, rows, findings, skipped, invalid>>
  BY DEF Throw, Turn
<1>2. Enabled' = Enabled /\ Found' = Found /\ Reported' = Reported
  BY <1>1, RulesStay DEF Found, Reported
<1>3. FindingsInOrder'
  BY <1>1 DEF LoopInv, FindingsInOrder
<1>4. QED
  BY <1>1, <1>2, <1>3 DEF LoopInv, Precedes

(* Nothing of the loop's own changes but the verdict of the gates.         *)
LEMMA OtherStepsKeep ==
  ASSUME LoopInv,
         UNCHANGED <<snapshot, rows, todo, findings, skipped, invalid>>,
         \/ UNCHANGED status
         \/ status = "running" /\ todo = {} /\ status' \in {"done", "refused"}
  PROVE  LoopInv'
<1>1. /\ Enabled' = Enabled /\ Found' = Found /\ Reported' = Reported
      /\ \A q : (Fires(q)' <=> Fires(q)) /\ (Rejected(q)' <=> Rejected(q))
  BY RulesStay DEF Found, Reported
<1>2. FindingsInOrder'
  BY DEF LoopInv, FindingsInOrder
<1>3. \A q \in Enabled \ todo :
        status' \in {"running", "done", "refused"} => AnsweredFor(q)'
  BY <1>1 DEF LoopInv, AnsweredFor
<1>4. QED
  BY <1>1, <1>2, <1>3 DEF LoopInv, Precedes

LEMMA StepKeepsLoop == LoopInv /\ [Next]_vars => LoopInv'
<1> SUFFICES ASSUME LoopInv, [Next]_vars PROVE LoopInv'
  OBVIOUS
<1>1. CASE Load
  BY <1>1, LoadKeeps
<1>2. ASSUME NEW r \in todo, Reject(r) PROVE LoopInv'
  BY <1>2, QuietTurnKeeps, OutcomesApart DEF Reject
<1>3. ASSUME NEW r \in todo, Skip(r) PROVE LoopInv'
  BY <1>3, QuietTurnKeeps, OutcomesApart DEF Skip
<1>4. ASSUME NEW r \in todo, Pass(r) PROVE LoopInv'
  BY <1>4, QuietTurnKeeps, OutcomesApart DEF Pass
<1>5. ASSUME NEW r \in todo, Find(r) PROVE LoopInv'
  BY <1>5, FindKeeps
<1>6. ASSUME NEW r \in todo, Throw(r) PROVE LoopInv'
  BY <1>6, ThrowKeeps
<1>7. CASE Conclude
  BY <1>7, OtherStepsKeep DEF Conclude
<1>8. ASSUME NEW i \in DOMAIN entry.documents, Receive(i) PROVE LoopInv'
  BY <1>8, OtherStepsKeep DEF Receive
<1>9. CASE UNCHANGED vars
  BY <1>9, OtherStepsKeep DEF vars
<1>10. QED
  BY <1>1, <1>2, <1>3, <1>4, <1>5, <1>6, <1>7, <1>8, <1>9 DEF Next

LEMMA LoopHolds == Spec => []LoopInv
<1>1. QED
  BY InitLoop, StepKeepsLoop, PTL DEF Spec

(* Findings come in the binding order (compareRules of engine.ts).         *)
THEOREM InBindingOrder == Spec => []FindingsInOrder
<1>1. LoopInv => FindingsInOrder
  BY DEF LoopInv
<1>2. QED
  BY <1>1, LoopHolds, PTL

(* Once evaluateEntry is done, every enabled rule has been answered for    *)
(* itself: reported exactly if it fires, invalid exactly if it is rejected.*)
THEOREM EachAnswered == Spec => []NoneSuppressed
<1>1. LoopInv => NoneSuppressed
  BY DEF LoopInv, NoneSuppressed, AnsweredFor
<1>2. QED
  BY <1>1, LoopHolds, PTL

-----------------------------------------------------------------------------
(* What is noted of the evaluation stays within the rules.                 *)
NotedInv ==
  /\ status \in {"idle", "running", "done", "thrown", "refused"}
  /\ evaluations \in 0..MaxEvaluations
  /\ skipped \subseteq Ids /\ invalid \subseteq Ids

LEMMA StepKeepsNoted == LoopInv /\ NotedInv /\ [Next]_vars => NotedInv'
<1> SUFFICES ASSUME LoopInv, NotedInv, [Next]_vars PROVE NotedInv'
  OBVIOUS
<1> USE EvaluationsBounded DEF NotedInv, Ids
<1>1. CASE Load
  BY <1>1 DEF Load
<1>2. ASSUME NEW r \in todo, Reject(r) \/ Skip(r) \/ Pass(r) \/ Find(r) \/ Throw(r)
      PROVE  NotedInv'
  <2>1. /\ UNCHANGED <<rows, evaluations>> /\ r \in rows
        /\ status' \in {status, "thrown"}
        /\ skipped' \in {skipped, skipped \cup {r.id}}
        /\ invalid' \in {invalid, invalid \cup {r.id}}
    BY <1>2 DEF Reject, Skip, Pass, Find, Throw, Turn, LoopInv, Enabled
  <2>2. QED
    BY <2>1
<1>3. CASE Conclude
  BY <1>3 DEF Conclude
<1>4. ASSUME NEW i \in DOMAIN entry.documents, Receive(i) PROVE NotedInv'
  BY <1>4 DEF Receive
<1>5. CASE UNCHANGED vars
  BY <1>5 DEF vars
<1>6. QED
  BY <1>1, <1>2, <1>3, <1>4, <1>5 DEF Next

(* The state of an evaluation is what evaluateEntry and detectExceptions   *)
(* keep: findings of rules that fire, ids of rules that are there.         *)
THEOREM EvaluationTyped == Spec => []TypeOK
<1>1. Init => LoopInv /\ NotedInv
  BY InitLoop, EvaluationsBounded DEF Init, NotedInv
<1>2. (LoopInv /\ NotedInv) /\ [Next]_vars => (LoopInv /\ NotedInv)'
  BY StepKeepsLoop, StepKeepsNoted
<1>3. LoopInv /\ NotedInv => TypeOK
  BY DEF LoopInv, NotedInv, TypeOK, Found, Enabled
<1>4. QED
  BY <1>1, <1>2, <1>3, PTL DEF Spec

-----------------------------------------------------------------------------
(* Three lemmas: a rule of each type that fires passes its gate.           *)
LEMMA DocumentGate ==
  ASSUME NEW e, NEW r, r.type = "MISSING_REQUIRED_DOCUMENT", Evaluate(e, r) # Passes
  PROVE  /\ Missing(e, r.params) # {}
         /\ Admitted(FindingOf(e, r))
<1>1. Missing(e, r.params) # {}
  <2>1. Missing(e, r.params) = {} => EvaluateMissingDocument(e, r.params) = Passes
    BY DEF EvaluateMissingDocument
  <2>2. Evaluate(e, r) = EvaluateMissingDocument(e, r.params)
    BY DEF Evaluate
  <2>3. QED
    BY <2>1, <2>2
<1>2. PICK t \in Missing(e, r.params) : TRUE
  BY <1>1
<1>3. Lacking([field |-> "documents", type |-> t], {"normalized", "expected"})
        \in DocumentEvidence(e, r)
  BY <1>2 DEF DocumentEvidence
<1>4. FindingOf(e, r).evidence = DocumentEvidence(e, r) /\ FindingOf(e, r).type = r.type
  BY DEF FindingOf, Evidence
<1>5. QED
  BY <1>1, <1>3, <1>4 DEF Admitted, Lacking

LEMMA HtsGate ==
  ASSUME NEW e, NEW r, r.type = "INVALID_HTS_CODE"
  PROVE  Admitted(FindingOf(e, r))
<1>1. FindingOf(e, r).evidence = HtsEvidence(Evaluate(e, r)) /\ FindingOf(e, r).type = r.type
  BY DEF FindingOf, Evidence
<1>2. ASSUME NEW reason
      PROVE  \E o \in HtsEvidence(reason) :
               o.kind = "OBSERVED" /\ {"expected", "observed"} \subseteq o.filled
  <2>1. \/ Observed(Field("hts_code"), {"expected", "observed"}) \in HtsEvidence(reason)
        \/ Observed(Field("hts_code"), {"normalized", "expected", "observed"})
             \in HtsEvidence(reason)
    BY DEF HtsEvidence
  <2>2. QED
    BY <2>1 DEF Observed
<1>3. QED
  BY <1>1, <1>2 DEF Admitted

LEMMA OriginGate ==
  ASSUME NEW e, NEW r, r.type = "CONFLICTING_COUNTRY_OF_ORIGIN"
  PROVE  Admitted(FindingOf(e, r))
<1> DEFINE reason == Evaluate(e, r)
<1>1. /\ FindingOf(e, r).evidence = OriginEvidence(e, r.params, reason)
      /\ FindingOf(e, r).type = r.type /\ FindingOf(e, r).reason = reason
  BY DEF FindingOf, Evidence
<1> HIDE DEF reason
<1>2. OriginEvidence(e, r.params, reason) # {}
  BY DEF OriginEvidence
<1>3. ASSUME reason = "ORIGIN_MISMATCH"
      PROVE  \E o, c \in OriginEvidence(e, r.params, reason) :
               /\ o.kind = "OBSERVED" /\ {"normalized"} \subseteq o.filled
               /\ c.kind = "COMPARISON" /\ {"comparison"} \subseteq c.filled
  <2>1. PICK path :
          OriginEvidence(e, r.params, reason) =
            {Observed(r.params.declared_field, {"normalized"}),
             Compared(path, {"normalized", "comparison", "expected", "observed"})}
    BY <1>3 DEF OriginEvidence
  <2>2. QED
    BY <2>1 DEF Observed, Compared
<1>4. QED
  BY <1>1, <1>2, <1>3 DEF Admitted

LEMMA FiringAdmitted ==
  ASSUME NEW r, Fires(r)
  PROVE  Admitted(FindingOf(snapshot, r))
BY DocumentGate, HtsGate, OriginGate DEF Fires, Usable, Supported

LEMMA FoundAdmitted ==
  ASSUME LoopInv, NEW i \in DOMAIN findings
  PROVE  Admitted(findings[i])
<1>1. findings[i] \in Found
  BY DEF LoopInv
<1>2. QED
  BY <1>1, FiringAdmitted DEF Found

(* assertEvidenceGates never rolls an evaluation back: the evaluators only *)
(* report what carries the evidence the gates ask for.                     *)
THEOREM NoRefusal == Spec => []GatesNeverRefuse
<1>1. Init => GatesNeverRefuse
  BY DEF Init, GatesNeverRefuse
<1>2. LoopInv /\ GatesNeverRefuse /\ [Next]_vars => GatesNeverRefuse'
  <2> SUFFICES ASSUME LoopInv, GatesNeverRefuse, [Next]_vars PROVE GatesNeverRefuse'
    OBVIOUS
  <2>1. CASE Conclude
    BY <2>1, FoundAdmitted DEF Conclude, GatesNeverRefuse
  <2>2. CASE ~Conclude
    BY <2>2 DEF Next, vars, GatesNeverRefuse, Load, Reject, Skip, Pass, Find, Throw,
                Turn, Receive
  <2>3. QED
    BY <2>1, <2>2
<1>3. QED
  BY <1>1, <1>2, LoopHolds, PTL DEF Spec

-----------------------------------------------------------------------------
(* e grew into s: documents of e that had not been received have arrived.  *)
Shaped(e) ==
  /\ DOMAIN e = {"value", "words", "hts", "origin", "manufacturer", "documents"}
  /\ \A i \in DOMAIN e.documents :
       DOMAIN e.documents[i] = {"type", "status", "file", "superseded", "stated"}

Grew(e, s) ==
  /\ e.value = s.value /\ e.words = s.words /\ e.hts = s.hts /\ e.origin = s.origin
  /\ DOMAIN e.documents = DOMAIN s.documents
  /\ \A i \in DOMAIN e.documents :
       /\ s.documents[i].type = e.documents[i].type
       /\ s.documents[i].superseded = e.documents[i].superseded
       /\ \/ s.documents[i].status = "RECEIVED" /\ s.documents[i].file
          \/ s.documents[i].status = e.documents[i].status
               /\ s.documents[i].file = e.documents[i].file

LEMMA GrewOn ==
  ASSUME NEW a, NEW b, NEW c, Grew(a, b), Grew(b, c)
  PROVE  Grew(a, c)
BY DEF Grew

LEMMA GrewSelf == ASSUME NEW e PROVE Grew(e, e)
BY DEF Grew

(* The conditions read nothing that documents change.                      *)
LEMMA SameApplicability ==
  ASSUME NEW e, NEW s, Grew(e, s), NEW c
  PROVE  Applicability(e, c) = Applicability(s, c)
<1>1. /\ e.value = s.value /\ e.words = s.words /\ e.origin = s.origin
      /\ HtsOfConditions(e) = HtsOfConditions(s)
  BY DEF Grew, HtsOfConditions
<1>2. \A key, wanted : Met(e, key, wanted) = Met(s, key, wanted)
  BY <1>1 DEF Met
<1>3. Unmet(e, c) = Unmet(s, c)
  BY <1>2 DEF Unmet
<1>4. QED
  BY <1>3 DEF Applicability

(* With more documents received, no more types are missing.                *)
LEMMA FewerMissing ==
  ASSUME NEW e, NEW s, Grew(e, s), NEW p, "RECEIVED" \in p.accept_statuses
  PROVE  Missing(s, p) \subseteq Missing(e, p)
<1>1. ReceivedTypes(e, p) \subseteq ReceivedTypes(s, p)
  <2> SUFFICES ASSUME NEW i \in DOMAIN e.documents, Satisfies(e.documents[i], p)
               PROVE  Normal[e.documents[i].type] \in ReceivedTypes(s, p)
    BY DEF ReceivedTypes, Rows
  <2>1. s.documents[i] \in Rows(s) /\ s.documents[i].type = e.documents[i].type
    BY DEF Grew, Rows
  <2>2. Satisfies(s.documents[i], p)
    BY DEF Grew, Satisfies, Accepted
  <2>3. QED
    BY <2>1, <2>2 DEF ReceivedTypes
<1>2. QED
  BY <1>1 DEF Missing

(* A document rule with something missing gives a reason for it.           *)
LEMMA MissingFires ==
  ASSUME NEW e, NEW p, Missing(e, p) # {}
  PROVE  EvaluateMissingDocument(e, p) \notin {Passes, PathUnknown}
<1> DEFINE reasons == {IF p.match_mode = "ANY_ONE_OF" THEN "DOCUMENT_NOT_DECLARED"
                       ELSE SubReasonFor(e, t, p) : t \in Missing(e, p)}
<1>1. \A t : SubReasonFor(e, t, p)
               \in {"DOCUMENT_NOT_DECLARED", "DOCUMENT_FILE_MISSING", "DOCUMENT_NOT_RECEIVED"}
  BY DEF SubReasonFor
<1>2. reasons \subseteq
        {"DOCUMENT_NOT_DECLARED", "DOCUMENT_FILE_MISSING", "DOCUMENT_NOT_RECEIVED"}
  BY <1>1
<1>3. reasons # {}
  OBVIOUS
<1> HIDE DEF reasons
<1>4. \/ "DOCUMENT_FILE_MISSING" \in reasons
      \/ "DOCUMENT_NOT_RECEIVED" \in reasons /\ "DOCUMENT_FILE_MISSING" \notin reasons
      \/ reasons = {"DOCUMENT_NOT_DECLARED"}
  BY <1>2, <1>3
<1>5. EvaluateMissingDocument(e, p) =
        CASE Missing(e, p) = {}                    -> Passes
          [] "DOCUMENT_FILE_MISSING" \in reasons   -> "DOCUMENT_FILE_MISSING"
          [] "DOCUMENT_NOT_RECEIVED" \in reasons
             /\ "DOCUMENT_FILE_MISSING" \notin reasons -> "DOCUMENT_NOT_RECEIVED"
          [] reasons = {"DOCUMENT_NOT_DECLARED"}   -> "DOCUMENT_NOT_DECLARED"
  BY DEF EvaluateMissingDocument, reasons
<1>6. EvaluateMissingDocument(e, p)
        \in {"DOCUMENT_NOT_DECLARED", "DOCUMENT_FILE_MISSING", "DOCUMENT_NOT_RECEIVED"}
  BY <1>4, <1>5
<1>7. QED
  BY <1>6 DEF Passes, PathUnknown

FiresOn(e, r) ==
  /\ Usable(r) /\ Applicability(e, r.conditions) = "applicable"
  /\ Evaluate(e, r) \notin {Passes, PathUnknown}

(* What was evaluated before is of an entry that grew into this one.       *)
Before(e) ==
  /\ Grew(e, snapshot)
  /\ \A r \in Enabled : FiresOn(e, r) =>
       \E j \in DOMAIN previous : previous[j] = FindingOf(e, r)

GrowthInv ==
  /\ Shaped(entry) /\ Grew(snapshot, entry)
  /\ previous # None => \E e : Before(e)

LEMMA InitGrowth == Init => GrowthInv
BY EntriesShaped, GrewSelf DEF Init, GrowthInv, Shaped

(* A commit: the findings are those of the snapshot, which grew into entry. *)
LEMMA LoadKeepsGrowth ==
  ASSUME LoopInv, GrowthInv, Load
  PROVE  GrowthInv'
<1>1. snapshot' = entry /\ UNCHANGED <<entry, rows>> /\ Enabled' = Enabled
  BY DEF Load, Enabled
<1>2. Shaped(entry)' /\ Grew(snapshot, entry)'
  BY <1>1, GrewSelf DEF GrowthInv
<1>3. CASE status = "done"
  <2>1. previous' = findings
    BY <1>3 DEF Load
  <2>2. \A r \in Enabled : Fires(r) => r.id \in Reported
    BY <1>3 DEF LoopInv, AnsweredFor
  <2>3. ASSUME NEW r \in Enabled, FiresOn(snapshot, r)
        PROVE  \E j \in DOMAIN findings : findings[j] = FindingOf(snapshot, r)
    <3>1. Fires(r)
      BY <2>3 DEF FiresOn, Fires, Applicable
    <3>2. PICK j \in DOMAIN findings : findings[j].rule = r.id
      BY <2>2, <3>1 DEF Reported
    <3>3. findings[j] \in Found
      BY DEF LoopInv
    <3>4. PICK q \in Enabled : findings[j] = FindingOf(snapshot, q) /\ findings[j].rule = q.id
      BY <3>3, FoundOf
    <3>5. q = r
      BY <3>2, <3>4 DEF LoopInv, Enabled
    <3>6. QED
      BY <3>4, <3>5
  <2>4. \A r \in Enabled' : FiresOn(snapshot, r) =>
          \E j \in DOMAIN previous' : previous'[j] = FindingOf(snapshot, r)
    BY <1>1, <2>1, <2>3
  <2>5. \A r : FiresOn(snapshot, r) = /\ Usable(r)
                                      /\ Applicability(snapshot, r.conditions) = "applicable"
                                      /\ Evaluate(snapshot, r) \notin {Passes, PathUnknown}
    BY DEF FiresOn
  <2>6. PICK e : e = snapshot
    OBVIOUS
  <2>7. Before(e)'
    BY <1>1, <2>4, <2>6 DEF Before, GrowthInv, FiresOn, Usable
  <2>8. QED
    BY <1>2, <2>7 DEF GrowthInv
<1>4. CASE status # "done"
  <2>1. previous' = previous
    BY <1>4 DEF Load
  <2>2. ASSUME NEW e, Before(e) PROVE Before(e)'
    BY <1>1, <2>1, <2>2, GrewOn DEF Before, GrowthInv, FiresOn, Usable
  <2>3. QED
    BY <1>2, <2>1, <2>2 DEF GrowthInv
<1>5. QED
  BY <1>3, <1>4

LEMMA ReceiveKeepsGrowth ==
  ASSUME GrowthInv, NEW i \in DOMAIN entry.documents, Receive(i)
  PROVE  GrowthInv'
<1> DEFINE row == [entry.documents[i] EXCEPT !.status = "RECEIVED", !.file = TRUE]
<1>1. PICK docs : docs = [entry.documents EXCEPT ![i] = row]
  OBVIOUS
<1>2. entry' = [entry EXCEPT !.documents = docs]
  BY <1>1 DEF Receive
<1>3. /\ row.status = "RECEIVED" /\ row.file
      /\ row.type = entry.documents[i].type
      /\ row.superseded = entry.documents[i].superseded
      /\ DOMAIN row = DOMAIN entry.documents[i]
  BY DEF GrowthInv, Shaped
<1> HIDE DEF row
<1>4. /\ DOMAIN docs = DOMAIN entry.documents /\ docs[i] = row
      /\ \A j \in DOMAIN docs \ {i} : docs[j] = entry.documents[j]
  BY <1>1
<1>5. /\ DOMAIN entry' = DOMAIN entry /\ entry'.documents = docs
      /\ entry'.value = entry.value /\ entry'.words = entry.words
      /\ entry'.hts = entry.hts /\ entry'.origin = entry.origin
  BY <1>2 DEF GrowthInv, Shaped
<1>6. \A j \in DOMAIN docs : DOMAIN docs[j] = DOMAIN entry.documents[j]
  BY <1>3, <1>4
<1>7. Shaped(entry')
  BY <1>4, <1>5, <1>6 DEF GrowthInv, Shaped
<1>8. Grew(entry, entry')
  BY <1>3, <1>4, <1>5 DEF Grew
<1>9. UNCHANGED <<snapshot, rows, previous>> /\ Enabled' = Enabled
  BY DEF Receive, Enabled
<1>10. Grew(snapshot, entry')
  BY <1>8, GrewOn DEF GrowthInv
<1>11. ASSUME NEW e, Before(e) PROVE Before(e)'
  BY <1>9, <1>11 DEF Before, FiresOn, Usable
<1>12. QED
  BY <1>7, <1>9, <1>10, <1>11 DEF GrowthInv

LEMMA StepKeepsGrowth == LoopInv /\ GrowthInv /\ [Next]_vars => GrowthInv'
<1> SUFFICES ASSUME LoopInv, GrowthInv, [Next]_vars PROVE GrowthInv'
  OBVIOUS
<1>1. CASE Load
  BY <1>1, LoadKeepsGrowth
<1>2. ASSUME NEW i \in DOMAIN entry.documents, Receive(i) PROVE GrowthInv'
  BY <1>2, ReceiveKeepsGrowth
<1>3. CASE UNCHANGED <<entry, snapshot, rows, previous>>
  <2>1. Enabled' = Enabled
    BY <1>3 DEF Enabled
  <2>2. ASSUME NEW e, Before(e) PROVE Before(e)'
    BY <1>3, <2>1, <2>2 DEF Before, FiresOn, Usable
  <2>3. QED
    BY <1>3, <2>2 DEF GrowthInv
<1>4. ASSUME NEW r \in todo, Reject(r) \/ Skip(r) \/ Pass(r) \/ Find(r) \/ Throw(r)
      PROVE  UNCHANGED <<entry, snapshot, rows, previous>>
  BY <1>4 DEF Reject, Skip, Pass, Find, Throw, Turn
<1>5. QED
  BY <1>1, <1>2, <1>3, <1>4 DEF Next, Conclude, vars

(* A document that arrives never brings a document finding about, nor a    *)
(* missing type into one: it was there at the evaluation before.           *)
THEOREM ArrivalsHelp == Spec => []DocumentsOnlyHelp
<1>1. LoopInv /\ GrowthInv => DocumentsOnlyHelp
  <2> SUFFICES ASSUME LoopInv, GrowthInv, status = "done", previous # None,
                      NEW i \in DOMAIN findings,
                      findings[i].type = "MISSING_REQUIRED_DOCUMENT",
                      "RECEIVED" \in RuleOf(findings[i]).params.accept_statuses
               PROVE  \E j \in DOMAIN previous :
                        /\ previous[j].rule = findings[i].rule
                        /\ findings[i].missing \subseteq previous[j].missing
    BY DEF DocumentsOnlyHelp
  <2>1. findings[i] \in Found
    BY DEF LoopInv
  <2>2. PICK r \in Enabled : /\ Fires(r) /\ findings[i] = FindingOf(snapshot, r)
                              /\ findings[i].rule = r.id /\ findings[i].type = r.type
    BY <2>1, FoundOf
  <2>3. RuleOf(findings[i]) = r
    <3>1. r \in rows /\ \A q \in rows : q.id = r.id => q = r
      BY DEF LoopInv, Enabled
    <3>2. QED
      BY <2>2, <3>1 DEF RuleOf
  <2>4. PICK e : Before(e)
    BY DEF GrowthInv
  <2>5. /\ findings[i].missing = Missing(snapshot, r.params)
        /\ FindingOf(e, r).missing = Missing(e, r.params) /\ FindingOf(e, r).rule = r.id
    BY <2>2 DEF FindingOf
  <2>6. Missing(snapshot, r.params) # {}
    BY <2>2, DocumentGate DEF Fires
  <2>7. Missing(snapshot, r.params) \subseteq Missing(e, r.params)
    BY <2>3, <2>4, FewerMissing DEF Before
  <2>8. Evaluate(e, r) \notin {Passes, PathUnknown}
    <3>1. Evaluate(e, r) = EvaluateMissingDocument(e, r.params)
      BY <2>2 DEF Evaluate
    <3>2. QED
      BY <2>6, <2>7, <3>1, MissingFires
  <2>9. FiresOn(e, r)
    BY <2>2, <2>4, <2>8, SameApplicability DEF Before, FiresOn, Fires, Applicable
  <2>10. PICK j \in DOMAIN previous : previous[j] = FindingOf(e, r)
    BY <2>4, <2>9 DEF Before
  <2>11. QED
    BY <2>2, <2>5, <2>7, <2>10
<1>2. LoopInv /\ GrowthInv /\ [Next]_vars => GrowthInv'
  BY StepKeepsGrowth
<1>3. QED
  BY <1>1, <1>2, InitGrowth, LoopHolds, PTL DEF Spec

-----------------------------------------------------------------------------
(* The first of some positions.                                            *)
LEMMA MinInside ==
  ASSUME NEW T, T \subseteq Nat, T # {}
  PROVE  Min(T) \in T
<1>1. PICK x \in T : \A y \in T : ~(<<y, x>> \in OpToRel(<, Nat))
  BY NatLessThanWellFounded, WFMin, Zenon
<1>2. \A y \in T : x =< y
  <2> SUFFICES ASSUME NEW y \in T, ~(x =< y) PROVE FALSE
    OBVIOUS
  <2>1. y < x /\ x \in Nat /\ y \in Nat
    OBVIOUS
  <2>2. <<y, x>> \in OpToRel(<, Nat)
    BY <2>1 DEF OpToRel
  <2>3. QED
    BY <1>1, <2>2
<1>3. QED
  BY <1>2 DEF Min

(* One comparison: a known field decides exactly if it disagrees.          *)
LEMMA DisagreementDecides ==
  ASSUME NEW path, Known(path), NEW p,
         DeclaredIso(snapshot, p) # None,
         \A pair \in p.allowed_pairs : None \notin {pair[1], pair[2]}
  PROVE  LET answer == CompareField(snapshot, DeclaredIso(snapshot, p), path, p)
         IN answer # PathUnknown /\ (answer # Passes <=> Disagrees(path, p))
<1> DEFINE text     == Resolve(snapshot, path)
           iso      == NormalizeCountry(text)
           declared == DeclaredIso(snapshot, p)
<1>1. Disagrees(path, p) <=>
        IF text \in {None, Blank} THEN p.treat_missing_comparison_as_conflict
        ELSE iso # declared /\ <<declared, iso>> \notin p.allowed_pairs
  BY DEF Disagrees, DeclaredIso
<1>2. CompareField(snapshot, declared, path, p) =
        IF text \in {None, Blank}
        THEN IF p.treat_missing_comparison_as_conflict
             THEN "MISSING_COMPARISON_ORIGIN" ELSE Passes
        ELSE IF iso = None THEN "UNRESOLVABLE_COMPARISON_ORIGIN"
        ELSE IF iso = declared \/ <<declared, iso>> \in p.allowed_pairs THEN Passes
        ELSE "ORIGIN_MISMATCH"
  BY DEF CompareField
<1> HIDE DEF text, iso, declared
<1>3. iso = None => iso # declared /\ <<declared, iso>> \notin p.allowed_pairs
  <2>1. declared # None
    BY DEF declared
  <2>2. ASSUME <<declared, None>> \in p.allowed_pairs PROVE FALSE
    <3>1. PICK pair : pair = <<declared, None>>
      OBVIOUS
    <3>2. pair[2] = None /\ pair \in p.allowed_pairs
      BY <2>2, <3>1
    <3>3. QED
      BY <3>2
  <2>3. QED
    BY <2>1, <2>2
<1>4. CompareField(snapshot, declared, path, p) # PathUnknown
  BY <1>2 DEF Passes, PathUnknown
<1>5. CompareField(snapshot, declared, path, p) # Passes <=> Disagrees(path, p)
  BY <1>1, <1>2, <1>3 DEF Passes
<1>6. QED
  BY <1>4, <1>5 DEF declared

(* The loop over the comparison fields answers for all of them.            *)
LEMMA OriginExact ==
  ASSUME NEW p,
         DOMAIN p.comparison_fields \subseteq Nat,
         \A pair \in p.allowed_pairs : None \notin {pair[1], pair[2]},
         Known(p.declared_field),
         \A i \in DOMAIN p.comparison_fields : Known(p.comparison_fields[i])
  PROVE  EvaluateCountryOfOrigin(snapshot, p) \notin {Passes, PathUnknown} <=>
           IF DeclaredIso(snapshot, p) = None THEN p.treat_missing_declared_as_conflict
           ELSE \E i \in DOMAIN p.comparison_fields : Disagrees(p.comparison_fields[i], p)
<1> DEFINE declared == DeclaredIso(snapshot, p)
           decisive == Decisive(snapshot, declared, p)
           Answer(i) == CompareField(snapshot, declared, p.comparison_fields[i], p)
<1>1. EvaluateCountryOfOrigin(snapshot, p) =
        IF declared = None
        THEN IF p.treat_missing_declared_as_conflict
             THEN "UNRESOLVABLE_DECLARED_ORIGIN" ELSE Passes
        ELSE IF decisive = {} THEN Passes ELSE Answer(Min(decisive))
  BY DEF EvaluateCountryOfOrigin
<1>2. CASE declared = None
  BY <1>1, <1>2 DEF Passes, PathUnknown
<1>3. CASE declared # None
  <2>1. \A i \in DOMAIN p.comparison_fields :
          Answer(i) # PathUnknown
            /\ (Answer(i) # Passes <=> Disagrees(p.comparison_fields[i], p))
    BY <1>3, DisagreementDecides
  <2>2. decisive = {i \in DOMAIN p.comparison_fields : Answer(i) # Passes}
    BY DEF Decisive
  <2> HIDE DEF Answer, decisive
  <2>3. decisive # {} => Min(decisive) \in decisive
    BY <2>2, MinInside
  <2>4. decisive # {} <=>
          \E i \in DOMAIN p.comparison_fields : Disagrees(p.comparison_fields[i], p)
    BY <2>1, <2>2
  <2>5. decisive # {} => Answer(Min(decisive)) \notin {Passes, PathUnknown}
    BY <2>1, <2>2, <2>3
  <2>6. QED
    BY <1>1, <1>3, <2>4, <2>5
<1>4. QED
  BY <1>2, <1>3

(* The parameters of the rules stay as the schema wants them.              *)
ParamsInv ==
  \A r \in rows : r.schema =>
    /\ r.type = "INVALID_HTS_CODE" =>
         r.params.expected_digit_count \in Int /\ r.params.min_digit_count \in Int
    /\ r.type = "CONFLICTING_COUNTRY_OF_ORIGIN" =>
         /\ DOMAIN r.params.comparison_fields \subseteq Nat
         /\ \A pair \in r.params.allowed_pairs : None \notin {pair[1], pair[2]}

LEMMA ParamsHold == Spec => []ParamsInv
<1>1. Init => ParamsInv
  <2> SUFFICES ASSUME Init PROVE ParamsInv
    OBVIOUS
  <2>1. PICK i \in Instances : rows = i[2]
    BY DEF Init
  <2>2. \A n \in 6..12 : n \in Int
    OBVIOUS
  <2>3. \A n \in 4..12 : n \in Int
    OBVIOUS
  <2>4. QED
    BY <2>1, <2>2, <2>3, ParamsShaped DEF ParamsInv
<1>2. ParamsInv /\ [Next]_vars => ParamsInv'
  BY DEF ParamsInv, Next, vars, Load, Reject, Skip, Pass, Find, Throw, Turn, Conclude, Receive
<1>3. QED
  BY <1>1, <1>2, PTL DEF Spec

(* An origin rule reports the entry exactly if some field disagrees with   *)
(* the declared origin, in whatever order the fields are compared.         *)
THEOREM OriginsExact == Spec => []OriginFindingsExact
<1>1. LoopInv /\ ParamsInv => OriginFindingsExact
  <2> SUFFICES ASSUME LoopInv, ParamsInv, status = "done", NEW r \in Enabled,
                      r.type = "CONFLICTING_COUNTRY_OF_ORIGIN", Usable(r),
                      Applicable(r) = "applicable",
                      \A path \in {r.params.comparison_fields[i] :
                                     i \in DOMAIN r.params.comparison_fields}
                                  \cup {r.params.declared_field} : Known(path)
               PROVE  r.id \in Reported <=>
                        IF NormalizeCountry(Resolve(snapshot, r.params.declared_field)) = None
                        THEN r.params.treat_missing_declared_as_conflict
                        ELSE \E path \in {r.params.comparison_fields[i] :
                                            i \in DOMAIN r.params.comparison_fields} :
                               Disagrees(path, r.params)
    BY DEF OriginFindingsExact
  <2>1. r.id \in Reported <=> Fires(r)
    BY DEF LoopInv, AnsweredFor
  <2>2. Fires(r) <=> EvaluateCountryOfOrigin(snapshot, r.params) \notin {Passes, PathUnknown}
    BY DEF Fires, Evaluate
  <2>3. r \in rows /\ r.schema
    BY DEF Enabled, Usable, ParamsValid
  <2>4. EvaluateCountryOfOrigin(snapshot, r.params) \notin {Passes, PathUnknown} <=>
          IF DeclaredIso(snapshot, r.params) = None
          THEN r.params.treat_missing_declared_as_conflict
          ELSE \E i \in DOMAIN r.params.comparison_fields :
                 Disagrees(r.params.comparison_fields[i], r.params)
    BY <2>3, OriginExact DEF ParamsInv
  <2>5. QED
    BY <2>1, <2>2, <2>4 DEF DeclaredIso
<1>2. QED
  BY <1>1, ParamsHold, LoopHolds, PTL

-----------------------------------------------------------------------------
(* Induction, for a set in place of a predicate: one that holds 0, and     *)
(* with a number the next, holds all of them.                              *)
LEMMA AllNumbers ==
  ASSUME NEW T, 0 \in T, \A n \in Nat : n \in T => n + 1 \in T
  PROVE  \A n \in Nat : n \in T
<1> DEFINE Bad == {n \in Nat : n \notin T}
<1> SUFFICES ASSUME Bad # {} PROVE FALSE
  OBVIOUS
<1> HIDE DEF Bad
<1>1. PICK x \in Bad : \A y \in Bad : ~(<<y, x>> \in OpToRel(<, Nat))
  <2>1. Bad \subseteq Nat
    BY DEF Bad
  <2>2. QED
    BY <2>1, NatLessThanWellFounded, WFMin, Zenon
<1>2. x \in Nat /\ x # 0
  BY DEF Bad
<1>3. x - 1 \in Nat /\ x - 1 \notin T
  <2>1. x - 1 \in Nat /\ (x - 1) + 1 = x /\ x - 1 < x
    BY <1>2
  <2>2. x \notin T
    BY DEF Bad
  <2>3. QED
    BY <2>1, <2>2
<1>4. <<x - 1, x>> \in OpToRel(<, Nat)
  BY <1>2, <1>3 DEF OpToRel
<1>5. QED
  BY <1>1, <1>3, <1>4 DEF Bad

(* What the loop of normalizeHts has after each character.                 *)
LoopOf(out, s, dropped) ==
  out = [i \in 0..Len(s) |->
           IF i = 0 THEN << >>
           ELSE IF s[i] \in dropped THEN out[i - 1] ELSE Append(out[i - 1], s[i])]

(* The equation of the loop has a solution: Without means what it says.    *)
LEMMA LoopRuns ==
  ASSUME NEW S, NEW s \in Seq(S), NEW dropped
  PROVE  \E out : LoopOf(out, s, dropped)
<1> DEFINE Next1(i, before) ==
             IF s[i] \in dropped THEN before ELSE Append(before, s[i])
           Upto(n) == {f \in [0..n -> Seq(S)] :
                         f[0] = << >> /\ \A i \in 1..n : f[i] = Next1(i, f[i - 1])}
           Done == {n \in Nat : n <= Len(s) => Upto(n) # {}}
<1>1. Len(s) \in Nat /\ \A i \in 1..Len(s) : s[i] \in S
  OBVIOUS
<1>2. 0 \in Done
  <2>1. [i \in 0..0 |-> << >>] \in Upto(0)
    OBVIOUS
  <2>2. QED
    BY <2>1
<1>3. ASSUME NEW n \in Nat, n \in Done PROVE n + 1 \in Done
  <2> HIDE DEF Upto
  <2> SUFFICES ASSUME n + 1 <= Len(s) PROVE Upto(n + 1) # {}
    OBVIOUS
  <2>0. Upto(n) # {}
    <3>1. n <= Len(s)
      BY <1>1
    <3>2. QED
      BY <1>3, <3>1
  <2>1. PICK f \in [0..n -> Seq(S)] :
          f[0] = << >> /\ \A i \in 1..n : f[i] = Next1(i, f[i - 1])
    <3> HIDE DEF Next1
    <3>1. QED
      BY <2>0 DEF Upto
  <2>2. f[n] \in Seq(S) /\ s[n + 1] \in S
    BY <1>1, <2>1
  <2>3. Next1(n + 1, f[n]) \in Seq(S)
    BY <2>2
  <2> DEFINE g == [i \in 0..(n + 1) |-> IF i <= n THEN f[i] ELSE Next1(n + 1, f[n])]
  <2> HIDE DEF Next1
  <2>4. g \in [0..(n + 1) -> Seq(S)] /\ g[0] = << >>
    BY <2>1, <2>3
  <2>5. \A i \in 1..(n + 1) : g[i] = Next1(i, g[i - 1])
    <3> SUFFICES ASSUME NEW i \in 1..(n + 1) PROVE g[i] = Next1(i, g[i - 1])
      OBVIOUS
    <3>1. CASE i <= n
      <4>1. g[i] = f[i] /\ g[i - 1] = f[i - 1] /\ i \in 1..n
        BY <3>1
      <4>2. QED
        BY <2>1, <4>1
    <3>2. CASE i = n + 1
      <4>1. i - 1 = n /\ g[i] = Next1(n + 1, f[n]) /\ g[i - 1] = f[n]
        BY <3>2
      <4>2. QED
        BY <3>2, <4>1
    <3>3. QED
      BY <3>1, <3>2
  <2>6. g \in Upto(n + 1)
    <3> HIDE DEF g
    <3>1. QED
      BY <2>4, <2>5 DEF Upto
  <2>7. QED
    BY <2>6
<1> HIDE DEF Done
<1>4. Len(s) \in Done
  BY <1>1, <1>2, <1>3, AllNumbers
<1>5. PICK f \in [0..Len(s) -> Seq(S)] :
        f[0] = << >> /\ \A i \in 1..Len(s) : f[i] = Next1(i, f[i - 1])
  BY <1>1, <1>4 DEF Done
<1>6. LoopOf(f, s, dropped)
  <2> DEFINE g == [i \in 0..Len(s) |->
                     IF i = 0 THEN << >>
                     ELSE IF s[i] \in dropped THEN f[i - 1] ELSE Append(f[i - 1], s[i])]
  <2>1. ASSUME NEW i \in 0..Len(s) PROVE f[i] = g[i]
    <3>1. CASE i = 0
      BY <1>5, <3>1
    <3>2. CASE i # 0
      <4>1. i \in 1..Len(s)
        BY <1>1, <3>2
      <4>2. f[i] = Next1(i, f[i - 1])
        BY <1>5, <4>1
      <4>3. QED
        BY <3>2, <4>2
    <3>3. QED
      BY <3>1, <3>2
  <2>2. f = [i \in 0..Len(s) |-> f[i]] /\ g = [i \in 0..Len(s) |-> g[i]]
    OBVIOUS
  <2> HIDE DEF g
  <2>3. f = g
    BY <2>1, <2>2, Zenon
  <2>4. QED
    BY <2>3 DEF LoopOf, g
<1>7. QED
  BY <1>6

LEMMA WithoutLoop ==
  ASSUME NEW S, NEW s \in Seq(S), NEW dropped
  PROVE  \E out : LoopOf(out, s, dropped) /\ Without(s, dropped) = out[Len(s)]
<1>1. PICK out : out = CHOOSE f : LoopOf(f, s, dropped)
  OBVIOUS
<1>2. LoopOf(out, s, dropped)
  BY <1>1, LoopRuns
<1>3. Without(s, dropped) = out[Len(s)]
  BY <1>1 DEF Without, LoopOf
<1>4. QED
  BY <1>2, <1>3

(* Which characters are left, and how many.                                *)
LEMMA WithoutContents ==
  ASSUME NEW S, NEW s \in Seq(S), NEW dropped
  PROVE  LET w    == Without(s, dropped)
             kept == {i \in DOMAIN s : s[i] \notin dropped}
         IN /\ w \in Seq(S)
            /\ Len(w) = Cardinality(kept)
            /\ \A k \in DOMAIN w : \E i \in kept : w[k] = s[i]
            /\ \A i \in kept : \E k \in DOMAIN w : w[k] = s[i]
<1>1. PICK out : LoopOf(out, s, dropped) /\ Without(s, dropped) = out[Len(s)]
  BY WithoutLoop
<1> DEFINE Kept(n) == {i \in 1..n : s[i] \notin dropped}
           Right(n, w) ==
             /\ w \in Seq(S)
             /\ IsFiniteSet(Kept(n)) /\ Len(w) = Cardinality(Kept(n))
             /\ \A k \in DOMAIN w : \E i \in Kept(n) : w[k] = s[i]
             /\ \A i \in Kept(n) : \E k \in DOMAIN w : w[k] = s[i]
           Done == {n \in Nat : n <= Len(s) => Right(n, out[n])}
<1>2. Len(s) \in Nat /\ \A i \in 1..Len(s) : s[i] \in S
  OBVIOUS
<1>3. 0 \in Done
  <2>1. out[0] = << >> /\ Kept(0) = {}
    BY <1>1, <1>2 DEF LoopOf
  <2>2. IsFiniteSet({}) /\ Cardinality({}) = 0
    BY FS_EmptySet
  <2>3. out[0] \in Seq(S) /\ Len(out[0]) = 0 /\ DOMAIN out[0] = {}
    BY <2>1
  <2> HIDE DEF Kept
  <2>4. Right(0, out[0])
    BY <2>1, <2>2, <2>3
  <2> HIDE DEF Right
  <2>5. QED
    BY <2>4
<1>4. ASSUME NEW n \in Nat, n \in Done PROVE n + 1 \in Done
  <2> SUFFICES ASSUME n + 1 <= Len(s) PROVE Right(n + 1, out[n + 1])
    OBVIOUS
  <2>1. n <= Len(s) /\ n + 1 \in 1..Len(s) /\ n + 1 \in 0..Len(s) /\ n + 1 # 0 /\ (n + 1) - 1 = n
    BY <1>2
  <2>2. Right(n, out[n])
    BY <1>4, <2>1
  <2>3. out[n + 1] = IF s[n + 1] \in dropped THEN out[n] ELSE Append(out[n], s[n + 1])
    BY <1>1, <2>1 DEF LoopOf
  <2>4. CASE s[n + 1] \in dropped
    <3>1. Kept(n + 1) = Kept(n) /\ out[n + 1] = out[n]
      BY <2>3, <2>4
    <3> HIDE DEF Kept
    <3>2. QED
      BY <2>2, <3>1
  <2>5. CASE s[n + 1] \notin dropped
    <3>1. Kept(n + 1) = Kept(n) \cup {n + 1} /\ n + 1 \notin Kept(n)
      BY <2>5
    <3> HIDE DEF Kept
    <3> DEFINE v == out[n]  c == s[n + 1]  w == out[n + 1]
    <3>2. v \in Seq(S) /\ c \in S /\ w = Append(v, c)
      BY <1>2, <2>1, <2>2, <2>3, <2>5
    <3> HIDE DEF v, c, w
    <3>3. /\ w \in Seq(S) /\ Len(v) \in Nat /\ Len(w) = Len(v) + 1
          /\ DOMAIN v = 1..Len(v) /\ DOMAIN w = 1..(Len(v) + 1)
          /\ \A k \in DOMAIN v : w[k] = v[k]
          /\ w[Len(v) + 1] = c
      BY <3>2
    <3>4. /\ IsFiniteSet(Kept(n + 1)) /\ Len(w) = Cardinality(Kept(n + 1))
      BY <2>2, <3>1, <3>3, FS_AddElement DEF v
    <3>5. ASSUME NEW k \in DOMAIN w PROVE \E i \in Kept(n + 1) : w[k] = s[i]
      <4>1. CASE k \in DOMAIN v
        BY <2>2, <3>1, <3>3, <4>1 DEF v
      <4>2. CASE k = Len(v) + 1
        BY <3>1, <3>3, <4>2 DEF c
      <4>3. QED
        BY <3>3, <4>1, <4>2
    <3>6. ASSUME NEW i \in Kept(n + 1) PROVE \E k \in DOMAIN w : w[k] = s[i]
      <4>1. CASE i \in Kept(n)
        <5>1. PICK k \in DOMAIN v : v[k] = s[i]
          BY <2>2, <4>1 DEF v
        <5>2. k \in DOMAIN w
          BY <3>3
        <5>3. QED
          BY <3>3, <5>1, <5>2
      <4>2. CASE i = n + 1
        <5>1. Len(v) + 1 \in DOMAIN w
          BY <3>3
        <5>2. QED
          BY <3>3, <4>2, <5>1 DEF c
      <4>3. QED
        BY <3>1, <4>1, <4>2
    <3>7. QED
      BY <3>3, <3>4, <3>5, <3>6 DEF w
  <2>6. QED
    BY <2>4, <2>5
<1> HIDE DEF Done
<1>5. Len(s) \in Done
  BY <1>2, <1>3, <1>4, AllNumbers
<1>6. Right(Len(s), out[Len(s)])
  BY <1>2, <1>5 DEF Done
<1>7. Kept(Len(s)) = {i \in DOMAIN s : s[i] \notin dropped}
  OBVIOUS
<1> HIDE DEF Kept
<1>8. QED
  BY <1>1, <1>6, <1>7

(* What is left depends only on which characters of the text are dropped.  *)
LEMMA WithoutSame ==
  ASSUME NEW S, NEW s \in Seq(S), NEW A, NEW B,
         \A i \in DOMAIN s : s[i] \in A <=> s[i] \in B
  PROVE  Without(s, A) = Without(s, B)
<1>1. PICK a : LoopOf(a, s, A) /\ Without(s, A) = a[Len(s)]
  BY WithoutLoop
<1>2. PICK b : LoopOf(b, s, B) /\ Without(s, B) = b[Len(s)]
  BY WithoutLoop
<1> DEFINE Done == {n \in Nat : n <= Len(s) => a[n] = b[n]}
<1>3. Len(s) \in Nat /\ DOMAIN s = 1..Len(s)
  OBVIOUS
<1>4. 0 \in Done
  BY <1>1, <1>2, <1>3 DEF LoopOf
<1>5. ASSUME NEW n \in Nat, n \in Done PROVE n + 1 \in Done
  <2> SUFFICES ASSUME n + 1 <= Len(s) PROVE a[n + 1] = b[n + 1]
    OBVIOUS
  <2>1. n + 1 \in DOMAIN s /\ n + 1 \in 0..Len(s) /\ n + 1 # 0 /\ (n + 1) - 1 = n /\ n <= Len(s)
    BY <1>3
  <2>2. a[n + 1] = IF s[n + 1] \in A THEN a[n] ELSE Append(a[n], s[n + 1])
    BY <1>1, <2>1 DEF LoopOf
  <2>3. b[n + 1] = IF s[n + 1] \in B THEN b[n] ELSE Append(b[n], s[n + 1])
    BY <1>2, <2>1 DEF LoopOf
  <2>4. a[n] = b[n]
    BY <1>5, <2>1
  <2>5. QED
    BY <2>1, <2>2, <2>3, <2>4
<1> HIDE DEF Done
<1>6. Len(s) \in Done
  BY <1>3, <1>4, <1>5, AllNumbers
<1>7. QED
  BY <1>1, <1>2, <1>3, <1>6 DEF Done

-----------------------------------------------------------------------------
(* A text without blanks is trimmed to itself.                             *)
LEMMA TrimmedClean ==
  ASSUME NEW S, NEW w \in Seq(S), \A i \in DOMAIN w : w[i] # Space
  PROVE  Trimmed(w) = w
<1> DEFINE inked == {i \in DOMAIN w : w[i] # Space}
<1>1. inked = 1..Len(w) /\ Len(w) \in Nat
  OBVIOUS
<1>2. CASE inked = {}
  <2>1. Trimmed(w) = << >>
    BY <1>2 DEF Trimmed
  <2>2. Len(w) = 0
    BY <1>1, <1>2
  <2>3. QED
    BY <2>1, <2>2
<1>3. CASE inked # {}
  <2>1. Trimmed(w) = SubSeq(w, Min(inked), Max(inked))
    BY <1>3 DEF Trimmed
  <2>2. 1 \in inked /\ Len(w) \in inked /\ \A i \in inked : 1 <= i /\ i <= Len(w) /\ i \in Nat
    BY <1>1, <1>3
  <2> HIDE DEF inked
  <2>3. Min(inked) = 1
    <3>1. PICK n : n = CHOOSE x \in inked : \A y \in inked : x <= y
      OBVIOUS
    <3>2. n \in inked /\ \A y \in inked : n <= y
      BY <2>2, <3>1
    <3>3. n <= 1 /\ 1 <= n /\ n \in Nat
      BY <2>2, <3>2
    <3>4. QED
      BY <3>1, <3>3 DEF Min
  <2>4. Max(inked) = Len(w)
    <3>1. PICK n : n = CHOOSE x \in inked : \A y \in inked : x >= y
      OBVIOUS
    <3>2. n \in inked /\ \A y \in inked : n >= y
      BY <2>2, <3>1
    <3>3. n >= Len(w) /\ n <= Len(w) /\ n \in Nat
      BY <2>2, <3>2
    <3>4. QED
      BY <1>1, <3>1, <3>3 DEF Max
  <2>5. QED
    BY <2>1, <2>3, <2>4
<1>4. QED
  BY <1>2, <1>3

(* normalizeHts with the blank among the separators.                       *)
LEMMA StrippedOf ==
  ASSUME NEW S, NEW raw \in Seq(S), NEW separators, Space \in separators
  PROVE  LET code == Stripped(raw, separators)
             kept == {i \in DOMAIN raw : raw[i] \notin separators}
         IN /\ code = Without(raw, separators)
            /\ Len(code) = Cardinality(kept) /\ Len(code) \in Nat
            /\ \A k \in DOMAIN code : \E i \in kept : code[k] = raw[i]
            /\ \A i \in kept : \E k \in DOMAIN code : code[k] = raw[i]
<1> DEFINE w == Without(raw, separators)
           kept == {i \in DOMAIN raw : raw[i] \notin separators}
<1>1. /\ w \in Seq(S)
      /\ Len(w) = Cardinality(kept)
      /\ \A k \in DOMAIN w : \E i \in kept : w[k] = raw[i]
      /\ \A i \in kept : \E k \in DOMAIN w : w[k] = raw[i]
  BY WithoutContents
<1>2. \A k \in DOMAIN w : w[k] # Space
  BY <1>1
<1> HIDE DEF w
<1>3. Trimmed(w) = w
  BY <1>1, <1>2, TrimmedClean
<1>4. Stripped(raw, separators) = w
  BY <1>3 DEF Stripped, w
<1>5. Len(w) \in Nat
  BY <1>1
<1>6. QED
  BY <1>1, <1>4, <1>5 DEF w

(* The six checks, each by what it says of the code.                       *)
LEMMA ChecksOf ==
  ASSUME NEW raw, NEW p
  PROVE  LET code   == Stripped(raw, p.allowed_separators)
             prefix == SubSeq(code, 1, Min({Len(code), p.known_code_prefix_length}))
         IN (\A i \in DOMAIN HtsChecks : ~FailsHts(HtsChecks[i], raw, p)) <=>
              /\ \A k \in DOMAIN code : code[k] \notin p.placeholder_characters
              /\ \A k \in DOMAIN code : code[k] \in Digits
              /\ ~OddStructure(raw, p.allowed_separators)
              /\ ~(Len(code) > p.expected_digit_count)
              /\ ~(/\ Len(code) < p.expected_digit_count
                   /\ ~(p.allow_partial /\ Len(code) >= p.min_digit_count))
              /\ ~(p.check_known_codes /\ prefix \notin p.known_codes)
<1> DEFINE code   == Stripped(raw, p.allowed_separators)
           prefix == SubSeq(code, 1, Min({Len(code), p.known_code_prefix_length}))
<1>1. FailsHts("PLACEHOLDER", raw, p)
        <=> \E k \in DOMAIN code : code[k] \in p.placeholder_characters
  BY DEF FailsHts
<1>2. FailsHts("NON_NUMERIC", raw, p) <=> \E k \in DOMAIN code : code[k] \notin Digits
  BY DEF FailsHts
<1>3. FailsHts("ODD_STRUCTURE", raw, p) <=> OddStructure(raw, p.allowed_separators)
  BY DEF FailsHts
<1>4. FailsHts("TOO_MANY_DIGITS", raw, p) <=> Len(code) > p.expected_digit_count
  BY DEF FailsHts
<1>5. FailsHts("INCOMPLETE_DIGITS", raw, p) <=>
        /\ Len(code) < p.expected_digit_count
        /\ ~(p.allow_partial /\ Len(code) >= p.min_digit_count)
  BY DEF FailsHts
<1>6. FailsHts("UNKNOWN_CODE", raw, p) <=> p.check_known_codes /\ prefix \notin p.known_codes
  BY DEF FailsHts
<1>7. /\ DOMAIN HtsChecks = 1..6
      /\ HtsChecks[1] = "PLACEHOLDER" /\ HtsChecks[2] = "NON_NUMERIC"
      /\ HtsChecks[3] = "ODD_STRUCTURE" /\ HtsChecks[4] = "TOO_MANY_DIGITS"
      /\ HtsChecks[5] = "INCOMPLETE_DIGITS" /\ HtsChecks[6] = "UNKNOWN_CODE"
  BY DEF HtsChecks
<1> DEFINE F(check) == FailsHts(check, raw, p)
<1> HIDE DEF F
<1>8. (\A i \in DOMAIN HtsChecks : ~F(HtsChecks[i])) <=>
        /\ ~F("PLACEHOLDER") /\ ~F("NON_NUMERIC") /\ ~F("ODD_STRUCTURE")
        /\ ~F("TOO_MANY_DIGITS") /\ ~F("INCOMPLETE_DIGITS") /\ ~F("UNKNOWN_CODE")
  <2>1. \A i \in 1..6 : i = 1 \/ i = 2 \/ i = 3 \/ i = 4 \/ i = 5 \/ i = 6
    OBVIOUS
  <2>2. QED
    BY <1>7, <2>1
<1> HIDE DEF code, prefix
<1>9. QED
  BY <1>1, <1>2, <1>3, <1>4, <1>5, <1>6, <1>8 DEF F, code, prefix

(* The six checks together find exactly the codes that are not complete.   *)
LEMMA HtsExact ==
  ASSUME NEW S, NEW raw \in Seq(S), raw # << >>, NEW p, Space \in p.allowed_separators,
         p.expected_digit_count \in Int, p.min_digit_count \in Int
  PROVE  (\A i \in DOMAIN HtsChecks : ~FailsHts(HtsChecks[i], raw, p)) <=>
           CompleteHts(raw, p)
<1> DEFINE separators  == p.allowed_separators
           code        == Stripped(raw, separators)
           kept        == {i \in DOMAIN raw : raw[i] \notin separators}
           significant == {i \in DOMAIN raw :
                             raw[i] \in Digits \ (separators \cup p.placeholder_characters)}
           number      == Cardinality(significant)
           others      == {raw[i] : i \in DOMAIN raw \ significant}
           plain       == Without(raw, others)
           Shaped1     == \A i \in DOMAIN raw \ significant :
                            raw[i] \in separators /\ {i - 1, i + 1} \subseteq significant
           Counted(n)  == \/ n = p.expected_digit_count
                          \/ p.allow_partial
                             /\ n \in p.min_digit_count..p.expected_digit_count
           Listed(c, n) == p.check_known_codes => \E k \in p.known_codes :
                             k = SubSeq(c, 1, Min({n, p.known_code_prefix_length}))
           Clean       == /\ \A k \in DOMAIN code : code[k] \notin p.placeholder_characters
                          /\ \A k \in DOMAIN code : code[k] \in Digits
                          /\ ~OddStructure(raw, separators)
<1>1. /\ code = Without(raw, separators)
      /\ Len(code) = Cardinality(kept) /\ Len(code) \in Nat
      /\ \A k \in DOMAIN code : \E i \in kept : code[k] = raw[i]
      /\ \A i \in kept : \E k \in DOMAIN code : code[k] = raw[i]
  BY StrippedOf
<1>2. Len(raw) \in Nat \ {0} /\ DOMAIN raw = 1..Len(raw)
  OBVIOUS
<1>3. CompleteHts(raw, p) <=> Shaped1 /\ Counted(number) /\ Listed(plain, number)
  BY DEF CompleteHts
<1>4. significant \subseteq kept
  OBVIOUS
<1>5. kept = significant => code = plain /\ Len(code) = number
  <2> SUFFICES ASSUME kept = significant PROVE code = plain /\ Len(code) = number
    OBVIOUS
  <2>1. \A i \in DOMAIN raw : raw[i] \in separators <=> raw[i] \in others
    OBVIOUS
  <2> HIDE DEF others, separators
  <2>2. Without(raw, separators) = Without(raw, others)
    BY <2>1, WithoutSame
  <2>3. QED
    BY <1>1, <2>2
<1> HIDE DEF code
<1>6. ASSUME kept = significant
      PROVE  (/\ ~(Len(code) > p.expected_digit_count)
              /\ ~(/\ Len(code) < p.expected_digit_count
                   /\ ~(p.allow_partial /\ Len(code) >= p.min_digit_count)))
             <=> Counted(number)
  <2>1. Len(code) = number /\ number \in Nat
    BY <1>1, <1>5, <1>6
  <2> HIDE DEF number
  <2>2. QED
    BY <2>1
<1>7. ASSUME kept = significant
      PROVE  ~(p.check_known_codes
               /\ SubSeq(code, 1, Min({Len(code), p.known_code_prefix_length}))
                    \notin p.known_codes)
             <=> Listed(plain, number)
  BY <1>5, <1>6, <1>7
<1>8. Clean <=> Shaped1
  <2>1. ASSUME Clean PROVE Shaped1
    <3>1. \A i \in kept : i \in significant
      BY <1>1, <2>1
    <3>2. ASSUME NEW i \in DOMAIN raw \ significant
          PROVE  raw[i] \in separators /\ {i - 1, i + 1} \subseteq significant
      <4>1. raw[i] \in separators
        BY <3>1, <3>2
      <4>2. i # 1 /\ i # Len(raw)
        BY <2>1, <4>1 DEF OddStructure
      <4>3. i - 1 \in 1..(Len(raw) - 1) /\ i \in 1..(Len(raw) - 1)
              /\ (i - 1) + 1 = i /\ i + 1 \in DOMAIN raw /\ i - 1 \in DOMAIN raw
        BY <1>2, <4>2
      <4>4. raw[i - 1] \notin separators
        BY <2>1, <4>1, <4>3 DEF OddStructure
      <4>5. raw[i + 1] \notin separators
        BY <2>1, <4>1, <4>3 DEF OddStructure
      <4>6. i - 1 \in kept /\ i + 1 \in kept
        BY <4>3, <4>4, <4>5
      <4>7. QED
        BY <3>1, <4>1, <4>6
    <3>3. QED
      BY <3>2
  <2>2. ASSUME Shaped1 PROVE Clean
    <3>1. \A i \in kept : i \in significant
      BY <2>2
    <3>2. \A k \in DOMAIN code : code[k] \notin p.placeholder_characters /\ code[k] \in Digits
      BY <1>1, <3>1
    <3>3. \A i \in DOMAIN raw : raw[i] \in separators =>
            {i - 1, i + 1} \subseteq significant
      BY <2>2
    <3>4. raw[1] \notin separators
      <4>1. 1 \in DOMAIN raw /\ 0 \notin significant /\ 1 - 1 = 0
        BY <1>2
      <4>2. QED
        BY <3>3, <4>1
    <3>5. raw[Len(raw)] \notin separators
      <4>1. Len(raw) \in DOMAIN raw /\ Len(raw) + 1 \notin significant
        BY <1>2
      <4>2. QED
        BY <3>3, <4>1
    <3>6. ASSUME NEW i \in 1..(Len(raw) - 1), raw[i] \in separators
          PROVE  raw[i + 1] \notin separators
      <4>1. i \in DOMAIN raw
        BY <1>2
      <4>2. i + 1 \in significant
        BY <3>3, <3>6, <4>1
      <4>3. QED
        BY <4>2
    <3>7. ~OddStructure(raw, separators)
      BY <3>4, <3>5, <3>6 DEF OddStructure
    <3>8. QED
      BY <3>2, <3>7
  <2>3. QED
    BY <2>1, <2>2
<1>9. Shaped1 => kept = significant
  <2>1. ASSUME Shaped1, NEW i \in kept PROVE i \in significant
    BY <2>1
  <2>2. QED
    BY <1>4, <2>1
<1>10. (\A i \in DOMAIN HtsChecks : ~FailsHts(HtsChecks[i], raw, p)) <=>
         /\ Clean
         /\ ~(Len(code) > p.expected_digit_count)
         /\ ~(/\ Len(code) < p.expected_digit_count
              /\ ~(p.allow_partial /\ Len(code) >= p.min_digit_count))
         /\ ~(p.check_known_codes
              /\ SubSeq(code, 1, Min({Len(code), p.known_code_prefix_length}))
                   \notin p.known_codes)
  BY ChecksOf DEF code
<1> HIDE DEF Clean, Shaped1, kept, significant, Counted, Listed, number, plain
<1>11. QED
  BY <1>3, <1>6, <1>7, <1>8, <1>9, <1>10

(* The evaluator stops at the first check that fails.                      *)
LEMMA FirstFailing ==
  ASSUME NEW e, ~HtsMissing(e), NEW p
  PROVE  EvaluateHtsCode(e, p) \notin {Passes, PathUnknown} <=>
           \E i \in DOMAIN HtsChecks : FailsHts(HtsChecks[i], e.hts, p)
<1> DEFINE failing == {i \in DOMAIN HtsChecks : FailsHts(HtsChecks[i], e.hts, p)}
<1>1. EvaluateHtsCode(e, p) = IF failing = {} THEN Passes ELSE HtsChecks[Min(failing)]
  BY DEF EvaluateHtsCode
<1>2. failing \subseteq Nat /\ failing \subseteq DOMAIN HtsChecks
  BY DEF HtsChecks
<1>3. \A i \in DOMAIN HtsChecks : HtsChecks[i] \notin {Passes, PathUnknown}
  BY DEF HtsChecks, Passes, PathUnknown
<1>4. failing # {} <=> \E i \in DOMAIN HtsChecks : FailsHts(HtsChecks[i], e.hts, p)
  OBVIOUS
<1> HIDE DEF failing
<1>5. failing # {} => Min(failing) \in failing
  BY <1>2, MinInside
<1>6. QED
  BY <1>1, <1>2, <1>3, <1>4, <1>5

(* The code of an entry stays the text it was.                             *)
TextInv ==
  /\ Shaped(entry)
  /\ entry.hts # None => entry.hts \in Seq(STRING)
  /\ snapshot.hts # None => snapshot.hts \in Seq(STRING)

LEMMA TextHolds == Spec => []TextInv
<1>1. Init => TextInv
  BY EntriesShaped DEF Init, TextInv, Shaped
<1>2. TextInv /\ [Next]_vars => TextInv'
  <2> SUFFICES ASSUME TextInv, [Next]_vars PROVE TextInv'
    OBVIOUS
  <2>1. CASE Load
    BY <2>1 DEF Load, TextInv, Shaped
  <2>2. ASSUME NEW i \in DOMAIN entry.documents, Receive(i) PROVE TextInv'
    <3>1. PICK row : row = [entry.documents[i] EXCEPT !.status = "RECEIVED", !.file = TRUE]
      OBVIOUS
    <3>2. PICK docs : docs = [entry.documents EXCEPT ![i] = row]
      OBVIOUS
    <3>3. entry' = [entry EXCEPT !.documents = docs] /\ snapshot' = snapshot
      BY <2>2, <3>1, <3>2 DEF Receive
    <3>4. /\ DOMAIN entry' = DOMAIN entry /\ entry'.hts = entry.hts
          /\ entry'.documents = docs /\ DOMAIN docs = DOMAIN entry.documents
      BY <3>2, <3>3 DEF TextInv, Shaped
    <3>5. \A d \in DOMAIN docs : DOMAIN docs[d] = DOMAIN entry.documents[d]
      BY <3>1, <3>2
    <3>6. QED
      BY <3>3, <3>4, <3>5 DEF TextInv, Shaped
  <2>3. CASE UNCHANGED <<entry, snapshot>>
    BY <2>3 DEF TextInv, Shaped
  <2>4. ASSUME NEW r \in todo, Reject(r) \/ Skip(r) \/ Pass(r) \/ Find(r) \/ Throw(r)
        PROVE  UNCHANGED <<entry, snapshot>>
    BY <2>4 DEF Reject, Skip, Pass, Find, Throw, Turn
  <2>5. QED
    BY <2>1, <2>2, <2>3, <2>4 DEF Next, Conclude, vars
<1>3. QED
  BY <1>1, <1>2, PTL DEF Spec

(* evaluateHtsCode reports exactly the codes that are not complete, for    *)
(* texts of any length and any digit counts, separators and placeholders   *)
(* the parameter schema lets through.                                      *)
THEOREM CodesExact == Spec => []HtsFindingsExact
<1>1. LoopInv /\ ParamsInv /\ TextInv => HtsFindingsExact
  <2> SUFFICES ASSUME LoopInv, ParamsInv, TextInv, status = "done", NEW r \in Enabled,
                      r.type = "INVALID_HTS_CODE", Usable(r),
                      Space \in r.params.allowed_separators,
                      Applicable(r) = "applicable", ~HtsMissing(snapshot)
               PROVE  r.id \in Reported <=> ~CompleteHts(snapshot.hts, r.params)
    BY DEF HtsFindingsExact
  <2> DEFINE raw == snapshot.hts
             p   == r.params
  <2>1. r.id \in Reported <=> Fires(r)
    BY DEF LoopInv, AnsweredFor
  <2>2. Fires(r) <=> EvaluateHtsCode(snapshot, p) \notin {Passes, PathUnknown}
    BY DEF Fires, Evaluate
  <2>3. r \in rows /\ r.schema
    BY DEF Enabled, Usable, ParamsValid
  <2>4. raw \in Seq(STRING) /\ raw # << >>
    <3>1. Trimmed(<< >>) = << >>
      <4>1. {i \in DOMAIN << >> : (<< >>)[i] # Space} = {}
        OBVIOUS
      <4>2. QED
        BY <4>1 DEF Trimmed
    <3>2. QED
      BY <3>1 DEF HtsMissing, TextInv
  <2>5. p.expected_digit_count \in Int /\ p.min_digit_count \in Int
    BY <2>3 DEF ParamsInv
  <2> HIDE DEF raw, p
  <2>6. (\A i \in DOMAIN HtsChecks : ~FailsHts(HtsChecks[i], raw, p)) <=> CompleteHts(raw, p)
    BY <2>4, <2>5, HtsExact DEF p
  <2>7. EvaluateHtsCode(snapshot, p) \notin {Passes, PathUnknown} <=>
          \E i \in DOMAIN HtsChecks : FailsHts(HtsChecks[i], raw, p)
    BY FirstFailing DEF raw
  <2>8. QED
    BY <2>1, <2>2, <2>6, <2>7 DEF raw, p
<1>2. QED
  BY <1>1, LoopHolds, ParamsHold, TextHolds, PTL
=============================================================================
