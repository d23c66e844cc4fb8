-------------------------- MODULE CaseExceptionProofs --------------------------
(***************************************************************************)
(* Proofs about the exceptions of a case: the columns that describe the    *)
(* open ones, what decisions clear, and that the service implements        *)
(* CaseLifecycle.                                                          *)
(***************************************************************************)
EXTENDS CaseWorkflowProofs

(***************************************************************************)
(* The projection.                                                         *)
(***************************************************************************)
(* The columns of the case row agree with the exceptions, of which there   *)
(* are finitely many: without that, a count of zero would not mean none.   *)
OpenAreCounted ==
  \A c \in Cases :
    /\ IsFiniteSet(open[c])
    /\ case[c].queued <=> open[c] # {}
    /\ case[c].open_count = Cardinality(open[c])
    /\ Explained(c, open[c], case[c].priority)

(* A count above zero means that there are some, for finitely many.        *)
LEMMA CountedMeansSome ==
  ASSUME NEW S, IsFiniteSet(S)
  PROVE  Cardinality(S) \in Nat /\ (Cardinality(S) > 0 <=> S # {})
BY FS_CardinalityType, FS_EmptySet

(* The projection stays in agreement with the exceptions.                  *)
LEMMA OpenStayCounted == Spec => []OpenAreCounted
<1> DEFINE Counted(c) ==
      /\ IsFiniteSet(open[c])
      /\ case[c].queued <=> open[c] # {}
      /\ case[c].open_count = Cardinality(open[c])
      /\ Explained(c, open[c], case[c].priority)
<1>1. OpenAreCounted <=> \A c \in Cases : Counted(c)
  BY DEF OpenAreCounted
<1>2. OpenAreCounted' <=> \A c \in Cases : Counted(c)'
  BY DEF OpenAreCounted
<1>3. Init => OpenAreCounted
  <2> SUFFICES ASSUME Init, NEW c \in Cases PROVE Counted(c)
    BY <1>1
  <2>1. PICK status \in [Cases -> SeedStatuses], findings \in [Cases -> SUBSET Rules] :
          /\ open = [d \in Cases |-> SeededExceptions(d, findings[d])]
          /\ case = [d \in Cases |->
                       SeededCase(d, status[d], SeededExceptions(d, findings[d]))]
    BY DEF Init
  <2>2. open[c] \in SUBSET ExceptionRow /\ IsFiniteSet(open[c])
    BY <2>1, SeededTyped
  <2>3. case[c] = SeededCase(c, status[c], open[c])
    BY <2>1
  <2>4. /\ case[c].queued = (Cardinality(open[c]) > 0)
        /\ case[c].open_count = Cardinality(open[c])
        /\ case[c].priority = ProjectedPriority(c, open[c], 0)
    BY <2>3 DEF SeededCase
  <2>5. Explained(c, open[c], case[c].priority)
    BY <2>2, <2>4, ProjectedPriorityTyped
  <2>6. QED
    BY <2>2, <2>4, <2>5, CountedMeansSome
<1>4. ASSUME TypeOK, OpenAreCurrent, OpenAreCounted, [Next]_vars PROVE OpenAreCounted'
  <2>1. ASSUME NEW d \in Cases, Execute(d), NEW c \in Cases PROVE Counted(c)'
    <3>1. PICK cmd \in Commands(ExceptionRow), key \in KeyInputs,
               version \in Versions(d), row \in ActionRow :
            Written(d, cmd, key, version, row) /\ Moved(d, row) /\ Settled(d, cmd, row)
      BY <1>4, <2>1, Execution
    <3>2. CASE c = d /\ cmd.action = "CLEAR_EXCEPTION"
      <4>1. cmd.ids = open[c]
        BY <3>1, <3>2, Permitted DEF Written
      <4>2. open'[c] = {}
        BY <1>4, <3>1, <3>2, <4>1 DEF Settled, TypeOK
      <4>3. case'[c].open_count = 0 /\ case'[c].queued = FALSE
        BY <3>1, <3>2 DEF Settled
      <4>4. QED
        BY <4>2, <4>3, FS_EmptySet DEF Explained
    <3>3. CASE c = d /\ cmd.action # "CLEAR_EXCEPTION"
      <4>1. /\ open'[c] = open[c]
            /\ case'[c].open_count = case[c].open_count
            /\ case'[c].queued = case[c].queued
            /\ case'[c].priority = case[c].priority
        BY <3>1, <3>3 DEF Settled, Moved
      <4>2. QED
        BY <1>1, <1>4, <4>1
    <3>4. CASE c # d
      <4>1. case'[c] = case[c]
        BY <1>4, <3>1, <3>4 DEF Moved, TypeOK
      <4>2. open' = open \/ open' = [open EXCEPT ![d] = @ \ cmd.ids]
        BY <3>1 DEF Settled
      <4>3. open'[c] = open[c]
        BY <1>4, <3>4, <4>2 DEF TypeOK
      <4>4. QED
        BY <1>1, <1>4, <4>1, <4>3
    <3>5. QED
      BY <3>2, <3>3, <3>4
  <2>2. ASSUME NEW d \in Cases, DetectExceptions(d), NEW c \in Cases PROVE Counted(c)'
    <3>1. PICK found \in SUBSET ExceptionRow, t \in ClockReads :
            /\ IsFiniteSet(found)
            /\ open' = [open EXCEPT ![d] = found]
            /\ case' = [case EXCEPT ![d] = Projected(d, found, t)]
      BY <1>4, <2>2, Detection
    <3>2. CASE c = d
      <4>1. open'[c] = found /\ case'[c] = Projected(c, found, t)
        BY <1>4, <3>1, <3>2 DEF TypeOK
      <4>2. /\ case'[c].queued = (Cardinality(found) > 0)
            /\ case'[c].open_count = Cardinality(found)
            /\ case'[c].priority = ProjectedPriority(c, found, t)
        BY <1>4, <4>1, ProjectedColumns
      <4>3. t \in Nat
        BY BoundsAssumption DEF ClockReads
      <4>4. Explained(c, found, ProjectedPriority(c, found, t))
        BY <3>1, <4>3, ProjectedPriorityTyped
      <4>5. QED
        BY <3>1, <4>1, <4>2, <4>4, CountedMeansSome
    <3>3. CASE c # d
      <4>1. open'[c] = open[c] /\ case'[c] = case[c]
        BY <1>4, <3>1, <3>3 DEF TypeOK
      <4>2. QED
        BY <1>1, <1>4, <4>1
    <3>4. QED
      BY <3>2, <3>3
  <2>3. CASE UNCHANGED <<case, open>>
    BY <1>1, <1>2, <1>4, <2>3
  <2> HIDE DEF Counted
  <2>4. QED
    BY <1>2, <1>4, <2>1, <2>2, <2>3
       DEF Next, Observe, ReceiveDocument, DeactivateUser, vars
<1>5. QED
  BY <1>3, <1>4, TypeCorrect, OpenStayCurrent, PTL DEF Spec

(* queued and open_exception_count never drift from the open exceptions,   *)
(* whichever of detection and clearance wrote them last.                   *)
THEOREM ProjectionStaysInAgreement == Spec => []ProjectionAgrees
<1>1. OpenAreCounted => ProjectionAgrees
  BY DEF OpenAreCounted, ProjectionAgrees
<1>2. QED
  BY <1>1, OpenStayCounted, PTL

(* The priority of a case always answers to its open exceptions: detection *)
(* derives it from all it opens, and a clearance leaves none open.         *)
THEOREM PriorityStaysExplained == Spec => []PriorityExplained
<1>1. OpenAreCounted => PriorityExplained
  BY DEF OpenAreCounted, Explained, PriorityExplained
<1>2. QED
  BY <1>1, OpenStayCounted, PTL

(***************************************************************************)
(* Decisions.                                                              *)
(***************************************************************************)
(* Every clearance in the history names exceptions of its own case and of  *)
(* the evaluation the case row pointed at, which is the one the open       *)
(* exceptions belong to; and nothing else is ever cleared.                 *)
THEOREM OnlyDecisionsClear == Spec => []ClearedByDecision
<1> DEFINE Decided(c, set, h) ==
      /\ set = UNION {h[i].ids : i \in DOMAIN h}
      /\ \A i \in DOMAIN h : \A e \in h[i].ids :
           e.case = c /\ e.evaluation = h[i].evaluation
<1>1. ClearedByDecision <=> \A c \in Cases : Decided(c, cleared[c], actions[c])
  BY DEF ClearedByDecision
<1>2. ClearedByDecision' <=> \A c \in Cases : Decided(c, cleared'[c], actions'[c])
  BY DEF ClearedByDecision
<1>3. Init => ClearedByDecision
  BY DEF Init, ClearedByDecision
<1>4. ASSUME TypeOK, OpenAreCurrent, ClearedByDecision, [Next]_vars PROVE ClearedByDecision'
  <2>1. ASSUME NEW d \in Cases, Execute(d), NEW c \in Cases
        PROVE  Decided(c, cleared'[c], actions'[c])
    <3>1. PICK cmd \in Commands(ExceptionRow), key \in KeyInputs,
               version \in Versions(d), row \in ActionRow :
            Written(d, cmd, key, version, row) /\ Settled(d, cmd, row)
      BY <1>4, <2>1, Execution
    <3>2. CASE c = d
      <4> DEFINE n == Len(actions[c])
      <4>1. cleared'[c] = cleared[c] \cup row.ids
        <5>1. CASE cmd.action = "CLEAR_EXCEPTION"
          BY <1>4, <3>1, <3>2, <5>1 DEF Settled, TypeOK
        <5>2. CASE cmd.action # "CLEAR_EXCEPTION"
          BY <3>1, <5>2 DEF Settled
        <5>3. QED
          BY <5>1, <5>2
      <4>2. \A e \in row.ids : e.case = c /\ e.evaluation = row.evaluation
        <5>1. row.ids = open[c] \/ row.ids = {}
          BY <3>1, <3>2, Permitted DEF Written, Settled
        <5>2. row.evaluation = case[c].evaluation
          BY <3>1, <3>2 DEF Written
        <5>3. QED
          BY <1>4, <5>1, <5>2 DEF OpenAreCurrent
      <4>3. /\ n \in Nat
            /\ DOMAIN actions[c] = 1..n
            /\ DOMAIN actions'[c] = 1..(n + 1)
            /\ \A i \in 1..n : actions'[c][i] = actions[c][i]
            /\ actions'[c][n + 1] = row
        BY <1>4, <3>1, <3>2, Appended DEF Written
      <4>4. Decided(c, cleared[c], actions[c])
        BY <1>1, <1>4
      <4> HIDE DEF n
      <4>5. \A i \in DOMAIN actions'[c] : \A e \in actions'[c][i].ids :
              e.case = c /\ e.evaluation = actions'[c][i].evaluation
        BY <4>2, <4>3, <4>4
      <4>6. ASSUME NEW e
            PROVE  e \in cleared'[c] <=> \E i \in DOMAIN actions'[c] : e \in actions'[c][i].ids
        <5>1. e \in cleared[c] <=> \E i \in 1..n : e \in actions[c][i].ids
          BY <4>3, <4>4
        <5>2. e \in cleared'[c] <=> e \in cleared[c] \/ e \in row.ids
          BY <4>1
        <5>3. n + 1 \in 1..(n + 1) /\ \A i \in 1..(n + 1) : i \in 1..n \/ i = n + 1
          BY <4>3
        <5>4. \A i \in 1..n : i \in 1..(n + 1)
          BY <4>3
        <5>5. QED
          BY <4>3, <5>1, <5>2, <5>3, <5>4
      <4>7. cleared'[c] = UNION {actions'[c][i].ids : i \in DOMAIN actions'[c]}
        BY <4>6
      <4>8. QED
        BY <4>5, <4>7
    <3>3. CASE c # d
      <4>1. actions'[c] = actions[c]
        BY <1>4, <3>1, <3>3, Appended DEF Written
      <4>2. cleared' = cleared \/ cleared' = [cleared EXCEPT ![d] = @ \cup cmd.ids]
        BY <3>1 DEF Settled
      <4>3. cleared'[c] = cleared[c]
        BY <1>4, <3>3, <4>2 DEF TypeOK
      <4>4. QED
        BY <1>1, <1>4, <4>1, <4>3
    <3>4. QED
      BY <3>2, <3>3
  <2>2. CASE UNCHANGED <<cleared, actions>>
    BY <1>1, <1>2, <1>4, <2>2
  <2> HIDE DEF Decided
  <2>3. QED
    BY <1>2, <1>4, <2>1, <2>2
       DEF Next, DetectExceptions, Observe, ReceiveDocument, DeactivateUser, vars
<1>5. QED
  BY <1>3, <1>4, TypeCorrect, OpenStayCurrent, PTL DEF Spec

(* An exception is open, cleared or superseded, never two of them, and of  *)
(* no evaluation later than the latest.                                    *)
ExceptionsApart ==
  \A c \in Cases :
    /\ open[c] \cap cleared[c] = {}
    /\ open[c] \cap superseded[c] = {}
    /\ cleared[c] \cap superseded[c] = {}
    /\ \A e \in ExceptionsOf(c) : e.evaluation <= evaluations[c]

(* Findings are new because evaluations are numbered in sequence, and a    *)
(* clearance takes only open exceptions, although its statement would take *)
(* superseded ones too.                                                    *)
LEMMA ExceptionsStayApart == Spec => []ExceptionsApart
<1> DEFINE Apart(o, s, p, n) ==
      /\ o \cap s = {} /\ o \cap p = {} /\ s \cap p = {}
      /\ \A e \in o \cup s \cup p : e.evaluation <= n
<1>1. ExceptionsApart <=> \A c \in Cases :
        Apart(open[c], cleared[c], superseded[c], evaluations[c])
  BY DEF ExceptionsApart, ExceptionsOf
<1>2. ExceptionsApart' <=> \A c \in Cases :
        Apart(open'[c], cleared'[c], superseded'[c], evaluations'[c])
  BY DEF ExceptionsApart, ExceptionsOf
<1>3. Init => ExceptionsApart
  BY DEF Init, ExceptionsApart, ExceptionsOf, SeededExceptions
<1>4. ASSUME TypeOK, OpenAreCurrent, ExceptionsApart, [Next]_vars PROVE ExceptionsApart'
  <2>1. ASSUME NEW d \in Cases, Execute(d), NEW c \in Cases
        PROVE  Apart(open'[c], cleared'[c], superseded'[c], evaluations'[c])
    <3>1. PICK cmd \in Commands(ExceptionRow), key \in KeyInputs,
               version \in Versions(d), row \in ActionRow :
            Written(d, cmd, key, version, row) /\ Settled(d, cmd, row)
      BY <1>4, <2>1, Execution
    <3>2. evaluations' = evaluations
      BY <3>1 DEF Written, Log
    <3>3. \/ UNCHANGED <<open, cleared, superseded>>
          \/ /\ cmd.ids = open[d]
             /\ open' = [open EXCEPT ![d] = @ \ cmd.ids]
             /\ superseded' = [superseded EXCEPT ![d] = @ \ cmd.ids]
             /\ cleared' = [cleared EXCEPT ![d] = @ \cup cmd.ids]
      BY <3>1, Permitted DEF Written, Settled
    <3>4. \/ /\ open'[c] = open[c]
             /\ cleared'[c] = cleared[c]
             /\ superseded'[c] = superseded[c]
          \/ /\ open'[c] = {}
             /\ superseded'[c] = superseded[c] \ open[c]
             /\ cleared'[c] = cleared[c] \cup open[c]
      BY <1>4, <3>3 DEF TypeOK
    <3>5. Apart(open[c], cleared[c], superseded[c], evaluations[c])
      BY <1>1, <1>4
    <3>6. QED
      BY <3>2, <3>4, <3>5
  <2>2. ASSUME NEW d \in Cases, DetectExceptions(d), NEW c \in Cases
        PROVE  Apart(open'[c], cleared'[c], superseded'[c], evaluations'[c])
    <3>1. PICK found \in SUBSET ExceptionRow, t \in ClockReads :
            /\ \A e \in found : e.case = d /\ e.evaluation = evaluations[d] + 1
            /\ evaluations' = [evaluations EXCEPT ![d] = @ + 1]
            /\ open' = [open EXCEPT ![d] = found]
            /\ superseded' = [superseded EXCEPT ![d] = @ \cup open[d]]
            /\ cleared' = cleared
      BY <1>4, <2>2, Detection
    <3>2. Apart(open[c], cleared[c], superseded[c], evaluations[c])
      BY <1>1, <1>4
    <3>3. CASE c = d
      <4>1. /\ open'[c] = found
            /\ superseded'[c] = superseded[c] \cup open[c]
            /\ evaluations'[c] = evaluations[c] + 1
            /\ evaluations[c] \in Nat
        BY <1>4, <3>1, <3>3 DEF TypeOK
      <4>2. \A e \in cleared[c] \cup superseded'[c] :
              e.evaluation \in Nat /\ e.evaluation <= evaluations[c]
        BY <1>4, <3>2, <4>1 DEF TypeOK, ExceptionRow
      <4>3. \A e \in found : e.evaluation = evaluations[c] + 1
        BY <3>1, <3>3
      <4>4. found \cap cleared[c] = {} /\ found \cap superseded'[c] = {}
        BY <4>1, <4>2, <4>3
      <4>5. cleared[c] \cap superseded'[c] = {}
        BY <3>2, <4>1
      <4>6. QED
        BY <3>1, <4>1, <4>2, <4>3, <4>4, <4>5
    <3>4. CASE c # d
      <4>1. /\ open'[c] = open[c]
            /\ superseded'[c] = superseded[c]
            /\ evaluations'[c] = evaluations[c]
        BY <1>4, <3>1, <3>4 DEF TypeOK
      <4>2. QED
        BY <3>1, <3>2, <4>1
    <3>5. QED
      BY <3>3, <3>4
  <2>3. CASE UNCHANGED <<open, cleared, superseded, evaluations>>
    BY <1>1, <1>2, <1>4, <2>3
  <2> HIDE DEF Apart
  <2>4. QED
    BY <1>2, <1>4, <2>1, <2>2, <2>3
       DEF Next, Observe, ReceiveDocument, DeactivateUser, vars
<1>5. QED
  BY <1>3, <1>4, TypeCorrect, OpenStayCurrent, PTL DEF Spec

(* A decision stands: no later evaluation takes a cleared finding back.    *)
THEOREM DecisionsAlwaysStand == Spec => DecisionsStand
<1> DEFINE Stands(c) == cleared[c] \subseteq cleared'[c] \ (open'[c] \cup superseded'[c])
<1>1. ASSUME TypeOK, ExceptionsApart, ExceptionsApart', Next
      PROVE  \A c \in Cases : Stands(c)
  <2>1. ASSUME NEW c \in Cases, cleared[c] \subseteq cleared'[c] PROVE Stands(c)
    BY <1>1, <2>1 DEF ExceptionsApart
  <2>2. ASSUME NEW d \in Cases, Execute(d), NEW c \in Cases
        PROVE  cleared[c] \subseteq cleared'[c]
    <3>1. PICK cmd \in Commands(ExceptionRow), row \in ActionRow : Settled(d, cmd, row)
      BY <1>1, <2>2, Execution
    <3>2. cleared' = cleared \/ cleared' = [cleared EXCEPT ![d] = @ \cup cmd.ids]
      BY <3>1 DEF Settled
    <3>3. QED
      BY <1>1, <3>2 DEF TypeOK
  <2> HIDE DEF Stands
  <2>3. QED
    BY <1>1, <2>1, <2>2
       DEF Next, DetectExceptions, Observe, ReceiveDocument, DeactivateUser
<1>2. TypeOK /\ ExceptionsApart /\ ExceptionsApart' /\ [Next]_vars
        => [\A c \in Cases : Stands(c)]_vars
  BY <1>1
<1>3. QED
  BY <1>2, TypeCorrect, ExceptionsStayApart, PTL DEF Spec, DecisionsStand

(***************************************************************************)
(* Offers.                                                                 *)
(***************************************************************************)
(* The table refuses an action in every form, or not at all.               *)
Blocked(status, action) ==
  status = "CLEARED" \/ <<status, action>> \in RedundantRows

TableCodes == {"TRANSITION_REDUNDANT", "CASE_TERMINAL"}

(* Where the table does not block, a justified command is up to the guards, *)
(* whose codes are others than the table's.                                *)
LEMMA TableOrGuards ==
  ASSUME NEW ctx, NEW cmd
  PROVE  /\ Blocked(ctx.status, cmd.action) =>
              /\ EvaluateTransition(ctx, cmd) \cap TableCodes # {}
              /\ EvaluateTransition(ctx, cmd) # {}
         /\ ~Blocked(ctx.status, cmd.action) /\ ValidateJustification(cmd) =>
              EvaluateTransition(ctx, cmd) = GuardRefusals(ctx, cmd)
         /\ GuardRefusals(ctx, cmd) \cap TableCodes = {}
<1>1. /\ Blocked(ctx.status, cmd.action) =>
           /\ EvaluateTransition(ctx, cmd) \cap TableCodes # {}
           /\ EvaluateTransition(ctx, cmd) # {}
      /\ ~Blocked(ctx.status, cmd.action) /\ ValidateJustification(cmd) =>
           EvaluateTransition(ctx, cmd) = GuardRefusals(ctx, cmd)
  BY DEF Blocked, TableCodes, EvaluateTransition
<1>2. /\ GDoc(ctx, cmd) \cap TableCodes = {} /\ GDup(ctx, cmd) \cap TableCodes = {}
      /\ GRec(ctx, cmd) \cap TableCodes = {} /\ GAck(ctx, cmd) \cap TableCodes = {}
  BY DEF GDoc, GDup, GRec, GAck, TableCodes
<1>3. GuardRefusals(ctx, cmd) \in
        {{}, GDoc(ctx, cmd), GDup(ctx, cmd), GRec(ctx, cmd), GAck(ctx, cmd)}
  BY DEF GuardRefusals
<1>4. QED
  BY <1>1, <1>2, <1>3

(* Which guards an action meets.                                           *)
LEMMA GuardsMet ==
  ASSUME NEW ctx, NEW cmd
  PROVE  /\ cmd.action \in {"SEND_FOR_SPECIALIST_REVIEW", "PLACE_ON_HOLD",
                            "ESCALATE_TO_SUPERVISOR"} => GuardRefusals(ctx, cmd) = {}
         /\ cmd.action = "CLEAR_EXCEPTION" =>
              (GuardRefusals(ctx, cmd) = {} <=>
                 /\ GRec(ctx, cmd) = {}
                 /\ ctx.status = "AWAITING_INFORMATION" => GAck(ctx, cmd) = {})
         /\ cmd.action = "REQUEST_INFORMATION" =>
              (GuardRefusals(ctx, cmd) = {} <=>
                 /\ GDoc(ctx, cmd) = {}
                 /\ ctx.status = "AWAITING_INFORMATION" => GDup(ctx, cmd) = {})
<1>1. cmd.action \in {"SEND_FOR_SPECIALIST_REVIEW", "PLACE_ON_HOLD", "ESCALATE_TO_SUPERVISOR"} =>
        GuardRefusals(ctx, cmd) = {}
  BY DEF GuardRefusals, GuardsOf
<1>2. cmd.action = "CLEAR_EXCEPTION" =>
        (GuardRefusals(ctx, cmd) = {} <=>
           /\ GRec(ctx, cmd) = {}
           /\ ctx.status = "AWAITING_INFORMATION" => GAck(ctx, cmd) = {})
  BY DEF GuardRefusals, GuardsOf
<1>3. cmd.action = "REQUEST_INFORMATION" =>
        (GuardRefusals(ctx, cmd) = {} <=>
           /\ GDoc(ctx, cmd) = {}
           /\ ctx.status = "AWAITING_INFORMATION" => GDup(ctx, cmd) = {})
  BY DEF GuardRefusals, GuardsOf
<1>4. QED
  BY <1>1, <1>2, <1>3

(* A request for the one type meets its guards in the same way, however    *)
(* the type is spelled, if an unlisted type is asked for as such.          *)
LEMMA RequestGuards ==
  ASSUME NEW ctx, NEW first \in DocTypes, NEW cmd,
         NormalizedTypes(cmd) = {first},
         cmd.unlisted \/ first \in ctx.missing
  PROVE  /\ GDoc(ctx, cmd) = {} <=> first \notin ctx.received
         /\ GDup(ctx, cmd) = {} <=> first \notin ctx.requested
<1>1. GDoc(ctx, cmd) = {} <=> first \notin ctx.received
  <2>1. {t \in {first} \ ctx.received : t \notin ctx.missing /\ ~cmd.unlisted} = {}
    OBVIOUS
  <2>2. QED
    BY <2>1 DEF GDoc
<1>2. GDup(ctx, cmd) = {} <=> first \notin ctx.requested
  BY DEF GDup
<1>3. QED
  BY <1>1, <1>2

(* The probe of an action is a justified command of it, which asks for the *)
(* first missing type, or names the open exceptions and acknowledges none. *)
LEMMA Probed ==
  ASSUME NEW ctx, NEW first \in FirstMissing(ctx), first \in DocTypes,
         NEW action \in UserActions, NEW probe, probe = ProbeCommand(action, ctx, first)
  PROVE  /\ probe.action = action
         /\ ValidateJustification(probe)
         /\ action = "CLEAR_EXCEPTION" => probe.ids = ctx.open /\ ~probe.ack
         /\ action = "REQUEST_INFORMATION" =>
              /\ NormalizedTypes(probe) = {first}
              /\ probe.unlisted \/ first \in ctx.missing
<1>1. /\ probe.action = action /\ probe.just = "from40"
      /\ action = "CLEAR_EXCEPTION" =>
           probe.ids = ctx.open /\ ~probe.ack /\ probe.basis = "EXCEPTIONS_RESOLVED"
      /\ action = "REQUEST_INFORMATION" =>
           probe.docs = {first} /\ (probe.unlisted <=> ctx.missing = {})
  BY DEF ProbeCommand, UserActions
<1>2. ValidateJustification(probe)
  BY <1>1 DEF ValidateJustification, MinDefault
<1>3. ASSUME action = "REQUEST_INFORMATION"
      PROVE  /\ NormalizedTypes(probe) = {first}
             /\ probe.unlisted \/ first \in ctx.missing
  <2>1. Normal[first] = first
    BY TypesAssumption
  <2>2. NormalizedTypes(probe) = {first}
    BY <1>1, <1>3, <2>1 DEF NormalizedTypes
  <2>3. ctx.missing # {} => first \in ctx.missing
    BY DEF FirstMissing
  <2>4. QED
    BY <1>1, <1>3, <2>2, <2>3
<1>4. QED
  BY <1>1, <1>2, <1>3

(* Whatever is said of an action by its probe holds of the commands the    *)
(* panel can send: they share the row of the table, and the guards that    *)
(* read more than the row read what the probe was built from.              *)
THEOREM OffersStand == Spec => []OffersHold
<1>1. ASSUME TypeOK
      PROVE  OffersHold
  <2> SUFFICES ASSUME NEW c \in Cases, NEW first \in FirstMissing(Context(c)),
                      NEW cmd \in Commands(open[c])
               PROVE  LET ctx     == Context(c)
                          offer   == AvailableAction(cmd.action, ctx, first)
                          refused == EvaluateTransition(ctx, cmd) # {}
                          waiting == IF ctx.status = "AWAITING_INFORMATION"
                                     THEN ctx.requested ELSE {}
                      IN /\ offer.available /\ AsOffered(c, cmd, first) => ~refused
                         /\ offer.reasons \cap TableCodes # {} => refused
                         /\ \/ offer.available \/ offer.reasons # {}
                            \/ /\ cmd.action = "REQUEST_INFORMATION"
                               /\ first \in waiting \cup received[c]
                            \/ /\ cmd.action = "CLEAR_EXCEPTION"
                               /\ ~(waiting \subseteq received[c])
    BY DEF OffersHold, TableCodes
  <2> DEFINE ctx     == Context(c)
             probe   == ProbeCommand(cmd.action, ctx, first)
             offer   == AvailableAction(cmd.action, ctx, first)
             blocked == Blocked(ctx.status, cmd.action)
             waiting == IF ctx.status = "AWAITING_INFORMATION" THEN ctx.requested ELSE {}
  <2>1. /\ ctx.open = open[c] /\ ctx.received = received[c]
        /\ ctx.missing = UNION {e.missing : e \in open[c]}
    BY DEF Context
  <2>2. first \in DocTypes
    <3>1. \A e \in open[c] : e.missing \subseteq DocTypes
      BY <1>1 DEF TypeOK, ExceptionRow
    <3>2. QED
      BY <2>1, <3>1, TypesAssumption DEF FirstMissing
  <2>3. cmd.action \in UserActions
    BY DEF Commands, RequestCommands, ReviewCommands, ClearCommands, HoldCommands,
           EscalateCommands, UserActions
  <2>4. /\ probe.action = cmd.action /\ ValidateJustification(probe)
        /\ cmd.action = "CLEAR_EXCEPTION" => probe.ids = ctx.open /\ ~probe.ack
        /\ cmd.action = "REQUEST_INFORMATION" =>
             NormalizedTypes(probe) = {first} /\ (probe.unlisted \/ first \in ctx.missing)
    <3>1. first \in FirstMissing(ctx) /\ probe = ProbeCommand(cmd.action, ctx, first)
      OBVIOUS
    <3> HIDE DEF ctx, probe
    <3>2. probe.action = cmd.action
      BY <2>2, <2>3, <3>1, Probed
    <3>3. ValidateJustification(probe)
      BY <2>2, <2>3, <3>1, Probed
    <3>4. cmd.action = "CLEAR_EXCEPTION" => probe.ids = ctx.open /\ ~probe.ack
      BY <2>2, <2>3, <3>1, Probed
    <3>5. cmd.action = "REQUEST_INFORMATION" =>
             NormalizedTypes(probe) = {first} /\ (probe.unlisted \/ first \in ctx.missing)
      BY <2>2, <2>3, <3>1, Probed
    <3>6. QED
      BY <3>2, <3>3, <3>4, <3>5
  <2>5. /\ blocked => /\ EvaluateTransition(ctx, cmd) # {}
                      /\ EvaluateTransition(ctx, probe) \cap TableCodes # {}
                      /\ EvaluateTransition(ctx, probe) # {}
        /\ ~blocked => EvaluateTransition(ctx, probe) = GuardRefusals(ctx, probe)
        /\ ~blocked /\ ValidateJustification(cmd) =>
             EvaluateTransition(ctx, cmd) = GuardRefusals(ctx, cmd)
        /\ GuardRefusals(ctx, probe) \cap TableCodes = {}
    <3> HIDE DEF ctx, probe
    <3>1. QED
      BY <2>4, TableOrGuards
  <2>6. /\ NothingToRequest(cmd.action, ctx) =>
             offer.available = FALSE /\ offer.reasons = {"NO_MISSING_DOCUMENTS"}
        /\ ~NothingToRequest(cmd.action, ctx) =>
             /\ offer.available <=> EvaluateTransition(ctx, probe) = {}
             /\ offer.reasons = EvaluateTransition(ctx, probe) \cap TableCodes
    BY DEF AvailableAction, TableCodes
  <2> HIDE DEF ctx, probe, offer, blocked
  <2>7. ASSUME AsOffered(c, cmd, first), GuardRefusals(ctx, probe) = {}
        PROVE  GuardRefusals(ctx, cmd) = {}
    <3>1. CASE cmd.action = "CLEAR_EXCEPTION"
      <4>1. cmd.ids = ctx.open
        BY <2>1, <2>7, <3>1 DEF AsOffered
      <4>2. GRec(ctx, cmd) = {}
        BY <4>1 DEF GRec
      <4>3. ctx.status = "AWAITING_INFORMATION" => GAck(ctx, probe) = {}
        BY <2>4, <2>7, <3>1, GuardsMet
      <4>4. GAck(ctx, probe) = {} /\ ctx.status = "AWAITING_INFORMATION" =>
              ctx.requested \ ctx.received = {}
        BY <2>4, <3>1 DEF GAck
      <4>5. ctx.status = "AWAITING_INFORMATION" => GAck(ctx, cmd) = {}
        BY <4>3, <4>4 DEF GAck
      <4>6. QED
        BY <3>1, <4>2, <4>5, GuardsMet
    <3>2. CASE cmd.action = "REQUEST_INFORMATION"
      <4>1. NormalizedTypes(cmd) = {first} /\ (cmd.unlisted \/ first \in ctx.missing)
        BY <2>7, <3>2 DEF AsOffered, ctx, FirstMissing
      <4>2. /\ GDoc(ctx, cmd) = {} <=> GDoc(ctx, probe) = {}
            /\ GDup(ctx, cmd) = {} <=> GDup(ctx, probe) = {}
        BY <2>2, <2>4, <3>2, <4>1, RequestGuards
      <4>3. QED
        BY <2>4, <2>7, <3>2, <4>2, GuardsMet
    <3>3. QED
      BY <2>3, <3>1, <3>2, GuardsMet DEF UserActions
  <2>8. ASSUME GuardRefusals(ctx, probe) # {}
        PROVE  \/ cmd.action = "REQUEST_INFORMATION" /\ first \in waiting \cup received[c]
               \/ cmd.action = "CLEAR_EXCEPTION" /\ ~(waiting \subseteq received[c])
    <3>1. CASE cmd.action = "CLEAR_EXCEPTION"
      <4>1. GRec(ctx, probe) = {}
        BY <2>4, <3>1 DEF GRec
      <4>2. ctx.status = "AWAITING_INFORMATION" /\ GAck(ctx, probe) # {}
        BY <2>4, <2>8, <3>1, <4>1, GuardsMet
      <4>3. ctx.requested \ ctx.received # {}
        BY <4>2 DEF GAck
      <4>4. QED
        BY <2>1, <3>1, <4>2, <4>3
    <3>2. CASE cmd.action = "REQUEST_INFORMATION"
      <4>1. /\ GDoc(ctx, probe) = {} <=> first \notin ctx.received
            /\ GDup(ctx, probe) = {} <=> first \notin ctx.requested
        BY <2>2, <2>4, <3>2, RequestGuards
      <4>2. QED
        BY <2>1, <2>4, <2>8, <3>2, <4>1, GuardsMet
    <3>3. QED
      BY <2>3, <2>4, <2>8, <3>1, <3>2, GuardsMet DEF UserActions
  <2>9. offer.available /\ AsOffered(c, cmd, first) => EvaluateTransition(ctx, cmd) = {}
    BY <2>5, <2>6, <2>7 DEF AsOffered
  <2>10. offer.reasons \cap TableCodes # {} => EvaluateTransition(ctx, cmd) # {}
    <3>1. {"NO_MISSING_DOCUMENTS"} \cap TableCodes = {}
      BY DEF TableCodes
    <3>2. QED
      BY <2>5, <2>6, <3>1
  <2>11. \/ offer.available \/ offer.reasons # {}
         \/ cmd.action = "REQUEST_INFORMATION" /\ first \in waiting \cup received[c]
         \/ cmd.action = "CLEAR_EXCEPTION" /\ ~(waiting \subseteq received[c])
    BY <2>5, <2>6, <2>8
  <2>12. QED
    BY <2>9, <2>10, <2>11 DEF ctx, offer
<1>2. QED
  BY <1>1, TypeCorrect, PTL

(***************************************************************************)
(* First detections.                                                       *)
(***************************************************************************)
(* A finding carried over says when its rule began to fire: the row it     *)
(* replaced is superseded by the same step, which extends the chain by     *)
(* exactly the evaluation that was the latest; a clearance, which might    *)
(* take superseded rows away, leaves no open one that relies on them.      *)
THEOREM FirstDetectionStaysCarried == Spec => []FirstDetectionCarried
<1> DEFINE Carried(o, p) ==
      \A e \in o : \A v \in e.first..(e.evaluation - 1) :
        \E s \in p : s.rule = e.rule /\ s.evaluation = v /\ s.opened_at = e.opened_at
<1>1. FirstDetectionCarried <=> \A c \in Cases : Carried(open[c], superseded[c])
  BY DEF FirstDetectionCarried
<1>2. FirstDetectionCarried' <=> \A c \in Cases : Carried(open'[c], superseded'[c])
  BY DEF FirstDetectionCarried
<1>3. Init => FirstDetectionCarried
  BY DEF Init, FirstDetectionCarried, SeededExceptions
<1>4. ASSUME TypeOK, OpenAreCurrent, FirstDetectionCarried, [Next]_vars
      PROVE  FirstDetectionCarried'
  <2>1. ASSUME NEW d \in Cases, Execute(d), NEW c \in Cases
        PROVE  Carried(open'[c], superseded'[c])
    <3>1. PICK cmd \in Commands(ExceptionRow), key \in KeyInputs,
               version \in Versions(d), row \in ActionRow :
            Written(d, cmd, key, version, row) /\ Settled(d, cmd, row)
      BY <1>4, <2>1, Execution
    <3>2. \/ UNCHANGED <<open, superseded>>
          \/ /\ cmd.ids = open[d]
             /\ open' = [open EXCEPT ![d] = @ \ cmd.ids]
             /\ superseded' = [superseded EXCEPT ![d] = @ \ cmd.ids]
      BY <3>1, Permitted DEF Written, Settled
    <3>3. \/ open'[c] = open[c] /\ superseded'[c] = superseded[c]
          \/ open'[c] = {}
      BY <1>4, <3>2 DEF TypeOK
    <3>4. Carried(open[c], superseded[c])
      BY <1>1, <1>4
    <3>5. QED
      BY <3>3, <3>4
  <2>2. ASSUME NEW d \in Cases, DetectExceptions(d), NEW c \in Cases
        PROVE  Carried(open'[c], superseded'[c])
    <3>1. PICK findings \in FindingSets(d), t \in ClockReads :
            /\ open' = [open EXCEPT ![d] =
                 (@ \ PriorOpen(d)) \cup {Finding(d, r, t) : r \in findings}]
            /\ superseded' = [superseded EXCEPT ![d] = @ \cup PriorOpen(d)]
      BY <2>2 DEF DetectExceptions
    <3>2. PriorOpen(d) = open[d]
      BY <1>4 DEF PriorOpen, OpenAreCurrent
    <3>3. Carried(open[c], superseded[c])
      BY <1>1, <1>4
    <3>4. CASE c = d
      <4>1. open'[c] = {Finding(c, r, t) : r \in findings}
        BY <1>4, <3>1, <3>2, <3>4 DEF TypeOK
      <4>2. superseded'[c] = superseded[c] \cup open[c]
        BY <1>4, <3>1, <3>2, <3>4 DEF TypeOK
      <4>3. evaluations[c] \in Nat /\ open[c] \in SUBSET ExceptionRow
        BY <1>4 DEF TypeOK
      <4>4. ASSUME NEW r \in findings,
                   NEW v \in Finding(c, r, t).first..(Finding(c, r, t).evaluation - 1)
            PROVE  \E s \in superseded'[c] :
                     /\ s.rule = Finding(c, r, t).rule
                     /\ s.evaluation = v
                     /\ s.opened_at = Finding(c, r, t).opened_at
        <5> DEFINE prior == {e \in PriorOpen(c) : e.rule = r}
                   old   == CHOOSE e \in prior : TRUE
        <5>1. /\ Finding(c, r, t).rule = r
              /\ Finding(c, r, t).evaluation = evaluations[c] + 1
              /\ Finding(c, r, t).first =
                   IF prior = {} THEN evaluations[c] + 1 ELSE old.first
              /\ prior # {} => Finding(c, r, t).opened_at = old.opened_at
          BY DEF Finding
        <5>2. prior # {} => old \in prior
          OBVIOUS
        <5>3. prior \subseteq {e \in open[c] : e.rule = r}
          BY <3>2, <3>4
        <5>4. CASE prior = {}
          BY <4>3, <4>4, <5>1, <5>4
        <5>5. CASE prior # {}
          <6>1. /\ old \in open[c] /\ old.rule = r
                /\ old.evaluation = evaluations[c]
            BY <1>4, <5>2, <5>3, <5>5 DEF OpenAreCurrent
          <6>2. old.first \in Nat
            BY <4>3, <6>1 DEF ExceptionRow
          <6> HIDE DEF old, prior
          <6>3. v \in old.first..evaluations[c]
            BY <4>3, <4>4, <5>1, <5>5, <6>2
          <6>4. CASE v = evaluations[c]
            BY <4>2, <5>1, <5>5, <6>1, <6>4
          <6>5. CASE v # evaluations[c]
            <7>1. v \in old.first..(old.evaluation - 1)
              BY <4>3, <6>1, <6>2, <6>3, <6>5
            <7>2. PICK s \in superseded[c] :
                    s.rule = old.rule /\ s.evaluation = v /\ s.opened_at = old.opened_at
              BY <3>3, <6>1, <7>1
            <7>3. QED
              BY <4>2, <5>1, <5>5, <6>1, <7>2
          <6>6. QED
            BY <6>4, <6>5
        <5>6. QED
          BY <5>4, <5>5
      <4>5. QED
        BY <4>1, <4>4
    <3>5. CASE c # d
      <4>1. open'[c] = open[c] /\ superseded'[c] = superseded[c]
        BY <1>4, <3>1, <3>5 DEF TypeOK
      <4>2. QED
        BY <3>3, <4>1
    <3>6. QED
      BY <3>4, <3>5
  <2>3. CASE UNCHANGED <<open, superseded>>
    BY <1>1, <1>2, <1>4, <2>3
  <2> HIDE DEF Carried
  <2>4. QED
    BY <1>2, <1>4, <2>1, <2>2, <2>3
       DEF Next, Observe, ReceiveDocument, DeactivateUser, vars
<1>5. QED
  BY <1>3, <1>4, TypeCorrect, OpenStayCurrent, PTL DEF Spec
=============================================================================
