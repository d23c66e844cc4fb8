-------------------------- MODULE CaseWorkflowProofs --------------------------
(***************************************************************************)
(* Proofs about CaseWorkflow, for every set of cases, rules, documents,    *)
(* users and keys, every clock and every bound.                            *)
(***************************************************************************)
EXTENDS CaseWorkflow, FiniteSetTheorems, TLAPS

(***************************************************************************)
(* Priority.                                                               *)
(***************************************************************************)
(* One rung up, where there is one: the ceiling absorbs the rest.          *)
LEMMA EscalateClimbs ==
  ASSUME NEW n \in Nat, NEW applies \in BOOLEAN
  PROVE  Escalate(Capped(n), applies) = Capped(n + Rung(applies))
BY DEF Escalate, Capped, Rung, Critical

(* A nonempty set of severities has a highest one.                         *)
LEMMA HighestSeverity ==
  ASSUME NEW S \in SUBSET Ladder, S # {}
  PROVE  \E s \in S : \A t \in S : t <= s
<1>1. CASE 3 \in S
  BY <1>1 DEF Ladder, Low, Critical
<1>2. CASE 3 \notin S /\ 2 \in S
  BY <1>2 DEF Ladder, Low, Critical
<1>3. CASE 3 \notin S /\ 2 \notin S /\ 1 \in S
  BY <1>3 DEF Ladder, Low, Critical
<1>4. CASE 3 \notin S /\ 2 \notin S /\ 1 \notin S
  <2>1. \A s \in S : s = 0
    BY <1>4 DEF Ladder, Low, Critical
  <2>2. QED
    BY <2>1
<1>5. QED
  BY <1>1, <1>2, <1>3, <1>4

(* derivePriority is the highest severity and a rung for each factor that  *)
(* applies, under the ceiling, in whatever order they are applied.         *)
LEMMA PriorityIsSum ==
  ASSUME NEW S \in SUBSET Ladder, NEW highValue \in BOOLEAN,
         NEW count \in Nat, NEW aged \in BOOLEAN,
         NEW top \in S, \A s \in S : s <= top
  PROVE  DerivePriority(S, highValue, count, aged) =
           Capped(top + Rung(highValue) + Rung(count >= MultiplicityThreshold) + Rung(aged))
<1> DEFINE base     == CHOOSE s \in S : \A t \in S : t <= s
           many     == count >= MultiplicityThreshold
           byValue  == Escalate(base, highValue)
           byNumber == Escalate(byValue, many)
<1>1. base = top
  <2>1. PICK b : b = base
    OBVIOUS
  <2>2. b \in S /\ \A t \in S : t <= b
    BY <2>1
  <2>3. b <= top /\ top <= b
    BY <2>2
  <2>4. QED
    BY <2>1, <2>2, <2>3 DEF Ladder, Low, Critical
<1>2. DerivePriority(S, highValue, count, aged) = Escalate(byNumber, aged)
  BY DEF DerivePriority
<1>3. many \in BOOLEAN
  OBVIOUS
<1> HIDE DEF base, many
<1>4. top \in Nat /\ Capped(top) = top
  BY DEF Ladder, Low, Critical, Capped
<1>5. byValue = Capped(top + Rung(highValue))
  BY <1>1, <1>4, EscalateClimbs
<1>6. top + Rung(highValue) \in Nat /\ top + Rung(highValue) + Rung(many) \in Nat
  BY <1>4 DEF Rung
<1> HIDE DEF byValue
<1>7. byNumber = Capped(top + Rung(highValue) + Rung(many))
  BY <1>3, <1>5, <1>6, EscalateClimbs
<1> HIDE DEF byNumber
<1>8. Escalate(byNumber, aged) = Capped(top + Rung(highValue) + Rung(many) + Rung(aged))
  BY <1>6, <1>7, EscalateClimbs
<1>9. QED
  BY <1>2, <1>8 DEF many

(* It stays on the ladder.                                                 *)
LEMMA PriorityTyped ==
  ASSUME NEW S \in SUBSET Ladder, NEW highValue \in BOOLEAN,
         NEW count \in Nat, NEW aged \in BOOLEAN
  PROVE  DerivePriority(S, highValue, count, aged) \in Ladder
<1>1. CASE S = {}
  BY <1>1 DEF DerivePriority, Ladder, Low, Critical
<1>2. CASE S # {}
  <2>1. PICK top \in S : \A s \in S : s <= top
    BY <1>2, HighestSeverity
  <2> DEFINE n == top + Rung(highValue) + Rung(count >= MultiplicityThreshold) + Rung(aged)
  <2>2. DerivePriority(S, highValue, count, aged) = Capped(n)
    BY <2>1, PriorityIsSum
  <2>3. n \in Nat
    BY DEF Rung, Ladder, Low, Critical
  <2> HIDE DEF n
  <2>4. QED
    BY <2>2, <2>3 DEF Capped, Ladder, Low, Critical
<1>3. QED
  BY <1>1, <1>2

-----------------------------------------------------------------------------
(***************************************************************************)
(* Type correctness.                                                       *)
(***************************************************************************)
(* The exceptions of one evaluation are as finite as the rules.            *)
LEMMA FindingsFinite ==
  ASSUME NEW F \in SUBSET Rules, NEW T, NEW f \in [F -> T]
  PROVE  IsFiniteSet({f[r] : r \in F})
<1>1. IsFiniteSet(F)
  BY RulesAssumption, FS_Subset
<1>2. f \in Surjection(F, {f[r] : r \in F})
  BY DEF Surjection
<1>3. QED
  BY <1>1, <1>2, FS_Surjection

(* The priority p answers to the findings of the case.                     *)
Explained(c, found, p) ==
  \A e \in found :
    (\A f \in found : SeverityOf[f.rule] <= SeverityOf[e.rule]) =>
      \E aged \in BOOLEAN :
        p = Capped(SeverityOf[e.rule] + Rung(c \in HighValue)
                     + Rung(Cardinality(found) >= MultiplicityThreshold) + Rung(aged))

(* The priority detection projects is a rung of the ladder, and answers to *)
(* what was found.                                                         *)
LEMMA ProjectedPriorityTyped ==
  ASSUME NEW c \in Cases, NEW found \in SUBSET ExceptionRow,
         NEW t \in Nat, IsFiniteSet(found)
  PROVE  /\ ProjectedPriority(c, found, t) \in Ladder
         /\ Explained(c, found, ProjectedPriority(c, found, t))
<1> DEFINE S == {SeverityOf[e.rule] : e \in found}
           n == Cardinality(found)
<1>1. S \in SUBSET Ladder
  BY RulesAssumption DEF ExceptionRow
<1>2. n \in Nat
  BY FS_CardinalityType
<1> DEFINE high == c \in HighValue
           old  == \E e \in found : t - e.opened_at > AgeLimit
<1>3. high \in BOOLEAN /\ old \in BOOLEAN
  OBVIOUS
<1>4. ProjectedPriority(c, found, t) = DerivePriority(S, high, n, old)
  BY Zenon DEF ProjectedPriority
<1>5. ASSUME NEW e \in found, \A f \in found : SeverityOf[f.rule] <= SeverityOf[e.rule]
      PROVE  \E aged \in BOOLEAN :
               ProjectedPriority(c, found, t) =
                 Capped(SeverityOf[e.rule] + Rung(high) + Rung(n >= MultiplicityThreshold)
                          + Rung(aged))
  <2> DEFINE top == SeverityOf[e.rule]
  <2>1. top \in S /\ \A s \in S : s <= top
    BY <1>5
  <2> HIDE DEF S, n, high, old, top
  <2>2. DerivePriority(S, high, n, old) =
          Capped(top + Rung(high) + Rung(n >= MultiplicityThreshold) + Rung(old))
    BY <1>1, <1>2, <1>3, <2>1, PriorityIsSum
  <2>3. QED
    BY <1>3, <1>4, <2>2 DEF top
<1>6. ProjectedPriority(c, found, t) \in Ladder
  <2> HIDE DEF S, n, high, old
  <2>1. QED
    BY <1>1, <1>2, <1>3, <1>4, PriorityTyped
<1>7. QED
  BY <1>5, <1>6 DEF Explained

(* What an accepted command writes to the history, the keys and the clock. *)
LEMMA LogTyped ==
  ASSUME TypeOK, NEW c \in Cases, NEW row \in ActionRow, NEW version,
         Log(c, row, version)
  PROVE  /\ evaluations' \in [Cases -> Nat]
         /\ actions' \in [Cases -> Seq(ActionRow)]
         /\ keys' \in [Cases -> SUBSET KeyRow]
         /\ received' \in [Cases -> SUBSET DocTypes]
         /\ active' \subseteq Users
         /\ clock' \in Nat
         /\ seen' \in [Cases -> [version : Nat, decisions : Nat, evaluation : Nat]]
         /\ matched' \in BOOLEAN
<1>1. KeyRecord(c, row.key) \in SUBSET KeyRow
  BY DEF KeyRecord, KeyRow, TypeOK
<1>2. keys' \in [Cases -> SUBSET KeyRow]
  BY <1>1 DEF Log, TypeOK
<1>3. actions' \in [Cases -> Seq(ActionRow)]
  BY DEF Log, TypeOK
<1>4. clock' \in Nat /\ matched' \in BOOLEAN
  BY DEF Log, ActionRow
<1>5. QED
  BY <1>2, <1>3, <1>4 DEF Log, TypeOK

(* The action row and the case row every accepted command writes.          *)
LEMMA TransitionTyped ==
  ASSUME TypeOK, NEW c \in Cases, NEW cmd \in Commands(ExceptionRow),
         NEW key \in KeyInputs, NEW t \in ClockReads
  PROVE  /\ NewAction(c, cmd, key, t) \in ActionRow
         /\ \A row \in ActionRow : Transitioned(c, row) \in CaseRow
<1>1. cmd.action \in UserActions
  BY DEF Commands, RequestCommands, ReviewCommands, ClearCommands,
         HoldCommands, EscalateCommands, UserActions
<1>2. Destination[cmd.action] \in Statuses
  BY <1>1 DEF Destination, UserActions, Statuses
<1>3. t \in Nat
  BY BoundsAssumption DEF ClockReads
<1>4. NewAction(c, cmd, key, t) \in ActionRow
  BY <1>1, <1>2, <1>3 DEF NewAction, ActionRow, TypeOK, CaseRow
<1>5. ASSUME NEW row \in ActionRow PROVE Transitioned(c, row) \in CaseRow
  <2>1. Len(actions[c]) + 1 \in Nat
    BY DEF TypeOK
  <2>2. case[c] \in CaseRow
    BY DEF TypeOK
  <2>3. row.after \in Statuses /\ row.at \in Nat
    BY DEF ActionRow
  <2>4. QED
    BY <2>1, <2>2, <2>3 DEF Transitioned, CaseRow
<1>6. QED
  BY <1>4, <1>5

(* The findings of a re-evaluation are exception rows of the new           *)
(* evaluation, one of each rule that fired, and finitely many.             *)
LEMMA FindingsTyped ==
  ASSUME TypeOK, NEW c \in Cases, NEW findings \in FindingSets(c), NEW t \in ClockReads
  PROVE  /\ {Finding(c, r, t) : r \in findings} \in SUBSET ExceptionRow
         /\ IsFiniteSet({Finding(c, r, t) : r \in findings})
         /\ \A e \in {Finding(c, r, t) : r \in findings} :
              e.case = c /\ e.evaluation = evaluations[c] + 1
<1>1. t \in Nat
  BY BoundsAssumption DEF ClockReads
<1>2. findings \in SUBSET Rules
  BY DEF FindingSets
<1>3. ASSUME NEW r \in findings
      PROVE  /\ Finding(c, r, t) \in ExceptionRow
             /\ Finding(c, r, t).case = c
             /\ Finding(c, r, t).evaluation = evaluations[c] + 1
  <2> DEFINE prior == {e \in PriorOpen(c) : e.rule = r}
             old   == CHOOSE e \in prior : TRUE
  <2>1. evaluations[c] + 1 \in Nat /\ r \in Rules
    BY <1>2 DEF TypeOK
  <2>2. prior # {} => old.first \in Nat /\ old.opened_at \in Nat
    <3>1. prior # {} => old \in prior
      OBVIOUS
    <3>2. prior \subseteq ExceptionRow
      BY DEF PriorOpen, TypeOK
    <3>3. QED
      BY <3>1, <3>2 DEF ExceptionRow
  <2>3. MissingOf[r] \ received[c] \in SUBSET DocTypes
    BY <2>1, RulesAssumption
  <2> HIDE DEF old, prior
  <2>4. Finding(c, r, t) =
          [case |-> c, evaluation |-> evaluations[c] + 1, rule |-> r,
           first |-> IF prior = {} THEN evaluations[c] + 1 ELSE old.first,
           opened_at |-> IF prior = {} THEN t ELSE old.opened_at,
           missing |-> MissingOf[r] \ received[c]]
    BY DEF Finding, old, prior
  <2>5. QED
    BY <1>1, <2>1, <2>2, <2>3, <2>4 DEF ExceptionRow
<1> DEFINE f == [r \in findings |-> Finding(c, r, t)]
<1>4. {Finding(c, r, t) : r \in findings} = {f[r] : r \in findings}
  OBVIOUS
<1>5. f \in [findings -> ExceptionRow]
  BY <1>3
<1>6. IsFiniteSet({f[r] : r \in findings})
  BY ONLY <1>2, <1>5, FindingsFinite
<1>7. QED
  BY <1>3, <1>4, <1>6

(* A fixture's exceptions are finitely many and have their types.          *)
LEMMA SeededTyped ==
  ASSUME NEW c \in Cases, NEW F \in SUBSET Rules
  PROVE  /\ SeededExceptions(c, F) \in SUBSET ExceptionRow
         /\ IsFiniteSet(SeededExceptions(c, F))
<1> DEFINE seed(r) == [case |-> c, evaluation |-> 1, rule |-> r, first |-> 1,
                       opened_at |-> 0, missing |-> MissingOf[r]]
           f == [r \in F |-> seed(r)]
<1>1. \A r \in F : seed(r) \in ExceptionRow
  BY RulesAssumption DEF ExceptionRow
<1>2. SeededExceptions(c, F) = {f[r] : r \in F}
  BY DEF SeededExceptions
<1>3. f \in [F -> ExceptionRow]
  BY <1>1
<1>4. IsFiniteSet({f[r] : r \in F})
  BY ONLY <1>3, F \in SUBSET Rules, FindingsFinite
<1>5. QED
  BY <1>1, <1>2, <1>4

(* The initial rows have their types.                                      *)
LEMMA InitTyped == Init => TypeOK
<1> SUFFICES ASSUME Init PROVE TypeOK
  OBVIOUS
<1>1. PICK status \in [Cases -> SeedStatuses], findings \in [Cases -> SUBSET Rules] :
        /\ open = [c \in Cases |-> SeededExceptions(c, findings[c])]
        /\ case = [c \in Cases |-> SeededCase(c, status[c], SeededExceptions(c, findings[c]))]
  BY DEF Init
<1>2. ASSUME NEW c \in Cases
      PROVE  /\ SeededExceptions(c, findings[c]) \in SUBSET ExceptionRow
             /\ IsFiniteSet(SeededExceptions(c, findings[c]))
  BY SeededTyped
<1>3. ASSUME NEW c \in Cases
      PROVE  SeededCase(c, status[c], SeededExceptions(c, findings[c])) \in CaseRow
  <2> DEFINE found == SeededExceptions(c, findings[c])
  <2>1. found \in SUBSET ExceptionRow /\ IsFiniteSet(found)
    BY <1>2
  <2> HIDE DEF found
  <2>2. Cardinality(found) \in Nat
    BY <2>1, FS_CardinalityType
  <2>3. ProjectedPriority(c, found, 0) \in Ladder
    BY <2>1, ProjectedPriorityTyped
  <2>4. status[c] \in Statuses
    BY SurroundingsAssumption
  <2>5. SeededCase(c, status[c], found) \in CaseRow
    BY <2>2, <2>3, <2>4, ActorAssumption DEF SeededCase, CaseRow
  <2>6. QED
    BY <2>5 DEF found
<1>4. case \in [Cases -> CaseRow]
  BY <1>1, <1>3
<1>5. open \in [Cases -> SUBSET ExceptionRow]
  BY <1>1, <1>2
<1>6. actions \in [Cases -> Seq(ActionRow)]
  <2>1. <<>> \in Seq(ActionRow)
    OBVIOUS
  <2>2. QED
    BY <2>1 DEF Init
<1>7. evaluations \in [Cases -> Nat] /\ keys \in [Cases -> SUBSET KeyRow]
  BY DEF Init
<1>8. /\ cleared \in [Cases -> SUBSET ExceptionRow]
      /\ superseded \in [Cases -> SUBSET ExceptionRow]
      /\ received \in [Cases -> SUBSET DocTypes]
  BY DEF Init
<1>9. /\ active \subseteq Users
      /\ clock \in Nat
      /\ seen \in [Cases -> [version : Nat, decisions : Nat, evaluation : Nat]]
      /\ matched \in BOOLEAN
  <2>1. [version |-> 0, decisions |-> 0, evaluation |-> 1] \in [version : Nat, decisions : Nat, evaluation : Nat]
    OBVIOUS
  <2>2. /\ active = Users
        /\ clock = 0
        /\ seen = [c \in Cases |-> [version |-> 0, decisions |-> 0, evaluation |-> 1]]
        /\ matched = FALSE
    BY DEF Init
  <2>3. QED
    BY <2>1, <2>2
<1>10. QED
  BY <1>4, <1>5, <1>6, <1>7, <1>8, <1>9 DEF TypeOK

(* Every accepted command keeps the types.                                 *)
LEMMA ExecuteTyped ==
  ASSUME TypeOK, NEW c \in Cases, Execute(c)
  PROVE  TypeOK'
<1>1. CASE RequestInformation(c)
  <2> DEFINE row(cmd, key, t) ==
        [NewAction(c, cmd, key, t) EXCEPT !.docs = NormalizedTypes(cmd)]
  <2>1. PICK cmd \in RequestCommands, key \in KeyInputs, version \in Versions(c),
             t \in ClockReads :
          /\ case' = [case EXCEPT ![c] = Transitioned(c, row(cmd, key, t))]
          /\ Log(c, row(cmd, key, t), version)
          /\ UNCHANGED <<open, cleared, superseded>>
    BY <1>1 DEF RequestInformation
  <2>2. cmd \in Commands(ExceptionRow)
    BY DEF Commands
  <2>3. NormalizedTypes(cmd) \in SUBSET DocTypes
    BY TypesAssumption DEF NormalizedTypes, RequestCommands
  <2>4. row(cmd, key, t) \in ActionRow
    BY <2>2, <2>3, TransitionTyped DEF ActionRow
  <2> HIDE DEF row
  <2>5. Transitioned(c, row(cmd, key, t)) \in CaseRow
    BY <2>2, <2>4, TransitionTyped
  <2>6. QED
    BY <2>1, <2>2, <2>4, <2>5, LogTyped DEF TypeOK
<1>2. CASE SendForSpecialistReview(c)
  <2> DEFINE row(cmd, key, t) ==
        [NewAction(c, cmd, key, t) EXCEPT !.user = cmd.assignee]
  <2>1. PICK cmd \in ReviewCommands, key \in KeyInputs, version \in Versions(c),
             t \in ClockReads :
          /\ case' = [case EXCEPT ![c] =
               [Transitioned(c, row(cmd, key, t)) EXCEPT
                  !.assigned_to = Coalesce(cmd.assignee, @)]]
          /\ Log(c, row(cmd, key, t), version)
          /\ UNCHANGED <<open, cleared, superseded>>
    BY <1>2 DEF SendForSpecialistReview
  <2>2. cmd \in Commands(ExceptionRow) /\ cmd.assignee \in Users \cup {Nobody}
    BY DEF Commands, ReviewCommands
  <2>3. row(cmd, key, t) \in ActionRow
    BY <2>2, TransitionTyped DEF ActionRow
  <2> HIDE DEF row
  <2>4. Transitioned(c, row(cmd, key, t)) \in CaseRow
    BY <2>2, <2>3, TransitionTyped
  <2>5. case' \in [Cases -> CaseRow]
    BY <2>1, <2>2, <2>4 DEF TypeOK, CaseRow, Coalesce
  <2>6. QED
    BY <2>1, <2>2, <2>3, <2>5, LogTyped DEF TypeOK
<1>3. CASE PlaceOnHold(c)
  <2>1. PICK cmd \in HoldCommands, key \in KeyInputs, version \in Versions(c),
             t \in ClockReads :
          /\ case' = [case EXCEPT ![c] = Transitioned(c, NewAction(c, cmd, key, t))]
          /\ Log(c, NewAction(c, cmd, key, t), version)
          /\ UNCHANGED <<open, cleared, superseded>>
    BY <1>3 DEF PlaceOnHold
  <2>2. cmd \in Commands(ExceptionRow)
    BY DEF Commands
  <2>3. NewAction(c, cmd, key, t) \in ActionRow
    BY <2>2, TransitionTyped
  <2>4. Transitioned(c, NewAction(c, cmd, key, t)) \in CaseRow
    BY <2>2, <2>3, TransitionTyped
  <2>5. QED
    BY <2>1, <2>2, <2>3, <2>4, LogTyped DEF TypeOK
<1>4. CASE EscalateToSupervisor(c)
  <2> DEFINE row(cmd, key, t) ==
        [NewAction(c, cmd, key, t) EXCEPT !.user = cmd.target]
  <2>1. PICK cmd \in EscalateCommands, key \in KeyInputs, version \in Versions(c),
             t \in ClockReads :
          /\ case' = [case EXCEPT ![c] =
               [Transitioned(c, row(cmd, key, t)) EXCEPT
                  !.escalated_to = Coalesce(cmd.target, @)]]
          /\ Log(c, row(cmd, key, t), version)
          /\ UNCHANGED <<open, cleared, superseded>>
    BY <1>4 DEF EscalateToSupervisor
  <2>2. cmd \in Commands(ExceptionRow) /\ cmd.target \in Users \cup {Nobody}
    BY DEF Commands, EscalateCommands
  <2>3. row(cmd, key, t) \in ActionRow
    BY <2>2, TransitionTyped DEF ActionRow
  <2> HIDE DEF row
  <2>4. Transitioned(c, row(cmd, key, t)) \in CaseRow
    BY <2>2, <2>3, TransitionTyped
  <2>5. case' \in [Cases -> CaseRow]
    BY <2>1, <2>2, <2>4 DEF TypeOK, CaseRow, Coalesce
  <2>6. QED
    BY <2>1, <2>2, <2>3, <2>5, LogTyped DEF TypeOK
<1>5. CASE ClearException(c)
  <2> DEFINE row(cmd, key, t) ==
        [NewAction(c, cmd, key, t) EXCEPT !.ids = cmd.ids, !.ack = cmd.ack]
  <2>1. PICK cmd \in ClearCommands(ExceptionsOf(c)), key \in KeyInputs,
             version \in Versions(c), t \in ClockReads :
          /\ case' = [case EXCEPT ![c] =
               ClearedColumns(Transitioned(c, row(cmd, key, t)))]
          /\ open' = [open EXCEPT ![c] = @ \ cmd.ids]
          /\ superseded' = [superseded EXCEPT ![c] = @ \ cmd.ids]
          /\ cleared' = [cleared EXCEPT ![c] = @ \cup cmd.ids]
          /\ Log(c, row(cmd, key, t), version)
    BY <1>5 DEF ClearException
  <2>2. ExceptionsOf(c) \in SUBSET ExceptionRow
    BY DEF ExceptionsOf, TypeOK
  <2>3. cmd \in ClearCommands(ExceptionRow)
    BY <2>2 DEF ClearCommands
  <2>4. /\ cmd \in Commands(ExceptionRow)
        /\ cmd.ids \in SUBSET ExceptionRow /\ cmd.ack \in BOOLEAN
    BY <2>3 DEF Commands, ClearCommands
  <2>5. row(cmd, key, t) \in ActionRow
    <3>1. NewAction(c, cmd, key, t) \in ActionRow
      BY <2>4, TransitionTyped
    <3>2. QED
      BY ONLY <2>4, <3>1 DEF ActionRow
  <2> HIDE DEF row
  <2>6. Transitioned(c, row(cmd, key, t)) \in CaseRow
    BY <2>4, <2>5, TransitionTyped
  <2>7. case' \in [Cases -> CaseRow]
    BY <2>1, <2>6, ActorAssumption DEF TypeOK, CaseRow, ClearedColumns
  <2>8. QED
    BY <2>1, <2>4, <2>5, <2>7, LogTyped DEF TypeOK
<1>6. QED
  BY <1>1, <1>2, <1>3, <1>4, <1>5 DEF Execute

(* A re-evaluation keeps the types.                                        *)
LEMMA DetectTyped ==
  ASSUME TypeOK, NEW c \in Cases, DetectExceptions(c)
  PROVE  TypeOK'
<1> DEFINE found(findings, t) == {Finding(c, r, t) : r \in findings}
<1>1. PICK findings \in FindingSets(c), t \in ClockReads :
        /\ evaluations' = [evaluations EXCEPT ![c] = @ + 1]
        /\ open' = [open EXCEPT ![c] = (@ \ PriorOpen(c)) \cup found(findings, t)]
        /\ superseded' = [superseded EXCEPT ![c] = @ \cup PriorOpen(c)]
        /\ case' = [case EXCEPT ![c] = Projected(c, found(findings, t), t)]
        /\ clock' = t
        /\ UNCHANGED <<cleared, actions, keys, received, active, seen, matched>>
  BY DEF DetectExceptions
<1>2. found(findings, t) \in SUBSET ExceptionRow /\ IsFiniteSet(found(findings, t))
  BY FindingsTyped
<1> HIDE DEF found
<1>3. t \in Nat
  BY BoundsAssumption DEF ClockReads
<1>4. PriorOpen(c) \in SUBSET ExceptionRow
  BY DEF PriorOpen, TypeOK
<1>5. Projected(c, found(findings, t), t) \in CaseRow
  <2>1. Cardinality(found(findings, t)) \in Nat
    BY <1>2, FS_CardinalityType
  <2>2. ProjectedPriority(c, found(findings, t), t) \in Ladder
    BY <1>2, <1>3, ProjectedPriorityTyped
  <2>3. case[c] \in CaseRow /\ evaluations[c] + 1 \in Nat
    BY DEF TypeOK
  <2> DEFINE n == Cardinality(found(findings, t))
             p == ProjectedPriority(c, found(findings, t), t)
  <2>4. Projected(c, found(findings, t), t) =
          [case[c] EXCEPT !.priority = p, !.queued = n > 0, !.open_count = n,
                          !.evaluation = evaluations[c] + 1, !.updated_at = t]
    BY DEF Projected
  <2>5. (n > 0) \in BOOLEAN
    OBVIOUS
  <2> HIDE DEF n, p
  <2>6. QED
    BY ONLY <1>3, <2>1, <2>2, <2>3, <2>4, <2>5 DEF CaseRow, n, p
<1>6. QED
  BY <1>1, <1>2, <1>3, <1>4, <1>5 DEF TypeOK

(* Every row keeps its shape, for every instance of the constants.         *)
THEOREM TypeCorrect == Spec => []TypeOK
<1>1. Init => TypeOK
  BY InitTyped
<1>2. ASSUME TypeOK, [Next]_vars PROVE TypeOK'
  <2>1. ASSUME NEW c \in Cases, Execute(c) PROVE TypeOK'
    BY <1>2, <2>1, ExecuteTyped
  <2>2. ASSUME NEW c \in Cases, DetectExceptions(c) PROVE TypeOK'
    BY <1>2, <2>2, DetectTyped
  <2>3. ASSUME NEW c \in Cases, Observe(c) PROVE TypeOK'
    <3>1. Observation(c) \in [version : Nat, decisions : Nat, evaluation : Nat]
      BY <1>2 DEF Observation, TypeOK, CaseRow
    <3>2. QED
      BY <1>2, <2>3, <3>1 DEF Observe, TypeOK
  <2>4. ASSUME NEW c \in Cases, ReceiveDocument(c) PROVE TypeOK'
    BY <1>2, <2>4, SurroundingsAssumption DEF ReceiveDocument, TypeOK
  <2>5. CASE DeactivateUser
    BY <1>2, <2>5 DEF DeactivateUser, TypeOK
  <2>6. CASE UNCHANGED vars
    BY <1>2, <2>6 DEF vars, TypeOK
  <2>7. QED
    BY <1>2, <2>1, <2>2, <2>3, <2>4, <2>5, <2>6 DEF Next
<1>3. QED
  BY <1>1, <1>2, PTL DEF Spec

-----------------------------------------------------------------------------
(***************************************************************************)
(* What the five actions have in common.                                   *)
(***************************************************************************)
(* What the command asks for.                                              *)
Asked(cmd) == IF cmd.action = "REQUEST_INFORMATION" THEN NormalizedTypes(cmd) ELSE {}

(* The accepted command cmd of case c, which wrote the action row.         *)
Written(c, cmd, key, version, row) ==
  /\ Accepted(c, cmd, key, version)
  /\ row.action = cmd.action
  /\ row.before = case[c].status
  /\ row.after = Destination[cmd.action]
  /\ row.key = key
  /\ row.evaluation = case[c].evaluation
  /\ row.at \in ClockReads
  /\ row.docs = Asked(cmd)
  /\ cmd.action = "CLEAR_EXCEPTION" => row.ack = cmd.ack
  /\ Log(c, row, version)

(* What it wrote to the case row.                                          *)
Moved(c, row) ==
  /\ case' = [case EXCEPT ![c] = case'[c]]
  /\ case'[c].status = row.after
  /\ case'[c].updated_at = row.at
  /\ case'[c].last_action = Len(actions[c]) + 1
  /\ case'[c].evaluation = case[c].evaluation
  /\ case'[c].priority = case[c].priority

(* What it wrote to the exceptions and the columns that count them.        *)
Settled(c, cmd, row) ==
  IF cmd.action = "CLEAR_EXCEPTION"
  THEN /\ row.ids = cmd.ids
       /\ open' = [open EXCEPT ![c] = @ \ cmd.ids]
       /\ superseded' = [superseded EXCEPT ![c] = @ \ cmd.ids]
       /\ cleared' = [cleared EXCEPT ![c] = @ \cup cmd.ids]
       /\ case'[c].open_count = 0
       /\ case'[c].queued = FALSE
  ELSE /\ row.ids = {}
       /\ UNCHANGED <<open, cleared, superseded>>
       /\ case'[c].open_count = case[c].open_count
       /\ case'[c].queued = case[c].queued

(* The columns Transitioned sets and those it leaves alone.                *)
LEMMA TransitionedColumns ==
  ASSUME TypeOK, NEW c \in Cases, NEW row \in ActionRow
  PROVE  LET r == Transitioned(c, row) IN
         /\ r.status = row.after
         /\ r.updated_at = row.at
         /\ r.last_action = Len(actions[c]) + 1
         /\ r.evaluation = case[c].evaluation
         /\ r.priority = case[c].priority
         /\ r.open_count = case[c].open_count
         /\ r.queued = case[c].queued
BY DEF Transitioned, TypeOK, CaseRow

(* The fields NewAction sets.                                              *)
LEMMA NewActionFields ==
  ASSUME NEW c, NEW cmd, NEW key, NEW t
  PROVE  LET row == NewAction(c, cmd, key, t) IN
         /\ row.action = cmd.action
         /\ row.before = case[c].status
         /\ row.after = Destination[cmd.action]
         /\ row.key = key
         /\ row.evaluation = case[c].evaluation
         /\ row.at = t
         /\ row.ids = {}
         /\ row.docs = {}
BY DEF NewAction

(* Every action is such a command: it writes one action row, moves the     *)
(* case and settles exceptions exactly when it is a clearance.             *)
LEMMA Execution ==
  ASSUME TypeOK, NEW c \in Cases, Execute(c)
  PROVE  \E cmd \in Commands(ExceptionRow), key \in KeyInputs,
            version \in Versions(c), row \in ActionRow :
           /\ Written(c, cmd, key, version, row)
           /\ Moved(c, row)
           /\ Settled(c, cmd, row)
<1>1. CASE RequestInformation(c)
  <2> DEFINE row(cmd, key, t) ==
        [NewAction(c, cmd, key, t) EXCEPT !.docs = NormalizedTypes(cmd)]
  <2>1. PICK cmd \in RequestCommands, key \in KeyInputs, version \in Versions(c),
             t \in ClockReads :
          /\ Accepted(c, cmd, key, version)
          /\ case' = [case EXCEPT ![c] = Transitioned(c, row(cmd, key, t))]
          /\ Log(c, row(cmd, key, t), version)
          /\ UNCHANGED <<open, cleared, superseded>>
    BY <1>1 DEF RequestInformation
  <2>2. cmd \in Commands(ExceptionRow) /\ cmd.action = "REQUEST_INFORMATION"
    BY DEF Commands, RequestCommands
  <2>3. NormalizedTypes(cmd) \in SUBSET DocTypes
    BY TypesAssumption DEF NormalizedTypes, RequestCommands
  <2>4. NewAction(c, cmd, key, t) \in ActionRow
    BY <2>2, TransitionTyped
  <2>5. row(cmd, key, t) \in ActionRow
    BY <2>3, <2>4 DEF ActionRow
  <2>6. /\ row(cmd, key, t).action = cmd.action
        /\ row(cmd, key, t).before = case[c].status
        /\ row(cmd, key, t).after = Destination[cmd.action]
        /\ row(cmd, key, t).key = key
        /\ row(cmd, key, t).evaluation = case[c].evaluation
        /\ row(cmd, key, t).at = t
        /\ row(cmd, key, t).ids = {}
        /\ row(cmd, key, t).docs = NormalizedTypes(cmd)
    BY <2>4, NewActionFields DEF ActionRow
  <2> HIDE DEF row
  <2>7. Written(c, cmd, key, version, row(cmd, key, t))
    BY <2>1, <2>2, <2>6 DEF Written, Asked
  <2>8. case'[c] = Transitioned(c, row(cmd, key, t))
    BY <2>1 DEF TypeOK
  <2>9. Moved(c, row(cmd, key, t))
    BY <2>1, <2>5, <2>8, TransitionedColumns DEF Moved
  <2>10. Settled(c, cmd, row(cmd, key, t))
    BY <2>1, <2>2, <2>5, <2>6, <2>8, TransitionedColumns DEF Settled
  <2>11. QED
    BY <2>2, <2>5, <2>7, <2>9, <2>10
<1>2. CASE SendForSpecialistReview(c)
  <2> DEFINE row(cmd, key, t) ==
        [NewAction(c, cmd, key, t) EXCEPT !.user = cmd.assignee]
  <2>1. PICK cmd \in ReviewCommands, key \in KeyInputs, version \in Versions(c),
             t \in ClockReads :
          /\ Accepted(c, cmd, key, version)
          /\ case' = [case EXCEPT ![c] =
               [Transitioned(c, row(cmd, key, t)) EXCEPT
                  !.assigned_to = Coalesce(cmd.assignee, @)]]
          /\ Log(c, row(cmd, key, t), version)
          /\ UNCHANGED <<open, cleared, superseded>>
    BY <1>2 DEF SendForSpecialistReview
  <2>2. /\ cmd \in Commands(ExceptionRow) /\ cmd.action \notin {"CLEAR_EXCEPTION", "REQUEST_INFORMATION"}
        /\ cmd.assignee \in Users \cup {Nobody}
    BY DEF Commands, ReviewCommands
  <2>3. NewAction(c, cmd, key, t) \in ActionRow
    BY <2>2, TransitionTyped
  <2>4. row(cmd, key, t) \in ActionRow
    BY <2>2, <2>3 DEF ActionRow
  <2>5. /\ row(cmd, key, t).action = cmd.action
        /\ row(cmd, key, t).before = case[c].status
        /\ row(cmd, key, t).after = Destination[cmd.action]
        /\ row(cmd, key, t).key = key
        /\ row(cmd, key, t).evaluation = case[c].evaluation
        /\ row(cmd, key, t).at = t
        /\ row(cmd, key, t).ids = {}
        /\ row(cmd, key, t).docs = {}
    BY <2>3, NewActionFields DEF ActionRow
  <2> HIDE DEF row
  <2>6. Written(c, cmd, key, version, row(cmd, key, t))
    BY <2>1, <2>2, <2>5 DEF Written, Asked
  <2> DEFINE former == Transitioned(c, row(cmd, key, t))
  <2>7. former \in CaseRow
    BY <2>2, <2>4, TransitionTyped
  <2>8. case'[c] = [former EXCEPT !.assigned_to = Coalesce(cmd.assignee, @)]
    BY <2>1 DEF TypeOK
  <2>9. /\ former.status = row(cmd, key, t).after
        /\ former.updated_at = row(cmd, key, t).at
        /\ former.last_action = Len(actions[c]) + 1
        /\ former.evaluation = case[c].evaluation
        /\ former.priority = case[c].priority
        /\ former.open_count = case[c].open_count
        /\ former.queued = case[c].queued
    BY <2>4, TransitionedColumns
  <2> HIDE DEF former
  <2>10. /\ case'[c].status = former.status
         /\ case'[c].updated_at = former.updated_at
         /\ case'[c].last_action = former.last_action
         /\ case'[c].evaluation = former.evaluation
         /\ case'[c].priority = former.priority
         /\ case'[c].open_count = former.open_count
         /\ case'[c].queued = former.queued
    BY ONLY <2>7, <2>8 DEF CaseRow
  <2>11. case' = [case EXCEPT ![c] = case'[c]]
    BY <2>1 DEF TypeOK
  <2>12. Moved(c, row(cmd, key, t))
    BY <2>9, <2>10, <2>11 DEF Moved
  <2>13. Settled(c, cmd, row(cmd, key, t))
    BY <2>1, <2>2, <2>5, <2>9, <2>10 DEF Settled
  <2>14. QED
    BY <2>2, <2>4, <2>6, <2>12, <2>13
<1>3. CASE PlaceOnHold(c)
  <2> DEFINE row(cmd, key, t) == NewAction(c, cmd, key, t)
  <2>1. PICK cmd \in HoldCommands, key \in KeyInputs, version \in Versions(c),
             t \in ClockReads :
          /\ Accepted(c, cmd, key, version)
          /\ case' = [case EXCEPT ![c] = Transitioned(c, row(cmd, key, t))]
          /\ Log(c, row(cmd, key, t), version)
          /\ UNCHANGED <<open, cleared, superseded>>
    BY <1>3 DEF PlaceOnHold
  <2>2. cmd \in Commands(ExceptionRow) /\ cmd.action \notin {"CLEAR_EXCEPTION", "REQUEST_INFORMATION"}
    BY DEF Commands, HoldCommands
  <2>3. row(cmd, key, t) \in ActionRow
    BY <2>2, TransitionTyped
  <2>4. /\ row(cmd, key, t).action = cmd.action
        /\ row(cmd, key, t).before = case[c].status
        /\ row(cmd, key, t).after = Destination[cmd.action]
        /\ row(cmd, key, t).key = key
        /\ row(cmd, key, t).evaluation = case[c].evaluation
        /\ row(cmd, key, t).at = t
        /\ row(cmd, key, t).ids = {}
        /\ row(cmd, key, t).docs = {}
    BY NewActionFields
  <2> HIDE DEF row
  <2>5. Written(c, cmd, key, version, row(cmd, key, t))
    BY <2>1, <2>2, <2>4 DEF Written, Asked
  <2>6. case'[c] = Transitioned(c, row(cmd, key, t))
    BY <2>1 DEF TypeOK
  <2>7. Moved(c, row(cmd, key, t))
    BY <2>1, <2>3, <2>6, TransitionedColumns DEF Moved
  <2>8. Settled(c, cmd, row(cmd, key, t))
    BY <2>1, <2>2, <2>3, <2>4, <2>6, TransitionedColumns DEF Settled
  <2>9. QED
    BY <2>2, <2>3, <2>5, <2>7, <2>8
<1>4. CASE EscalateToSupervisor(c)
  <2> DEFINE row(cmd, key, t) ==
        [NewAction(c, cmd, key, t) EXCEPT !.user = cmd.target]
  <2>1. PICK cmd \in EscalateCommands, key \in KeyInputs, version \in Versions(c),
             t \in ClockReads :
          /\ Accepted(c, cmd, key, version)
          /\ case' = [case EXCEPT ![c] =
               [Transitioned(c, row(cmd, key, t)) EXCEPT
                  !.escalated_to = Coalesce(cmd.target, @)]]
          /\ Log(c, row(cmd, key, t), version)
          /\ UNCHANGED <<open, cleared, superseded>>
    BY <1>4 DEF EscalateToSupervisor
  <2>2. /\ cmd \in Commands(ExceptionRow) /\ cmd.action \notin {"CLEAR_EXCEPTION", "REQUEST_INFORMATION"}
        /\ cmd.target \in Users \cup {Nobody}
    BY DEF Commands, EscalateCommands
  <2>3. NewAction(c, cmd, key, t) \in ActionRow
    BY <2>2, TransitionTyped
  <2>4. row(cmd, key, t) \in ActionRow
    BY <2>2, <2>3 DEF ActionRow
  <2>5. /\ row(cmd, key, t).action = cmd.action
        /\ row(cmd, key, t).before = case[c].status
        /\ row(cmd, key, t).after = Destination[cmd.action]
        /\ row(cmd, key, t).key = key
        /\ row(cmd, key, t).evaluation = case[c].evaluation
        /\ row(cmd, key, t).at = t
        /\ row(cmd, key, t).ids = {}
        /\ row(cmd, key, t).docs = {}
    BY <2>3, NewActionFields DEF ActionRow
  <2> HIDE DEF row
  <2>6. Written(c, cmd, key, version, row(cmd, key, t))
    BY <2>1, <2>2, <2>5 DEF Written, Asked
  <2> DEFINE former == Transitioned(c, row(cmd, key, t))
  <2>7. former \in CaseRow
    BY <2>2, <2>4, TransitionTyped
  <2>8. case'[c] = [former EXCEPT !.escalated_to = Coalesce(cmd.target, @)]
    BY <2>1 DEF TypeOK
  <2>9. /\ former.status = row(cmd, key, t).after
        /\ former.updated_at = row(cmd, key, t).at
        /\ former.last_action = Len(actions[c]) + 1
        /\ former.evaluation = case[c].evaluation
        /\ former.priority = case[c].priority
        /\ former.open_count = case[c].open_count
        /\ former.queued = case[c].queued
    BY <2>4, TransitionedColumns
  <2> HIDE DEF former
  <2>10. /\ case'[c].status = former.status
         /\ case'[c].updated_at = former.updated_at
         /\ case'[c].last_action = former.last_action
         /\ case'[c].evaluation = former.evaluation
         /\ case'[c].priority = former.priority
         /\ case'[c].open_count = former.open_count
         /\ case'[c].queued = former.queued
    BY ONLY <2>7, <2>8 DEF CaseRow
  <2>11. case' = [case EXCEPT ![c] = case'[c]]
    BY <2>1 DEF TypeOK
  <2>12. Moved(c, row(cmd, key, t))
    BY <2>9, <2>10, <2>11 DEF Moved
  <2>13. Settled(c, cmd, row(cmd, key, t))
    BY <2>1, <2>2, <2>5, <2>9, <2>10 DEF Settled
  <2>14. QED
    BY <2>2, <2>4, <2>6, <2>12, <2>13
<1>5. CASE ClearException(c)
  <2> DEFINE row(cmd, key, t) ==
        [NewAction(c, cmd, key, t) EXCEPT !.ids = cmd.ids, !.ack = cmd.ack]
  <2>1. PICK cmd \in ClearCommands(ExceptionsOf(c)), key \in KeyInputs,
             version \in Versions(c), t \in ClockReads :
          /\ Accepted(c, cmd, key, version)
          /\ case' = [case EXCEPT ![c] =
               ClearedColumns(Transitioned(c, row(cmd, key, t)))]
          /\ open' = [open EXCEPT ![c] = @ \ cmd.ids]
          /\ superseded' = [superseded EXCEPT ![c] = @ \ cmd.ids]
          /\ cleared' = [cleared EXCEPT ![c] = @ \cup cmd.ids]
          /\ Log(c, row(cmd, key, t), version)
    BY <1>5 DEF ClearException
  <2>2. ExceptionsOf(c) \in SUBSET ExceptionRow
    BY DEF ExceptionsOf, TypeOK
  <2>3. /\ cmd \in Commands(ExceptionRow) /\ cmd.action = "CLEAR_EXCEPTION"
        /\ cmd.ids \in SUBSET ExceptionRow /\ cmd.ack \in BOOLEAN
    BY <2>2 DEF Commands, ClearCommands
  <2>4. NewAction(c, cmd, key, t) \in ActionRow
    BY <2>3, TransitionTyped
  <2>5. row(cmd, key, t) \in ActionRow
    BY ONLY <2>3, <2>4 DEF ActionRow
  <2>6. /\ row(cmd, key, t).action = cmd.action
        /\ row(cmd, key, t).before = case[c].status
        /\ row(cmd, key, t).after = Destination[cmd.action]
        /\ row(cmd, key, t).key = key
        /\ row(cmd, key, t).evaluation = case[c].evaluation
        /\ row(cmd, key, t).at = t
        /\ row(cmd, key, t).ids = cmd.ids
        /\ row(cmd, key, t).docs = {}
        /\ row(cmd, key, t).ack = cmd.ack
    BY <2>4, NewActionFields DEF ActionRow
  <2> HIDE DEF row
  <2>7. Written(c, cmd, key, version, row(cmd, key, t))
    BY <2>1, <2>3, <2>6 DEF Written, Asked
  <2> DEFINE former == Transitioned(c, row(cmd, key, t))
  <2>8. former \in CaseRow
    BY <2>3, <2>5, TransitionTyped
  <2>9. case'[c] = [former EXCEPT !.official = Actor, !.open_count = 0, !.queued = FALSE]
    BY <2>1 DEF TypeOK, ClearedColumns
  <2>10. /\ former.status = row(cmd, key, t).after
         /\ former.updated_at = row(cmd, key, t).at
         /\ former.last_action = Len(actions[c]) + 1
         /\ former.evaluation = case[c].evaluation
         /\ former.priority = case[c].priority
    BY <2>5, TransitionedColumns
  <2> HIDE DEF former
  <2>11. /\ case'[c].status = former.status
         /\ case'[c].updated_at = former.updated_at
         /\ case'[c].last_action = former.last_action
         /\ case'[c].evaluation = former.evaluation
         /\ case'[c].priority = former.priority
         /\ case'[c].open_count = 0
         /\ case'[c].queued = FALSE
    BY ONLY <2>8, <2>9 DEF CaseRow
  <2>12. case' = [case EXCEPT ![c] = case'[c]]
    BY <2>1 DEF TypeOK
  <2>13. Moved(c, row(cmd, key, t))
    BY <2>10, <2>11, <2>12 DEF Moved
  <2>14. Settled(c, cmd, row(cmd, key, t))
    BY <2>1, <2>3, <2>6, <2>11 DEF Settled
  <2>15. QED
    BY <2>3, <2>5, <2>7, <2>13, <2>14
<1>6. QED
  BY <1>1, <1>2, <1>3, <1>4, <1>5 DEF Execute

(* An accepted command appends its row to the actions of its case, and     *)
(* leaves those of the other cases alone.                                  *)
LEMMA Appended ==
  ASSUME TypeOK, NEW c \in Cases, NEW row \in ActionRow, NEW version,
         Log(c, row, version)
  PROVE  /\ Len(actions[c]) \in Nat
         /\ DOMAIN actions[c] = 1..Len(actions[c])
         /\ Len(actions'[c]) = Len(actions[c]) + 1
         /\ DOMAIN actions'[c] = 1..(Len(actions[c]) + 1)
         /\ \A i \in 1..Len(actions[c]) : actions'[c][i] = actions[c][i]
         /\ actions'[c][Len(actions[c]) + 1] = row
         /\ \A d \in Cases \ {c} : actions'[d] = actions[d]
<1>1. actions[c] \in Seq(ActionRow)
  BY DEF TypeOK
<1>2. /\ actions'[c] = Append(actions[c], row)
      /\ \A d \in Cases \ {c} : actions'[d] = actions[d]
  BY DEF TypeOK, Log
<1>3. QED
  BY ONLY <1>1, <1>2, row \in ActionRow

(* A command is accepted only in a case that is not CLEARED, on a row of   *)
(* the table that is not redundant, with a version that matches and a key  *)
(* no action has; a clearance names exactly the open exceptions (G-REC).   *)
LEMMA Permitted ==
  ASSUME NEW c \in Cases, NEW cmd, NEW key, NEW version,
         Accepted(c, cmd, key, version)
  PROVE  /\ case[c].status # "CLEARED"
         /\ <<case[c].status, cmd.action>> \notin RedundantRows
         /\ cmd.action = "CLEAR_EXCEPTION" => cmd.ids = open[c]
         /\ ~VersionConflict(c, version)
         /\ ~KeyAlreadyUsed(c, key)
<1>1. /\ EvaluateTransition(Context(c), cmd) = {}
      /\ ~VersionConflict(c, version)
      /\ ~KeyAlreadyUsed(c, key)
  BY DEF Accepted, Refusals
<1>2. Context(c).status = case[c].status /\ Context(c).open = open[c]
  BY DEF Context
<1>3. /\ case[c].status # "CLEARED"
      /\ <<case[c].status, cmd.action>> \notin RedundantRows
      /\ GuardRefusals(Context(c), cmd) = {}
  BY <1>1, <1>2 DEF EvaluateTransition
<1>4. ASSUME cmd.action = "CLEAR_EXCEPTION" PROVE cmd.ids = open[c]
  <2>1. GRec(Context(c), cmd) = {}
    BY <1>3, <1>4 DEF GuardRefusals, GuardsOf
  <2>2. QED
    BY <1>2, <2>1 DEF GRec
<1>5. QED
  BY <1>1, <1>3, <1>4

(* The columns detection sets and those it leaves alone.                   *)
LEMMA ProjectedColumns ==
  ASSUME TypeOK, NEW c \in Cases, NEW found, NEW t
  PROVE  LET r == Projected(c, found, t) IN
         /\ r.status = case[c].status
         /\ r.last_action = case[c].last_action
         /\ r.updated_at = t
         /\ r.evaluation = evaluations[c] + 1
         /\ r.priority = ProjectedPriority(c, found, t)
         /\ r.queued = (Cardinality(found) > 0)
         /\ r.open_count = Cardinality(found)
<1> DEFINE n == Cardinality(found)
           p == ProjectedPriority(c, found, t)
<1>1. Projected(c, found, t) =
        [case[c] EXCEPT !.priority = p, !.queued = n > 0, !.open_count = n,
                        !.evaluation = evaluations[c] + 1, !.updated_at = t]
  BY DEF Projected
<1>2. case[c] \in CaseRow
  BY DEF TypeOK
<1> HIDE DEF n, p
<1>3. QED
  BY ONLY <1>1, <1>2 DEF CaseRow, n, p

(* When the open exceptions are those of the latest evaluation, detection  *)
(* supersedes all of them and opens only its own findings.                 *)
LEMMA Detection ==
  ASSUME TypeOK, OpenAreCurrent, NEW c \in Cases, DetectExceptions(c)
  PROVE  \E found \in SUBSET ExceptionRow, t \in ClockReads :
           /\ IsFiniteSet(found)
           /\ \A e \in found : e.case = c /\ e.evaluation = evaluations[c] + 1
           /\ evaluations' = [evaluations EXCEPT ![c] = @ + 1]
           /\ open' = [open EXCEPT ![c] = found]
           /\ superseded' = [superseded EXCEPT ![c] = @ \cup open[c]]
           /\ case' = [case EXCEPT ![c] = Projected(c, found, t)]
           /\ clock' = t
           /\ UNCHANGED <<cleared, actions, keys, received, active, seen, matched>>
<1> DEFINE found(findings, t) == {Finding(c, r, t) : r \in findings}
<1>1. PICK findings \in FindingSets(c), t \in ClockReads :
        /\ evaluations' = [evaluations EXCEPT ![c] = @ + 1]
        /\ open' = [open EXCEPT ![c] = (@ \ PriorOpen(c)) \cup found(findings, t)]
        /\ superseded' = [superseded EXCEPT ![c] = @ \cup PriorOpen(c)]
        /\ case' = [case EXCEPT ![c] = Projected(c, found(findings, t), t)]
        /\ clock' = t
        /\ UNCHANGED <<cleared, actions, keys, received, active, seen, matched>>
  BY DEF DetectExceptions
<1>2. /\ found(findings, t) \in SUBSET ExceptionRow
      /\ IsFiniteSet(found(findings, t))
      /\ \A e \in found(findings, t) : e.case = c /\ e.evaluation = evaluations[c] + 1
  BY FindingsTyped
<1> HIDE DEF found
<1>3. PriorOpen(c) = open[c]
  BY DEF PriorOpen, OpenAreCurrent
<1>4. open' = [open EXCEPT ![c] = found(findings, t)]
  BY <1>1, <1>3 DEF TypeOK
<1>5. superseded' = [superseded EXCEPT ![c] = @ \cup open[c]]
  BY <1>1, <1>3
<1>6. QED
  BY <1>1, <1>2, <1>4, <1>5

-----------------------------------------------------------------------------
(***************************************************************************)
(* Exceptions and the case row.                                            *)
(***************************************************************************)
(* Open exceptions always belong to the case's latest evaluation.  The     *)
(* invariant is inductive: detection supersedes the rows of the latest     *)
(* evaluation only, which is enough because no others are open.            *)
THEOREM OpenStayCurrent == Spec => []OpenAreCurrent
<1>1. Init => OpenAreCurrent
  BY DEF Init, OpenAreCurrent, SeededExceptions, SeededCase
<1>2. ASSUME TypeOK, OpenAreCurrent, [Next]_vars PROVE OpenAreCurrent'
  <2>1. ASSUME NEW c \in Cases, Execute(c) PROVE OpenAreCurrent'
    <3>1. PICK cmd \in Commands(ExceptionRow), key \in KeyInputs,
               version \in Versions(c), row \in ActionRow :
            Written(c, cmd, key, version, row) /\ Moved(c, row) /\ Settled(c, cmd, row)
      BY <1>2, <2>1, Execution
    <3>2. evaluations' = evaluations
      BY <3>1 DEF Written, Log
    <3>3. \A d \in Cases : case'[d].evaluation = case[d].evaluation
      BY <1>2, <3>1 DEF Moved, TypeOK
    <3>4. \A d \in Cases : open'[d] \subseteq open[d]
      <4>1. open' = open \/ open' = [open EXCEPT ![c] = @ \ cmd.ids]
        BY <3>1 DEF Settled
      <4>2. QED
        BY <1>2, <4>1 DEF TypeOK
    <3>5. QED
      BY <1>2, <3>2, <3>3, <3>4 DEF OpenAreCurrent
  <2>2. ASSUME NEW c \in Cases, DetectExceptions(c) PROVE OpenAreCurrent'
    <3>1. PICK found \in SUBSET ExceptionRow, t \in ClockReads :
            /\ \A e \in found : e.case = c /\ e.evaluation = evaluations[c] + 1
            /\ evaluations' = [evaluations EXCEPT ![c] = @ + 1]
            /\ open' = [open EXCEPT ![c] = found]
            /\ case' = [case EXCEPT ![c] = Projected(c, found, t)]
      BY <1>2, <2>2, Detection
    <3>2. Projected(c, found, t).evaluation = evaluations[c] + 1
      BY <1>2, ProjectedColumns
    <3>3. ASSUME NEW d \in Cases
          PROVE  /\ case'[d].evaluation = evaluations'[d]
                 /\ \A e \in open'[d] : e.case = d /\ e.evaluation = evaluations'[d]
      BY <1>2, <3>1, <3>2 DEF TypeOK, OpenAreCurrent
    <3>4. QED
      BY <3>3 DEF OpenAreCurrent
  <2>3. ASSUME UNCHANGED <<case, evaluations, open>> PROVE OpenAreCurrent'
    BY <1>2, <2>3 DEF OpenAreCurrent
  <2>4. QED
    BY <1>2, <2>1, <2>2, <2>3
       DEF Next, Observe, ReceiveDocument, DeactivateUser, vars
<1>3. QED
  BY <1>1, <1>2, TypeCorrect, PTL DEF Spec
=============================================================================
