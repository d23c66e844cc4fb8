--------------------------- MODULE CaseHistoryProofs ---------------------------
(***************************************************************************)
(* Proofs about the history of a case: the chain of its actions, the end   *)
(* of its life, the versions its reviewers read and the keys they send.    *)
(***************************************************************************)
EXTENDS CaseWorkflowProofs

(* CLEARED is terminal.  No invariant is needed: the terminal check comes  *)
(* before everything a command does, and detection keeps the status.       *)
THEOREM ClearedStays == Spec => ClearedIsTerminal
<1> DEFINE Terminal(c) ==
      case[c].status = "CLEARED" =>
        case'[c].status = "CLEARED" /\ actions'[c] = actions[c]
<1>1. ASSUME TypeOK, Next PROVE \A c \in Cases : Terminal(c)
  <2>1. ASSUME NEW d \in Cases, Execute(d), NEW c \in Cases PROVE Terminal(c)
    <3>1. PICK cmd \in Commands(ExceptionRow), key \in KeyInputs,
               version \in Versions(d), row \in ActionRow :
            Written(d, cmd, key, version, row) /\ Moved(d, row)
      BY <1>1, <2>1, Execution
    <3>2. case[d].status # "CLEARED"
      BY <3>1, Permitted DEF Written
    <3>3. c # d => case'[c] = case[c] /\ actions'[c] = actions[c]
      BY <1>1, <3>1 DEF Written, Moved, Log, TypeOK
    <3>4. QED
      BY <3>2, <3>3
  <2>2. ASSUME NEW d \in Cases, DetectExceptions(d), NEW c \in Cases PROVE Terminal(c)
    <3>1. PICK found, t :
            case' = [case EXCEPT ![d] = Projected(d, found, t)] /\ actions' = actions
      BY <2>2 DEF DetectExceptions
    <3>2. Projected(d, found, t).status = case[d].status
      BY <1>1, ProjectedColumns
    <3>3. QED
      BY <1>1, <3>1, <3>2 DEF TypeOK
  <2>3. ASSUME UNCHANGED <<case, actions>>, NEW c \in Cases PROVE Terminal(c)
    BY <2>3
  <2>4. QED
    BY <1>1, <2>1, <2>2, <2>3 DEF Next, Observe, ReceiveDocument, DeactivateUser
<1>2. TypeOK /\ [Next]_vars => [\A c \in Cases : Terminal(c)]_vars
  BY <1>1
<1>3. QED
  BY <1>2, TypeCorrect, PTL DEF Spec, ClearedIsTerminal

(***************************************************************************)
(* Versions.                                                               *)
(***************************************************************************)
(* Every row of a history has its type.                                    *)
LEMMA RowsTyped ==
  ASSUME TypeOK, NEW c \in Cases
  PROVE  /\ Len(actions[c]) \in Nat
         /\ DOMAIN actions[c] = 1..Len(actions[c])
         /\ \A i \in DOMAIN actions[c] : actions[c][i].at \in Nat
<1>1. actions[c] \in Seq(ActionRow)
  BY DEF TypeOK
<1>2. /\ Len(actions[c]) \in Nat
      /\ DOMAIN actions[c] = 1..Len(actions[c])
      /\ \A i \in DOMAIN actions[c] : actions[c][i] \in ActionRow
  BY <1>1
<1>3. \A row \in ActionRow : row.at \in Nat
  BY DEF ActionRow
<1>4. QED
  BY <1>2, <1>3

(* What makes UnseenAreSimultaneous inductive, of one case: the case row   *)
(* is as young as any row written to the case, and what was written since  *)
(* its reviewer read it is no older than the version that was read.        *)
Dated(row, sight, history, rows, latest, now) ==
  /\ row.updated_at <= now
  /\ sight.version <= row.updated_at
  /\ \A i \in DOMAIN history :
       /\ history[i].at <= row.updated_at
       /\ i > sight.decisions => sight.version <= history[i].at
  /\ \A e \in rows :
       /\ e.opened_at <= row.updated_at
       /\ e.first <= latest
       /\ e.first > sight.evaluation => sight.version <= e.opened_at

CaseDated(c) ==
  Dated(case[c], seen[c], actions[c], ExceptionsOf(c), evaluations[c], clock)

VersionsDate == \A c \in Cases : CaseDated(c)

(* The numbers that Dated compares.                                        *)
LEMMA DatesTyped ==
  ASSUME TypeOK, NEW c \in Cases
  PROVE  /\ case[c].updated_at \in Nat
         /\ seen[c].version \in Nat /\ seen[c].decisions \in Nat
         /\ seen[c].evaluation \in Nat
         /\ evaluations[c] \in Nat /\ clock \in Nat
         /\ \A e \in ExceptionsOf(c) : e.opened_at \in Nat /\ e.first \in Nat
<1>1. ExceptionsOf(c) \subseteq ExceptionRow
  BY DEF ExceptionsOf, TypeOK
<1>2. QED
  BY <1>1 DEF TypeOK, CaseRow, ExceptionRow

(* A command writes its action and its case row at one instant, and moves  *)
(* exceptions without adding any.                                          *)
LEMMA CommandDated ==
  ASSUME TypeOK, VersionsDate, \A s \in ClockSteps : s >= 0,
         NEW d \in Cases, Execute(d)
  PROVE  VersionsDate'
<1>1. PICK cmd \in Commands(ExceptionRow), key \in KeyInputs,
           version \in Versions(d), row \in ActionRow :
        Written(d, cmd, key, version, row) /\ Moved(d, row) /\ Settled(d, cmd, row)
  BY Execution
<1>2. /\ row.at \in ClockReads /\ clock' = row.at /\ seen' = seen
      /\ evaluations' = evaluations
      /\ case'[d].updated_at = row.at
      /\ case' = [case EXCEPT ![d] = case'[d]]
  BY <1>1 DEF Written, Moved, Log
<1>3. row.at \in Nat /\ clock <= row.at /\ clock \in Nat
  BY <1>2, BoundsAssumption DEF ClockReads, TypeOK
<1>4. cmd.action = "CLEAR_EXCEPTION" => cmd.ids = open[d]
  BY <1>1, Permitted DEF Written
<1>5. ASSUME NEW c \in Cases
      PROVE  open'[c] \cup cleared'[c] \cup superseded'[c] \subseteq ExceptionsOf(c)
  <2>1. CASE UNCHANGED <<open, cleared, superseded>>
    BY <2>1 DEF ExceptionsOf
  <2>2. CASE /\ open' = [open EXCEPT ![d] = @ \ open[d]]
             /\ superseded' = [superseded EXCEPT ![d] = @ \ open[d]]
             /\ cleared' = [cleared EXCEPT ![d] = @ \cup open[d]]
    BY <2>2 DEF TypeOK, ExceptionsOf
  <2>3. QED
    BY <1>1, <1>4, <2>1, <2>2 DEF Settled
<1>6. ASSUME NEW c \in Cases PROVE CaseDated(c)'
  <2>1. CaseDated(c)
    BY DEF VersionsDate
  <2>2. ExceptionsOf(c)' \subseteq ExceptionsOf(c)
    BY <1>5 DEF ExceptionsOf
  <2>3. /\ seen'[c] = seen[c] /\ evaluations'[c] = evaluations[c]
        /\ case'[c].updated_at = IF c = d THEN row.at ELSE case[c].updated_at
    BY <1>2 DEF TypeOK
  <2>4. /\ Len(actions[c]) \in Nat
        /\ DOMAIN actions[c] = 1..Len(actions[c])
        /\ \A i \in DOMAIN actions[c] : actions[c][i].at \in Nat
    BY RowsTyped
  <2>5. /\ case'[c].updated_at \in Nat
        /\ case[c].updated_at <= case'[c].updated_at
        /\ case'[c].updated_at <= clock'
    BY <1>2, <1>3, <2>1, <2>3, DatesTyped DEF CaseDated, Dated
  <2>6. seen'[c].version <= case'[c].updated_at
    BY <2>1, <2>3, <2>5, DatesTyped DEF CaseDated, Dated
  <2>7. ASSUME NEW i \in DOMAIN actions'[c]
        PROVE  /\ actions'[c][i].at <= case'[c].updated_at
               /\ i > seen'[c].decisions => seen'[c].version <= actions'[c][i].at
    <3>1. CASE i \in DOMAIN actions[c] /\ actions'[c][i] = actions[c][i]
      BY <2>1, <2>3, <2>4, <2>5, <3>1, DatesTyped DEF CaseDated, Dated
    <3>2. CASE c = d /\ actions'[c][i] = row
      BY <1>3, <2>3, <2>6, <3>2
    <3>3. QED
      BY <1>1, <2>4, <2>7, <3>1, <3>2, Appended DEF Written
  <2>8. ASSUME NEW e \in ExceptionsOf(c)'
        PROVE  /\ e.opened_at <= case'[c].updated_at
               /\ e.first <= evaluations'[c]
               /\ e.first > seen'[c].evaluation => seen'[c].version <= e.opened_at
    BY <2>1, <2>2, <2>3, <2>5, <2>8, DatesTyped DEF CaseDated, Dated
  <2>9. QED
    BY <2>5, <2>6, <2>7, <2>8 DEF CaseDated, Dated
<1>7. QED
  BY <1>6 DEF VersionsDate

(* A finding of a re-evaluation is either carried over from an open one or *)
(* detected, and dated, by this evaluation.                                *)
LEMMA FindingDated ==
  ASSUME TypeOK, NEW c \in Cases, NEW r, NEW t
  PROVE  \/ /\ Finding(c, r, t).first = evaluations[c] + 1
            /\ Finding(c, r, t).opened_at = t
         \/ \E e \in open[c] : /\ Finding(c, r, t).first = e.first
                               /\ Finding(c, r, t).opened_at = e.opened_at
<1> DEFINE prior == {e \in PriorOpen(c) : e.rule = r}
           old   == CHOOSE e \in prior : TRUE
<1>1. /\ Finding(c, r, t).first = IF prior = {} THEN evaluations[c] + 1 ELSE old.first
      /\ Finding(c, r, t).opened_at = IF prior = {} THEN t ELSE old.opened_at
  BY DEF Finding
<1>2. prior # {} => old \in prior
  OBVIOUS
<1>3. prior \subseteq open[c]
  BY DEF PriorOpen
<1> HIDE DEF prior, old
<1>4. QED
  BY <1>1, <1>2, <1>3

(* So does a re-evaluation, which dates what it finds for the first time.  *)
LEMMA DetectionDated ==
  ASSUME TypeOK, VersionsDate, \A s \in ClockSteps : s >= 0,
         NEW d \in Cases, DetectExceptions(d)
  PROVE  VersionsDate'
<1>1. PICK findings \in FindingSets(d), t \in ClockReads :
        /\ evaluations' = [evaluations EXCEPT ![d] = @ + 1]
        /\ open' = [open EXCEPT ![d] =
             (@ \ PriorOpen(d)) \cup {Finding(d, r, t) : r \in findings}]
        /\ superseded' = [superseded EXCEPT ![d] = @ \cup PriorOpen(d)]
        /\ case' = [case EXCEPT ![d] =
             Projected(d, {Finding(d, r, t) : r \in findings}, t)]
        /\ clock' = t
        /\ UNCHANGED <<cleared, actions, seen>>
  BY DEF DetectExceptions
<1>2. t \in Nat /\ clock <= t /\ clock \in Nat
  BY BoundsAssumption DEF ClockReads, TypeOK
<1>3. Projected(d, {Finding(d, r, t) : r \in findings}, t).updated_at = t
  BY ProjectedColumns
<1>4. PriorOpen(d) \subseteq open[d]
  BY DEF PriorOpen
<1>5. ASSUME NEW c \in Cases PROVE CaseDated(c)'
  <2>1. CaseDated(c)
    BY DEF VersionsDate
  <2>2. /\ seen'[c] = seen[c] /\ actions'[c] = actions[c]
        /\ evaluations'[c] = IF c = d THEN evaluations[c] + 1 ELSE evaluations[c]
        /\ case'[c].updated_at = IF c = d THEN t ELSE case[c].updated_at
    BY <1>1, <1>3 DEF TypeOK
  <2>3. /\ case'[c].updated_at \in Nat
        /\ case[c].updated_at <= case'[c].updated_at
        /\ case'[c].updated_at <= clock'
    BY <1>1, <1>2, <2>1, <2>2, DatesTyped DEF CaseDated, Dated
  <2>4. seen'[c].version <= case'[c].updated_at
    BY <2>1, <2>2, <2>3, DatesTyped DEF CaseDated, Dated
  <2>5. ASSUME NEW i \in DOMAIN actions'[c]
        PROVE  /\ actions'[c][i].at <= case'[c].updated_at
               /\ i > seen'[c].decisions => seen'[c].version <= actions'[c][i].at
    BY <2>1, <2>2, <2>3, <2>5, DatesTyped, RowsTyped DEF CaseDated, Dated
  <2>6. ASSUME NEW e, e \in ExceptionsOf(c) \/ \E o \in open[c] :
                        e.first = o.first /\ e.opened_at = o.opened_at
        PROVE  /\ e.opened_at <= case'[c].updated_at
               /\ e.first <= evaluations'[c]
               /\ e.first > seen'[c].evaluation => seen'[c].version <= e.opened_at
    <3>1. PICK o \in ExceptionsOf(c) : e.first = o.first /\ e.opened_at = o.opened_at
      BY <2>6 DEF ExceptionsOf
    <3>2. QED
      BY <2>1, <2>2, <2>3, <3>1, DatesTyped DEF CaseDated, Dated
  <2>7. ASSUME NEW r \in findings, c = d
        PROVE  LET e == Finding(c, r, t) IN
               /\ e.opened_at <= case'[c].updated_at
               /\ e.first <= evaluations'[c]
               /\ e.first > seen'[c].evaluation => seen'[c].version <= e.opened_at
    <3>1. CASE /\ Finding(c, r, t).first = evaluations[c] + 1
               /\ Finding(c, r, t).opened_at = t
      BY <1>2, <2>2, <2>4, <2>7, <3>1, DatesTyped
    <3>2. CASE \E e \in open[c] : /\ Finding(c, r, t).first = e.first
                                  /\ Finding(c, r, t).opened_at = e.opened_at
      BY <2>6, <3>2
    <3>3. QED
      BY <3>1, <3>2, FindingDated
  <2>8. ExceptionsOf(c)' \subseteq
          ExceptionsOf(c) \cup (IF c = d THEN {Finding(d, r, t) : r \in findings} ELSE {})
    BY <1>1, <1>4 DEF ExceptionsOf, TypeOK
  <2>9. ASSUME NEW e \in ExceptionsOf(c)'
        PROVE  /\ e.opened_at <= case'[c].updated_at
               /\ e.first <= evaluations'[c]
               /\ e.first > seen'[c].evaluation => seen'[c].version <= e.opened_at
    BY <2>6, <2>7, <2>8
  <2>10. QED
    BY <2>3, <2>4, <2>5, <2>9 DEF CaseDated, Dated
<1>6. QED
  BY <1>5 DEF VersionsDate

(* Under a clock that never steps back.                                    *)
LEMMA VersionsStayDated ==
  ASSUME \A s \in ClockSteps : s >= 0
  PROVE  Spec => []VersionsDate
<1>1. Init => VersionsDate
  BY DEF Init, VersionsDate, CaseDated, Dated, ExceptionsOf, SeededCase, SeededExceptions
<1>2. ASSUME TypeOK, VersionsDate, [Next]_vars PROVE VersionsDate'
  <2>1. ASSUME NEW c \in Cases, Execute(c) PROVE VersionsDate'
    BY <1>2, <2>1, CommandDated
  <2>2. ASSUME NEW c \in Cases, DetectExceptions(c) PROVE VersionsDate'
    BY <1>2, <2>2, DetectionDated
  <2>3. ASSUME NEW c \in Cases, Observe(c) PROVE VersionsDate'
    <3>1. /\ seen' = [seen EXCEPT ![c] = Observation(c)]
          /\ UNCHANGED <<case, open, cleared, superseded, evaluations, actions, clock>>
      BY <2>3 DEF Observe
    <3>2. /\ Observation(c).version = case[c].updated_at
          /\ Observation(c).decisions = Len(actions[c])
          /\ Observation(c).evaluation = evaluations[c]
      BY DEF Observation
    <3>3. \A b \in Cases : seen'[b] = IF b = c THEN Observation(c) ELSE seen[b]
      BY <1>2, <3>1 DEF TypeOK
    <3>4. ASSUME NEW b \in Cases PROVE CaseDated(b)'
      <4>1. CaseDated(b)
        BY <1>2 DEF VersionsDate
      <4>2. ExceptionsOf(b)' = ExceptionsOf(b)
        BY <3>1 DEF ExceptionsOf
      <4>3. CASE b = c
        BY <1>2, <3>1, <3>2, <3>3, <4>1, <4>2, <4>3, DatesTyped, RowsTyped
           DEF CaseDated, Dated
      <4>4. CASE b # c
        BY <3>1, <3>3, <4>1, <4>2, <4>4 DEF CaseDated, Dated
      <4>5. QED
        BY <4>3, <4>4
    <3>5. QED
      BY <3>4 DEF VersionsDate
  <2>4. ASSUME UNCHANGED <<case, seen, actions, open, cleared, superseded, evaluations, clock>>
        PROVE  VersionsDate'
    BY <1>2, <2>4 DEF VersionsDate, CaseDated, Dated, ExceptionsOf
  <2>5. QED
    BY <1>2, <2>1, <2>2, <2>3, <2>4 DEF Next, ReceiveDocument, DeactivateUser, vars
<1>3. QED
  BY <1>1, <1>2, TypeCorrect, PTL DEF Spec

(* The version check lets no decision pass over what its reviewer has not  *)
(* read, but for what was written in the millisecond of the version.  The  *)
(* clock may stand still between two writes, as SystemClock does within a  *)
(* millisecond; it is only assumed not to step back.                       *)
THEOREM VersionsProtect ==
  ASSUME \A s \in ClockSteps : s >= 0
  PROVE  Spec => UnseenAreSimultaneous
<1> DEFINE Simultaneous(c) ==
      actions'[c] # actions[c] /\ matched' =>
        /\ \A i \in DOMAIN actions[c] :
             i > seen[c].decisions => actions[c][i].at = seen[c].version
        /\ \A e \in ExceptionsOf(c) :
             e.first > seen[c].evaluation => e.opened_at = seen[c].version
<1>1. ASSUME TypeOK, VersionsDate, Next PROVE \A c \in Cases : Simultaneous(c)
  <2>1. ASSUME NEW d \in Cases, Execute(d), NEW c \in Cases PROVE Simultaneous(c)
    <3>1. PICK cmd \in Commands(ExceptionRow), key \in KeyInputs,
               version \in Versions(d), row \in ActionRow :
            Written(d, cmd, key, version, row)
      BY <1>1, <2>1, Execution
    <3>2. c # d => actions'[c] = actions[c]
      BY <1>1, <3>1 DEF Written, Log, TypeOK
    <3>3. matched' => version = seen[d].version
      BY <3>1 DEF Written, Log, Versions
    <3>4. matched' => version = case[d].updated_at
      <4>1. ~VersionConflict(d, version)
        BY <3>1, Permitted DEF Written
      <4>2. matched' <=> version # NoVersion
        BY <3>1 DEF Written, Log
      <4>3. QED
        BY <4>1, <4>2 DEF VersionConflict
    <3>5. Dated(case[c], seen[c], actions[c], ExceptionsOf(c), evaluations[c], clock)
      BY <1>1 DEF VersionsDate, CaseDated
    <3>6. ASSUME c = d, matched', NEW i \in DOMAIN actions[c], i > seen[c].decisions
          PROVE  actions[c][i].at = seen[c].version
      BY <1>1, <3>3, <3>4, <3>5, <3>6, DatesTyped, RowsTyped DEF Dated
    <3>7. ASSUME c = d, matched', NEW e \in ExceptionsOf(c), e.first > seen[c].evaluation
          PROVE  e.opened_at = seen[c].version
      BY <1>1, <3>3, <3>4, <3>5, <3>7, DatesTyped DEF Dated
    <3>8. QED
      BY <3>2, <3>6, <3>7
  <2>2. ASSUME UNCHANGED actions, NEW c \in Cases PROVE Simultaneous(c)
    BY <2>2
  <2> HIDE DEF Simultaneous
  <2>3. QED
    BY <1>1, <2>1, <2>2
       DEF Next, DetectExceptions, Observe, ReceiveDocument, DeactivateUser
<1>2. TypeOK /\ VersionsDate /\ [Next]_vars => [\A c \in Cases : Simultaneous(c)]_vars
  BY <1>1
<1>3. QED
  BY <1>2, TypeCorrect, VersionsStayDated, PTL DEF Spec, UnseenAreSimultaneous

(***************************************************************************)
(* The chain of actions.                                                   *)
(***************************************************************************)
(* Each action starts from the status the one before it left, and the case *)
(* row shows the last one: inductive as it stands, because detection       *)
(* writes the case row without its status or its last action.              *)
THEOREM HistoryStaysConnected == Spec => []HistoryConnected
<1> DEFINE Connected(c) ==
      /\ case[c].last_action = Len(actions[c])
      /\ \A i \in 1..(Len(actions[c]) - 1) : actions[c][i].after = actions[c][i + 1].before
      /\ Len(actions[c]) > 0 => actions[c][Len(actions[c])].after = case[c].status
<1>1. HistoryConnected <=> \A c \in Cases : Connected(c)
  BY DEF HistoryConnected
<1>2. Init => \A c \in Cases : Connected(c)
  BY DEF Init, SeededCase
<1>3. ASSUME TypeOK, \A c \in Cases : Connected(c), [Next]_vars
      PROVE  \A c \in Cases : Connected(c)'
  <2>1. ASSUME NEW d \in Cases, Execute(d), NEW c \in Cases PROVE Connected(c)'
    <3>1. PICK cmd \in Commands(ExceptionRow), key \in KeyInputs,
               version \in Versions(d), row \in ActionRow :
            Written(d, cmd, key, version, row) /\ Moved(d, row)
      BY <1>3, <2>1, Execution
    <3>2. CASE c = d
      <4> DEFINE n == Len(actions[c])
      <4>1. /\ case'[c].last_action = n + 1
            /\ case'[c].status = row.after
            /\ row.before = case[c].status
        BY <3>1, <3>2 DEF Written, Moved
      <4>2. /\ n \in Nat
            /\ Len(actions'[c]) = n + 1
            /\ \A i \in 1..n : actions'[c][i] = actions[c][i]
            /\ actions'[c][n + 1] = row
        BY <1>3, <3>1, <3>2, Appended DEF Written
      <4>3. /\ \A i \in 1..(n - 1) : actions[c][i].after = actions[c][i + 1].before
            /\ n > 0 => actions[c][n].after = case[c].status
        BY <1>3
      <4> HIDE DEF n
      <4>4. \A i \in 1..n : actions'[c][i].after = actions'[c][i + 1].before
        <5> SUFFICES ASSUME NEW i \in 1..n
                     PROVE  actions'[c][i].after = actions'[c][i + 1].before
          OBVIOUS
        <5>1. CASE i = n
          BY <4>1, <4>2, <4>3, <5>1
        <5>2. CASE i # n
          <6>1. i \in 1..(n - 1) /\ i + 1 \in 1..n
            BY <4>2, <5>2
          <6>2. QED
            BY <4>2, <4>3, <6>1
        <5>3. QED
          BY <5>1, <5>2
      <4>5. QED
        BY <4>1, <4>2, <4>4
    <3>3. CASE c # d
      <4>1. actions'[c] = actions[c]
        BY <1>3, <3>1, <3>3, Appended DEF Written
      <4>2. case'[c] = case[c]
        BY <1>3, <3>1, <3>3 DEF Moved, TypeOK
      <4>3. QED
        BY <1>3, <4>1, <4>2
    <3>4. QED
      BY <3>2, <3>3
  <2>2. ASSUME NEW d \in Cases, DetectExceptions(d), NEW c \in Cases PROVE Connected(c)'
    <3>1. PICK found, t :
            case' = [case EXCEPT ![d] = Projected(d, found, t)] /\ actions' = actions
      BY <2>2 DEF DetectExceptions
    <3>2. /\ Projected(d, found, t).status = case[d].status
          /\ Projected(d, found, t).last_action = case[d].last_action
      BY <1>3, ProjectedColumns
    <3>3. case'[c].status = case[c].status /\ case'[c].last_action = case[c].last_action
      BY <1>3, <3>1, <3>2 DEF TypeOK
    <3>4. QED
      BY <1>3, <3>1, <3>3
  <2>3. ASSUME UNCHANGED <<case, actions>> PROVE \A c \in Cases : Connected(c)'
    BY <1>3, <2>3
  <2> HIDE DEF Connected
  <2>4. QED
    BY <1>3, <2>1, <2>2, <2>3
       DEF Next, Observe, ReceiveDocument, DeactivateUser, vars
<1>4. QED
  <2>1. ASSUME TypeOK, HistoryConnected, [Next]_vars PROVE HistoryConnected'
    <3>1. HistoryConnected' <=> \A c \in Cases : Connected(c)'
      BY DEF HistoryConnected
    <3> HIDE DEF Connected
    <3>2. QED
      BY <1>1, <1>3, <2>1, <3>1
  <2> HIDE DEF Connected
  <2>2. QED
    BY <1>1, <1>2, <2>1, TypeCorrect, PTL DEF Spec

(***************************************************************************)
(* Keys.                                                                   *)
(***************************************************************************)
(* No retry finds its action done and its answer gone, or two answers: the *)
(* record of a key and the action taken under it are written together or   *)
(* not at all, and the unique index keeps out a second action, whatever    *)
(* the lookup had found.                                                   *)
THEOREM KeysStayRecorded == Spec => []KeysRecordActions
<1> DEFINE Recorded(ks, h) ==
      /\ \A k \in ks : /\ k.action \in DOMAIN h
                       /\ h[k.action].key = k.key
      /\ \A i \in DOMAIN h : h[i].key \in Keys =>
           \E k \in ks : k.key = h[i].key /\ k.action = i
      /\ \A k, l \in ks : k.key = l.key => k = l
<1>1. KeysRecordActions <=> \A c \in Cases : Recorded(keys[c], actions[c])
  BY DEF KeysRecordActions
<1>2. KeysRecordActions' <=> \A c \in Cases : Recorded(keys'[c], actions'[c])
  BY DEF KeysRecordActions
<1>3. Init => KeysRecordActions
  BY DEF Init, KeysRecordActions
<1>4. ASSUME TypeOK, KeysRecordActions, [Next]_vars PROVE KeysRecordActions'
  <2>1. ASSUME NEW d \in Cases, Execute(d), NEW c \in Cases
        PROVE  Recorded(keys'[c], actions'[c])
    <3>1. PICK cmd \in Commands(ExceptionRow), key \in KeyInputs,
               version \in Versions(d), row \in ActionRow :
            Written(d, cmd, key, version, row)
      BY <1>4, <2>1, Execution
    <3>2. CASE c = d
      <4> DEFINE n == Len(actions[c])
      <4>1. row.key = key /\ row.action = cmd.action
        BY <3>1 DEF Written
      <4>2. keys'[c] = keys[c] \cup KeyRecord(c, key)
        BY <1>4, <3>1, <3>2, <4>1 DEF Written, Log, TypeOK
      <4>3. /\ n \in Nat
            /\ DOMAIN actions[c] = 1..n
            /\ DOMAIN actions'[c] = 1..(n + 1)
            /\ \A i \in 1..n : actions'[c][i] = actions[c][i]
            /\ actions'[c][n + 1] = row
        BY <1>4, <3>1, <3>2, Appended DEF Written
      <4>4. Recorded(keys[c], actions[c])
        BY <1>1, <1>4
      <4>5. ASSUME NEW k \in KeyRecord(c, key)
            PROVE  /\ k.key = key /\ key \in Keys /\ k.action = n + 1
                   /\ \A l \in KeyRecord(c, key) : k = l
        BY DEF KeyRecord
      <4>6. key \in Keys => KeyRecord(c, key) # {}
        BY DEF KeyRecord
      <4> HIDE DEF n
      <4>7. \A k \in keys'[c] : /\ k.action \in DOMAIN actions'[c]
                                /\ actions'[c][k.action].key = k.key
        BY <4>1, <4>2, <4>3, <4>4, <4>5
      <4>8. ASSUME NEW i \in DOMAIN actions'[c], actions'[c][i].key \in Keys
            PROVE  \E k \in keys'[c] : k.key = actions'[c][i].key /\ k.action = i
        <5>1. CASE i \in 1..n
          BY <4>2, <4>3, <4>4, <4>8, <5>1
        <5>2. CASE i = n + 1
          BY <4>1, <4>2, <4>3, <4>5, <4>6, <4>8, <5>2
        <5>3. QED
          BY <4>3, <5>1, <5>2
      <4>9. ASSUME NEW k \in keys[c], k.key = key, key \in Keys PROVE FALSE
        <5>1. ~KeyAlreadyUsed(c, key)
          BY <3>1, <3>2, Permitted DEF Written
        <5>2. key # NoKey
          BY <4>9, KeysAssumption
        <5>3. QED
          BY <4>4, <4>9, <5>1, <5>2 DEF KeyAlreadyUsed
      <4>10. \A k, l \in keys'[c] : k.key = l.key => k = l
        BY <4>2, <4>4, <4>5, <4>9
      <4>11. QED
        BY <4>7, <4>8, <4>10
    <3>3. CASE c # d
      <4>1. actions'[c] = actions[c]
        BY <1>4, <3>1, <3>3, Appended DEF Written
      <4>2. keys'[c] = keys[c]
        BY <1>4, <3>1, <3>3 DEF Written, Log, TypeOK
      <4>3. QED
        BY <1>1, <1>4, <4>1, <4>2
    <3>4. QED
      BY <3>2, <3>3
  <2>2. CASE UNCHANGED <<actions, keys>>
    BY <1>1, <1>2, <1>4, <2>2
  <2> HIDE DEF Recorded
  <2>3. QED
    BY <1>2, <1>4, <2>1, <2>2
       DEF Next, DetectExceptions, Observe, ReceiveDocument, DeactivateUser, vars
<1>5. QED
  BY <1>3, <1>4, TypeCorrect, PTL DEF Spec

(***************************************************************************)
(* The stays in AWAITING_INFORMATION.                                      *)
(***************************************************************************)
(* The histories the code reads: rows in insertion order are in the order  *)
(* of their timestamps, none from the future, and only requests name       *)
(* documents.                                                              *)
HistoryInOrder ==
  \A c \in Cases : LET h == actions[c] IN
    /\ \A i, j \in DOMAIN h : i <= j => h[i].at <= h[j].at
    /\ \A i \in DOMAIN h : h[i].at <= clock
    /\ \A i \in DOMAIN h : h[i].docs # {} => h[i].action = "REQUEST_INFORMATION"

(* Under a clock that never steps back.                                    *)
LEMMA HistoryStaysInOrder ==
  ASSUME \A s \in ClockSteps : s >= 0
  PROVE  Spec => []HistoryInOrder
<1> DEFINE Ordered(h, now) ==
      /\ \A i, j \in DOMAIN h : i <= j => h[i].at <= h[j].at
      /\ \A i \in DOMAIN h : h[i].at <= now
      /\ \A i \in DOMAIN h : h[i].docs # {} => h[i].action = "REQUEST_INFORMATION"
<1>1. HistoryInOrder <=> \A c \in Cases : Ordered(actions[c], clock)
  BY DEF HistoryInOrder
<1>2. HistoryInOrder' <=> \A c \in Cases : Ordered(actions'[c], clock')
  BY DEF HistoryInOrder
<1>3. Init => HistoryInOrder
  BY DEF Init, HistoryInOrder
<1>4. ASSUME TypeOK, HistoryInOrder, [Next]_vars PROVE HistoryInOrder'
  <2>1. ASSUME NEW t \in ClockReads PROVE t \in Nat /\ clock <= t /\ clock \in Nat
    BY <1>4, <2>1, BoundsAssumption DEF ClockReads, TypeOK
  <2>2. ASSUME NEW c \in Cases, clock' \in ClockReads PROVE Ordered(actions[c], clock')
    <3>1. \A i \in DOMAIN actions[c] : actions[c][i].at \in Nat
      BY <1>4, RowsTyped
    <3>2. Ordered(actions[c], clock)
      BY <1>1, <1>4
    <3>3. QED
      BY <2>1, <2>2, <3>1, <3>2
  <2>3. ASSUME NEW d \in Cases, Execute(d), NEW c \in Cases
        PROVE  Ordered(actions'[c], clock')
    <3>1. PICK cmd \in Commands(ExceptionRow), key \in KeyInputs,
               version \in Versions(d), row \in ActionRow :
            Written(d, cmd, key, version, row)
      BY <1>4, <2>3, Execution
    <3>2. /\ row.at \in ClockReads /\ clock' = row.at
          /\ row.docs # {} => row.action = "REQUEST_INFORMATION"
      BY <3>1 DEF Written, Log, Asked
    <3>3. Ordered(actions[c], clock')
      BY <2>2, <3>2
    <3>4. CASE c = d
      <4> DEFINE n == Len(actions[c])
      <4>1. /\ n \in Nat
            /\ DOMAIN actions[c] = 1..n
            /\ DOMAIN actions'[c] = 1..(n + 1)
            /\ \A i \in 1..n : actions'[c][i] = actions[c][i]
            /\ actions'[c][n + 1] = row
        BY <1>4, <3>1, <3>4, Appended DEF Written
      <4>2. row.at \in Nat
        BY <2>1, <3>2
      <4> HIDE DEF n
      <4>3. \A i \in 1..n : actions'[c][i].at <= row.at
        BY <3>2, <3>3, <4>1
      <4>4. \A i, j \in 1..n : i <= j => actions'[c][i].at <= actions'[c][j].at
        BY <3>3, <4>1
      <4>5. ASSUME NEW i \in 1..(n + 1), NEW j \in 1..(n + 1), i <= j
            PROVE  actions'[c][i].at <= actions'[c][j].at
        <5>1. CASE j = n + 1
          <6>1. actions'[c][j].at = row.at /\ row.at <= row.at
            BY <4>1, <4>2, <5>1
          <6>2. i \in 1..n \/ i = j
            BY <4>1, <5>1
          <6>3. QED
            BY <4>3, <6>1, <6>2
        <5>2. CASE j # n + 1
          <6>1. i \in 1..n /\ j \in 1..n
            BY <4>1, <4>5, <5>2
          <6>2. QED
            BY <4>4, <4>5, <6>1
        <5>3. QED
          BY <5>1, <5>2
      <4>6. ASSUME NEW i \in 1..(n + 1)
            PROVE  /\ actions'[c][i].at <= clock'
                   /\ actions'[c][i].docs # {} =>
                        actions'[c][i].action = "REQUEST_INFORMATION"
        <5>1. CASE i \in 1..n
          BY <3>2, <3>3, <4>1, <4>3, <5>1
        <5>2. CASE i = n + 1
          BY <3>2, <4>1, <4>2, <5>2
        <5>3. QED
          BY <4>1, <5>1, <5>2
      <4>7. QED
        BY <4>1, <4>5, <4>6
    <3>5. CASE c # d
      <4>1. actions'[c] = actions[c]
        BY <1>4, <3>1, <3>5, Appended DEF Written
      <4>2. QED
        BY <3>3, <4>1
    <3>6. QED
      BY <3>4, <3>5
  <2>4. ASSUME NEW d \in Cases, DetectExceptions(d), NEW c \in Cases
        PROVE  Ordered(actions'[c], clock')
    <3>1. clock' \in ClockReads /\ actions' = actions
      BY <2>4 DEF DetectExceptions
    <3>2. QED
      BY <2>2, <3>1
  <2>5. CASE UNCHANGED <<actions, clock>>
    BY <1>1, <1>2, <1>4, <2>5
  <2> HIDE DEF Ordered
  <2>6. QED
    BY <1>2, <1>4, <2>3, <2>4, <2>5
       DEF Next, Observe, ReceiveDocument, DeactivateUser, vars
<1>5. QED
  BY <1>3, <1>4, TypeCorrect, PTL DEF Spec

(* A document asked for in the stay that reaches the end of the history is *)
(* among those the code reads as requested.                                *)
LEMMA StayIsRequested ==
  ASSUME TypeOK, HistoryInOrder, NEW c \in Cases,
         NEW i \in DOMAIN actions[c],
         \A k \in (i + 1)..Len(actions[c]) :
           actions[c][k].before = "AWAITING_INFORMATION"
  PROVE  actions[c][i].docs \subseteq Requested(actions[c])
<1> DEFINE h == actions[c]
<1>1. /\ Len(h) \in Nat /\ DOMAIN h = 1..Len(h)
      /\ \A e \in DOMAIN h : h[e].at \in Nat
  BY RowsTyped
<1>2. /\ \A e, f \in DOMAIN h : e <= f => h[e].at <= h[f].at
      /\ h[i].docs # {} => h[i].action = "REQUEST_INFORMATION"
  BY DEF HistoryInOrder
<1>3. ASSUME NEW e \in DOMAIN h, EntersAwaiting(h[e]) PROVE h[i].at >= h[e].at
  <2>1. e \notin (i + 1)..Len(h)
    BY <1>3 DEF EntersAwaiting
  <2>2. e <= i
    BY <1>1, <2>1
  <2>3. QED
    BY <1>1, <1>2, <2>2
<1> HIDE DEF h
<1>4. h[i].docs # {} =>
        i \in {j \in DOMAIN h : /\ h[j].action = "REQUEST_INFORMATION"
                                /\ \A e \in DOMAIN h : EntersAwaiting(h[e]) => h[j].at >= h[e].at}
  BY <1>2, <1>3 DEF h
<1>5. h[i].docs \subseteq Requested(h)
  BY <1>4 DEF Requested
<1>6. QED
  BY <1>5 DEF h

(* What G-DUP and G-ACK find when the command is accepted.                 *)
LEMMA StayGuards ==
  ASSUME NEW c \in Cases, NEW cmd, NEW key, NEW version,
         Accepted(c, cmd, key, version), case[c].status = "AWAITING_INFORMATION"
  PROVE  /\ Asked(cmd) \cap Requested(actions[c]) = {}
         /\ cmd.action = "CLEAR_EXCEPTION" =>
              Requested(actions[c]) \subseteq received[c] \/ cmd.ack
<1> DEFINE ctx == Context(c)
<1>1. /\ ctx.status = "AWAITING_INFORMATION"
      /\ ctx.requested = Requested(actions[c])
      /\ ctx.received = received[c]
  BY DEF Context
<1>2. EvaluateTransition(ctx, cmd) = {}
  BY DEF Accepted, Refusals
<1> HIDE DEF ctx
<1>3. GuardRefusals(ctx, cmd) = {}
  BY <1>2 DEF EvaluateTransition
<1>4. CASE cmd.action = "REQUEST_INFORMATION"
  <2>1. GDup(ctx, cmd) = {}
    BY <1>1, <1>3, <1>4 DEF GuardRefusals, GuardsOf
  <2>2. QED
    BY <1>1, <1>4, <2>1 DEF GDup, Asked
<1>5. CASE cmd.action = "CLEAR_EXCEPTION"
  <2>1. GAck(ctx, cmd) = {}
    BY <1>1, <1>3, <1>5 DEF GuardRefusals, GuardsOf
  <2>2. QED
    BY <1>1, <1>5, <2>1 DEF GAck, Asked
<1>6. CASE cmd.action \notin {"REQUEST_INFORMATION", "CLEAR_EXCEPTION"}
  BY <1>6 DEF Asked
<1>7. QED
  BY <1>4, <1>5, <1>6

(* What a stay promises, of one case: no document is asked for twice, and  *)
(* none outstanding is passed over by a clearance in silence.              *)
StayKept(h, present) ==
  \A i, j \in DOMAIN h :
    i < j /\ SamePeriod(h, i, j) =>
      /\ h[i].docs \cap h[j].docs = {}
      /\ h[j].action = "CLEAR_EXCEPTION" => h[i].docs \subseteq present \/ h[j].ack

StaysKept == \A c \in Cases : StayKept(actions[c], received[c])

(* The rows' timestamps find the stay that their insertion order defines,  *)
(* so the guards of its last command speak of the whole stay.              *)
LEMMA StaysStayKept ==
  ASSUME \A s \in ClockSteps : s >= 0
  PROVE  Spec => []StaysKept
<1>1. Init => StaysKept
  BY DEF Init, StaysKept, StayKept
<1>2. ASSUME TypeOK, HistoryInOrder, StaysKept, [Next]_vars PROVE StaysKept'
  <2>1. ASSUME NEW c \in Cases, actions'[c] = actions[c], received[c] \subseteq received'[c]
        PROVE  StayKept(actions'[c], received'[c])
    BY <1>2, <2>1 DEF StaysKept, StayKept
  <2>2. ASSUME NEW d \in Cases, Execute(d), NEW c \in Cases
        PROVE  StayKept(actions'[c], received'[c])
    <3>1. PICK cmd \in Commands(ExceptionRow), key \in KeyInputs,
               version \in Versions(d), row \in ActionRow :
            Written(d, cmd, key, version, row)
      BY <1>2, <2>2, Execution
    <3>2. received' = received
      BY <3>1 DEF Written, Log
    <3>3. CASE c = d
      <4> DEFINE h == actions[c]
                 g == actions'[c]
                 n == Len(actions[c])
      <4>1. /\ n \in Nat
            /\ DOMAIN h = 1..n
            /\ DOMAIN g = 1..(n + 1)
            /\ \A i \in 1..n : g[i] = h[i]
            /\ g[n + 1] = row
        BY <1>2, <3>1, <3>3, Appended DEF Written
      <4>2. StayKept(h, received[c])
        BY <1>2 DEF StaysKept
      <4>3. /\ Accepted(c, cmd, key, version)
            /\ row.action = cmd.action
            /\ row.before = case[c].status
            /\ row.docs = Asked(cmd)
            /\ cmd.action = "CLEAR_EXCEPTION" => row.ack = cmd.ack
        BY <3>1, <3>3 DEF Written
      <4>4. ASSUME NEW i \in 1..n,
                   \A k \in (i + 1)..n : h[k].before = "AWAITING_INFORMATION"
            PROVE  h[i].docs \subseteq Requested(h)
        BY <1>2, <4>1, <4>4, StayIsRequested
      <4>5. row.before = "AWAITING_INFORMATION" =>
              /\ row.docs \cap Requested(h) = {}
              /\ row.action = "CLEAR_EXCEPTION" => Requested(h) \subseteq received[c] \/ row.ack
        BY <4>3, StayGuards
      <4> HIDE DEF h, g, n
      <4>6. ASSUME NEW i \in 1..(n + 1), NEW j \in 1..(n + 1), i < j, SamePeriod(g, i, j)
            PROVE  /\ g[i].docs \cap g[j].docs = {}
                   /\ g[j].action = "CLEAR_EXCEPTION" =>
                        g[i].docs \subseteq received[c] \/ g[j].ack
        <5>1. i \in 1..n
          BY <4>1, <4>6
        <5>2. CASE j = n + 1
          <6>1. \A k \in (i + 1)..(n + 1) : g[k].before = "AWAITING_INFORMATION"
            BY <4>6, <5>2 DEF SamePeriod
          <6>2. row.before = "AWAITING_INFORMATION"
            BY <4>1, <5>1, <6>1
          <6>3. \A k \in (i + 1)..n : h[k].before = "AWAITING_INFORMATION"
            BY <4>1, <5>1, <6>1
          <6>4. g[i].docs \subseteq Requested(h)
            BY <4>1, <4>4, <5>1, <6>3
          <6>5. QED
            BY <4>1, <4>5, <5>2, <6>2, <6>4
        <5>3. CASE j \in 1..n
          <6>1. /\ \A k \in (i + 1)..j : k \in 1..n
                /\ \A k \in (i + 1)..(j - 1) : k \in 1..n
            BY <4>1, <5>1, <5>3
          <6>2. SamePeriod(h, i, j)
            BY <4>1, <4>6, <5>1, <6>1 DEF SamePeriod
          <6>3. QED
            BY <4>1, <4>2, <4>6, <5>1, <5>3, <6>2 DEF StayKept
        <5>4. QED
          BY <4>1, <5>2, <5>3
      <4>7. StayKept(g, received[c])
        BY <4>1, <4>6 DEF StayKept
      <4>8. QED
        BY <3>2, <4>7 DEF g
    <3>4. CASE c # d
      <4>1. actions'[c] = actions[c]
        BY <1>2, <3>1, <3>4, Appended DEF Written
      <4>2. QED
        BY <2>1, <3>2, <4>1
    <3>5. QED
      BY <3>3, <3>4
  <2>3. ASSUME NEW d \in Cases, ReceiveDocument(d), NEW c \in Cases
        PROVE  StayKept(actions'[c], received'[c])
    <3>1. actions' = actions /\ received[c] \subseteq received'[c]
      BY <1>2, <2>3 DEF ReceiveDocument, TypeOK
    <3>2. QED
      BY <2>1, <3>1
  <2>4. CASE UNCHANGED <<actions, received>>
    BY <1>2, <2>4 DEF StaysKept
  <2>5. StaysKept' <=> \A c \in Cases : StayKept(actions'[c], received'[c])
    BY DEF StaysKept, StayKept, SamePeriod
  <2>6. QED
    BY <1>2, <2>2, <2>3, <2>4, <2>5
       DEF Next, DetectExceptions, Observe, DeactivateUser, vars
<1>3. QED
  BY <1>1, <1>2, TypeCorrect, HistoryStaysInOrder, PTL DEF Spec

(* G-DUP holds over a whole stay in AWAITING_INFORMATION, provided that    *)
(* the clock never steps back: the stay is found by timestamps, and a      *)
(* request that ties with the entry counts.                                *)
THEOREM NothingRequestedTwice ==
  ASSUME \A s \in ClockSteps : s >= 0
  PROVE  Spec => []NoDuplicateRequest
<1>1. StaysKept => NoDuplicateRequest
  BY DEF StaysKept, StayKept, NoDuplicateRequest
<1>2. QED
  BY <1>1, StaysStayKept, PTL

(* G-ACK speaks of every document requested in the stay, under the same    *)
(* assumption: none outstanding is passed over in silence.                 *)
THEOREM NothingPassedOver ==
  ASSUME \A s \in ClockSteps : s >= 0
  PROVE  Spec => []OutstandingAcknowledged
<1>1. StaysKept => OutstandingAcknowledged
  BY DEF StaysKept, StayKept, OutstandingAcknowledged
<1>2. QED
  BY <1>1, StaysStayKept, PTL
=============================================================================
