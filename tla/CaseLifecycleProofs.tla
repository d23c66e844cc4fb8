-------------------------- MODULE CaseLifecycleProofs --------------------------
(***************************************************************************)
(* The proof that CaseWorkflow implements CaseLifecycle: the case's status *)
(* column is the status, its open exceptions wait, its cleared ones are    *)
(* settled, and its actions without their data are the log.                *)
(***************************************************************************)
EXTENDS CaseExceptionProofs, SequenceTheorems

(* What CaseLifecycle's log holds of an action row.                        *)
LogRow(row) == [action |-> row.action, before |-> row.before, after |-> row.after]

(* Writing an action row appends to the log what CaseLifecycle holds of it.*)
LEMMA DecisionsAppended ==
  ASSUME NEW h \in Seq(ActionRow), NEW row \in ActionRow
  PROVE  Decisions(Append(h, row)) = Append(Decisions(h), LogRow(row))
<1> DEFINE T == [action : UserActions, before : Statuses, after : Statuses]
           n == Len(h)
           s == Decisions(Append(h, row))
           t == Append(Decisions(h), LogRow(row))
<1>1. /\ n \in Nat
      /\ DOMAIN h = 1..n
      /\ DOMAIN Append(h, row) = 1..(n + 1)
      /\ \A i \in 1..n : h[i] \in ActionRow /\ Append(h, row)[i] = h[i]
      /\ Append(h, row)[n + 1] = row
  OBVIOUS
<1>2. \A a \in ActionRow : LogRow(a) \in T
  BY DEF LogRow, ActionRow
<1> HIDE DEF n, T
<1>3. /\ Decisions(h) \in [1..n -> T]
      /\ \A i \in 1..n : Decisions(h)[i] = LogRow(h[i])
  BY <1>1, <1>2 DEF Decisions, LogRow
<1>4. Decisions(h) \in Seq(T) /\ Len(Decisions(h)) = n
  <2>1. Decisions(h) \in Seq(T)
    BY <1>1, <1>3, SeqDef
  <2>2. QED
    BY <1>1, <1>3, <2>1, LenProperties
<1>5. \A i \in 1..(n + 1) :
        s[i] = IF i = n + 1 THEN LogRow(row) ELSE LogRow(h[i])
  BY <1>1 DEF Decisions, LogRow
<1>6. s \in [1..(n + 1) -> T]
  BY <1>1, <1>2, <1>5 DEF Decisions
<1>7. s \in Seq(T) /\ Len(s) = n + 1
  <2> HIDE DEF s
  <2>1. s \in Seq(T)
    BY <1>1, <1>6, SeqDef
  <2>2. QED
    BY <1>1, <1>6, <2>1, LenProperties
<1>8. /\ t \in Seq(T)
      /\ Len(t) = n + 1
      /\ \A i \in 1..(n + 1) : t[i] = IF i = n + 1 THEN LogRow(row) ELSE Decisions(h)[i]
  BY <1>1, <1>2, <1>4
<1>9. \A i \in 1..(n + 1) : s[i] = t[i]
  BY <1>1, <1>3, <1>5, <1>8
<1> HIDE DEF s, t
<1>10. s = t
  BY <1>7, <1>8, <1>9, SeqEqual
<1>11. QED
  BY <1>10 DEF s, t

-----------------------------------------------------------------------------
(* The rows seen as a case's life.                                         *)
Status == [c \in Cases |-> case[c].status]
History == [c \in Cases |-> Decisions(actions[c])]

(* An accepted command decides, or settles every open exception at once.   *)
LEMMA ExecuteDecides ==
  ASSUME TypeOK, NEW c \in Cases, Execute(c)
  PROVE  Lifecycle!Next
<1>1. PICK cmd \in Commands(ExceptionRow), key \in KeyInputs,
           version \in Versions(c), row \in ActionRow :
        Written(c, cmd, key, version, row) /\ Moved(c, row) /\ Settled(c, cmd, row)
  BY Execution
<1>2. /\ case[c].status # "CLEARED"
      /\ <<case[c].status, cmd.action>> \notin RedundantRows
      /\ cmd.action = "CLEAR_EXCEPTION" => cmd.ids = open[c]
  BY <1>1, Permitted DEF Written
<1>3. /\ row.action = cmd.action
      /\ row.before = case[c].status
      /\ row.after = Destination[cmd.action]
      /\ Log(c, row, version)
  BY <1>1 DEF Written
<1>4. Status' = [Status EXCEPT ![c] = Destination[cmd.action]]
  <2>1. /\ case'[c].status = Destination[cmd.action]
        /\ \A d \in Cases \ {c} : case'[d] = case[d]
    BY <1>1, <1>3 DEF Moved, TypeOK
  <2>2. QED
    BY <2>1 DEF Status
<1>5. History' = [History EXCEPT ![c] = Append(@,
        [action |-> cmd.action, before |-> Status[c], after |-> Destination[cmd.action]])]
  <2>1. actions[c] \in Seq(ActionRow)
    BY DEF TypeOK
  <2>2. /\ actions'[c] = Append(actions[c], row)
        /\ \A d \in Cases \ {c} : actions'[d] = actions[d]
    BY <1>3 DEF Log, TypeOK
  <2>3. Decisions(actions'[c]) = Append(Decisions(actions[c]), LogRow(row))
    BY <2>1, <2>2, DecisionsAppended
  <2>4. LogRow(row) =
          [action |-> cmd.action, before |-> Status[c], after |-> Destination[cmd.action]]
    BY <1>3 DEF LogRow, Status
  <2>5. QED
    BY <2>2, <2>3, <2>4 DEF History
<1>6. cmd.action \in UserActions
  BY DEF Commands, RequestCommands, ReviewCommands, ClearCommands,
         HoldCommands, EscalateCommands, UserActions
<1>7. Status[c] = case[c].status
  BY DEF Status
<1>8. CASE cmd.action = "CLEAR_EXCEPTION"
  <2>1. /\ open' = [open EXCEPT ![c] = {}]
        /\ cleared' = [cleared EXCEPT ![c] = @ \cup open[c]]
    BY <1>1, <1>2, <1>8 DEF Settled, TypeOK
  <2>2. Lifecycle!Settle(c)
    BY <1>2, <1>4, <1>5, <1>7, <1>8, <2>1
       DEF Lifecycle!Settle, Lifecycle!Logged, Status, History, Destination
  <2>3. QED
    BY <2>2 DEF Lifecycle!Next
<1>9. CASE cmd.action # "CLEAR_EXCEPTION"
  <2>1. /\ cmd.action \in DOMAIN Lifecycle!Outcome
        /\ Lifecycle!Outcome[cmd.action] = Destination[cmd.action]
    BY <1>6, <1>9 DEF Lifecycle!Outcome, UserActions, Destination
  <2>2. \/ case[c].status # Destination[cmd.action]
        \/ cmd.action = "REQUEST_INFORMATION"
    BY <1>2, <1>6, <1>9 DEF RedundantRows, UserActions, Destination
  <2>3. UNCHANGED <<open, cleared>>
    BY <1>1, <1>9 DEF Settled
  <2>4. Lifecycle!Decide(c, cmd.action)
    BY <1>2, <1>4, <1>5, <1>7, <2>1, <2>2, <2>3
       DEF Lifecycle!Decide, Lifecycle!Logged, Status, History
  <2>5. QED
    BY <2>1, <2>4 DEF Lifecycle!Next
<1>10. QED
  BY <1>8, <1>9

(* A re-evaluation replaces what waits by findings that never waited       *)
(* before, and touches neither status, settled findings nor log.           *)
LEMMA DetectReevaluates ==
  ASSUME TypeOK, OpenAreCurrent, ExceptionsApart, NEW c \in Cases, DetectExceptions(c)
  PROVE  Lifecycle!Next
<1>1. PICK found \in SUBSET ExceptionRow, t \in ClockReads :
        /\ \A e \in found : e.case = c /\ e.evaluation = evaluations[c] + 1
        /\ open' = [open EXCEPT ![c] = found]
        /\ case' = [case EXCEPT ![c] = Projected(c, found, t)]
        /\ UNCHANGED <<cleared, actions>>
  BY Detection
<1>2. open'[c] = found /\ open' = [open EXCEPT ![c] = open'[c]]
  BY <1>1 DEF TypeOK
<1>3. found \cap (open[c] \cup cleared[c]) = {}
  <2>1. \A e \in open[c] \cup cleared[c] :
          e.evaluation \in Nat /\ e.evaluation <= evaluations[c]
    BY DEF ExceptionsApart, ExceptionsOf, TypeOK, ExceptionRow
  <2>2. evaluations[c] \in Nat
    BY DEF TypeOK
  <2>3. QED
    BY <1>1, <2>1, <2>2
<1>4. Status' = Status
  <2>1. Projected(c, found, t).status = case[c].status
    BY ProjectedColumns
  <2>2. \A d \in Cases : case'[d].status = case[d].status
    BY <1>1, <2>1 DEF TypeOK
  <2>3. QED
    BY <2>2 DEF Status
<1>5. History' = History
  BY <1>1 DEF History
<1>6. Lifecycle!Reevaluate(c)
  BY <1>1, <1>2, <1>3, <1>4, <1>5 DEF Lifecycle!Reevaluate, Status, History
<1>7. QED
  BY <1>6 DEF Lifecycle!Next

(* The service implements the life of a case: seen through the mapping,    *)
(* each of its steps is a decision, a settlement, a re-evaluation or       *)
(* nothing at all.                                                         *)
THEOREM ServiceImplementsLifecycle == Spec => ImplementsLifecycle
<1>1. Init => Lifecycle!Init
  <2> SUFFICES ASSUME Init PROVE Lifecycle!Init
    OBVIOUS
  <2>1. cleared = [c \in Cases |-> {}]
    BY DEF Init
  <2>2. \A c \in Cases : Decisions(actions[c]) = <<>>
    BY DEF Init, Decisions
  <2>3. QED
    BY <2>1, <2>2 DEF Lifecycle!Init
<1>2. ASSUME TypeOK, OpenAreCurrent, ExceptionsApart, [Next]_vars
      PROVE  [Lifecycle!Next]_Lifecycle!lifecycle
  <2>1. ASSUME NEW c \in Cases, Execute(c) PROVE Lifecycle!Next
    BY <1>2, <2>1, ExecuteDecides
  <2>2. ASSUME NEW c \in Cases, DetectExceptions(c) PROVE Lifecycle!Next
    BY <1>2, <2>2, DetectReevaluates
  <2>3. ASSUME UNCHANGED <<case, open, cleared, actions>>
        PROVE  UNCHANGED Lifecycle!lifecycle
    BY <2>3 DEF Lifecycle!lifecycle
  <2>4. QED
    BY <1>2, <2>1, <2>2, <2>3 DEF Next, Observe, ReceiveDocument, DeactivateUser, vars
<1>3. QED
  BY <1>1, <1>2, TypeCorrect, OpenStayCurrent, ExceptionsStayApart, PTL
     DEF Spec, ImplementsLifecycle, Lifecycle!Spec
=============================================================================
