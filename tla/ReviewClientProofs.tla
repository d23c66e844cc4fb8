------------------------- MODULE ReviewClientProofs -------------------------
(***************************************************************************)
(* Proofs about a review screen and the case it decides on, for any        *)
(* findings, fillings and number of submissions: the types, that a         *)
(* decision is recorded on what the reviewer saw, and not twice.           *)
(***************************************************************************)
EXTENDS ReviewClient, TLAPS

(* A permitted command meets its guards.                                   *)
LEMMA Permits ==
  ASSUME NEW c \in Cases, NEW cmd \in Commands(Findings), EvaluateTransition(Context(c), cmd) = {}
  PROVE  /\ c.status # "CLEARED"
         /\ <<c.status, cmd.action>> \notin RedundantRows
         /\ cmd.action = "CLEAR_EXCEPTION" => cmd.ids = c.open
         /\ cmd.action = "REQUEST_INFORMATION" /\ c.status = "AWAITING_INFORMATION" =>
              NormalizedTypes(cmd) \cap c.requested = {}
<1>1. /\ Context(c).status = c.status /\ Context(c).open = c.open
      /\ Context(c).requested = c.requested
  BY DEF Context
<1>2. /\ c.status # "CLEARED"
      /\ <<c.status, cmd.action>> \notin RedundantRows
      /\ GuardRefusals(Context(c), cmd) = {}
  BY <1>1 DEF EvaluateTransition
<1>3. ASSUME cmd.action = "CLEAR_EXCEPTION"
      PROVE  cmd.ids = c.open
  <2>1. GRec(Context(c), cmd) = {}
    BY <1>2, <1>3 DEF GuardRefusals, GuardsOf
  <2>2. QED
    BY <1>1, <2>1 DEF GRec
<1>4. ASSUME cmd.action = "REQUEST_INFORMATION", c.status = "AWAITING_INFORMATION"
      PROVE  NormalizedTypes(cmd) \cap c.requested = {}
  <2>1. GuardsOf(Context(c).status, cmd.action) = {"G-DOC", "G-DUP"}
    BY <1>1, <1>4 DEF GuardsOf
  <2>2. GDup(Context(c), cmd) = {}
    BY <1>2, <2>1 DEF GuardRefusals
  <2>3. QED
    BY <1>1, <2>2 DEF GDup
<1>5. QED
  BY <1>2, <1>3, <1>4

(* What a command may carry.                                               *)
LEMMA CommandsTyped ==
  ASSUME NEW cmd \in Commands(Findings)
  PROVE  /\ cmd.action \in UserActions
         /\ cmd.action = "REQUEST_INFORMATION" => NormalizedTypes(cmd) \subseteq DocTypes
<1>1. cmd.action \in UserActions
  BY DEF Commands, RequestCommands, ReviewCommands, ClearCommands, HoldCommands,
         EscalateCommands, UserActions
<1>2. ASSUME cmd.action = "REQUEST_INFORMATION"
      PROVE  NormalizedTypes(cmd) \subseteq DocTypes
  <2>1. cmd.docs \subseteq RawTypes
    BY <1>2 DEF Commands, RequestCommands, ReviewCommands, ClearCommands, HoldCommands,
                EscalateCommands
  <2>2. QED
    BY <2>1, TypesAssumption DEF NormalizedTypes
<1>3. QED
  BY <1>1, <1>2

(* A decision leaves a case of the next version, in the status its action  *)
(* leads to.                                                               *)
LEMMA DecidedTyped ==
  ASSUME NEW c \in Cases, NEW cmd \in Commands(Findings)
  PROVE  /\ Decided(c, cmd) \in Cases
         /\ Decided(c, cmd).version = c.version + 1
         /\ Decided(c, cmd).status = Destination[cmd.action]
         /\ Decided(c, cmd).last = cmd.action
         /\ cmd.action = "REQUEST_INFORMATION" =>
              /\ Decided(c, cmd).docs = NormalizedTypes(cmd)
              /\ NormalizedTypes(cmd) \subseteq Decided(c, cmd).requested
<1>1. /\ cmd.action \in UserActions
      /\ cmd.action = "REQUEST_INFORMATION" => NormalizedTypes(cmd) \subseteq DocTypes
  BY CommandsTyped
<1>2. Destination[cmd.action] \in Statuses
  BY <1>1 DEF Destination, UserActions, Statuses
<1>3. Requested(c, cmd) \subseteq DocTypes
  BY <1>1 DEF Requested, Cases
<1>4. Decided(c, cmd) \in Cases
  BY <1>1, <1>2, <1>3 DEF Decided, Cases
<1>5. QED
  BY <1>4 DEF Decided, Requested

(* The panel builds a command the API accepts in shape.                    *)
LEMMA CommandBuilt ==
  ASSUME NEW action \in UserActions, NEW just \in Justs,
         NEW fields, fields.docs \subseteq RawTypes, fields.unlisted \in BOOLEAN,
         fields.basis \in Bases, fields.ack \in BOOLEAN,
         action = "REQUEST_INFORMATION" => fields.docs # {},
         NEW ids \in SUBSET Findings, NEW status
  PROVE  /\ Command(action, just, fields, ids, status) \in Commands(Findings)
         /\ Command(action, just, fields, ids, status).action = action
<1>1. CASE action = "REQUEST_INFORMATION"
  BY <1>1 DEF Command, Commands, RequestCommands
<1>2. CASE action = "CLEAR_EXCEPTION"
  <2> DEFINE ack == status = "AWAITING_INFORMATION" /\ fields.ack
  <2>1. ack \in BOOLEAN
    BY Zenon
  <2>2. Command(action, just, fields, ids, status) =
          [action |-> action, just |-> just, ids |-> ids, basis |-> fields.basis, ack |-> ack]
    BY <1>2 DEF Command
  <2> HIDE DEF ack
  <2>3. [action |-> action, just |-> just, ids |-> ids, basis |-> fields.basis, ack |-> ack]
          \in ClearCommands(Findings)
    BY <1>2, <2>1 DEF ClearCommands
  <2>4. QED
    BY <1>2, <2>2, <2>3 DEF Commands
<1>3. CASE action = "SEND_FOR_SPECIALIST_REVIEW"
  BY <1>3 DEF Command, Commands, ReviewCommands
<1>4. CASE action = "ESCALATE_TO_SUPERVISOR"
  BY <1>4 DEF Command, Commands, EscalateCommands
<1>5. CASE action = "PLACE_ON_HOLD"
  BY <1>5 DEF Command, Commands, HoldCommands
<1>6. QED
  BY <1>1, <1>2, <1>3, <1>4, <1>5 DEF UserActions

-----------------------------------------------------------------------------
(* The case changes by a permitted command only, of this screen or of      *)
(* another caller.                                                         *)
CaseMoves ==
  \/ UNCHANGED case
  \/ \E cmd \in Commands(Findings) :
       EvaluateTransition(Context(case), cmd) = {} /\ case' = Decided(case, cmd)

LEMMA ExecuteMoves ==
  ASSUME TypeOK, NEW post \in posts, Execute(post)
  PROVE  /\ CaseMoves
         /\ case' # case =>
              /\ ~VersionConflict(post) /\ ~Refused(post)
              /\ case' = Decided(case, post.cmd)
<1>1. post.cmd \in Commands(Findings)
  BY DEF TypeOK, Posts
<1>2. case' # case =>
        /\ Answered(post) = "recorded"
        /\ case' = Decided(case, post.cmd)
  BY DEF Execute
<1>3. Answered(post) = "recorded" => ~VersionConflict(post) /\ ~Refused(post)
  BY DEF Answered, Refused
<1>4. ~Refused(post) => EvaluateTransition(Context(case), post.cmd) = {}
  BY DEF Refused
<1>5. QED
  BY <1>1, <1>2, <1>3, <1>4 DEF CaseMoves

LEMMA ElsewhereMoves ==
  ASSUME TypeOK, Elsewhere
  PROVE  CaseMoves
<1>1. PICK action \in OtherChoices, f \in Fillings :
        LET cmd == Command(action, f.just, f, case.open, case.status) IN
        /\ action = "REQUEST_INFORMATION" => f.docs # {}
        /\ EvaluateTransition(Context(case), cmd) = {}
        /\ case' = Decided(case, cmd)
  BY DEF Elsewhere
<1>2. case.open \in SUBSET Findings /\ action \in UserActions
  BY ChoicesAssumption DEF TypeOK, Cases
<1>3. Command(action, f.just, f, case.open, case.status) \in Commands(Findings)
  BY <1>1, <1>2, FillingsAssumption, CommandBuilt
<1>4. QED
  BY <1>1, <1>3 DEF CaseMoves

LEMMA NextMoves ==
  ASSUME TypeOK, Next
  PROVE  CaseMoves
<1>1. ASSUME NEW post \in posts, Execute(post) PROVE CaseMoves
  BY <1>1, ExecuteMoves
<1>2. CASE Elsewhere
  BY <1>2, ElsewhereMoves
<1>3. QED
  BY <1>1, <1>2 DEF Next, Fetched, Serve, Arrive, Lose, Refetch, Select, Enter, Submit,
     Submitted, Confirm, Deny, LosePost, CaseMoves

(* Versions only grow.                                                     *)
LEMMA VersionsGrow ==
  ASSUME case \in Cases, CaseMoves
  PROVE  /\ case' \in Cases
         /\ case' = case \/ case'.version = case.version + 1
         /\ case.version <= case'.version
<1>1. CASE UNCHANGED case
  BY <1>1 DEF Cases
<1>2. ASSUME NEW cmd \in Commands(Findings), case' = Decided(case, cmd)
      PROVE  case' \in Cases /\ case'.version = case.version + 1
  BY <1>2, DecidedTyped
<1>3. QED
  BY <1>1, <1>2 DEF CaseMoves, Cases

-----------------------------------------------------------------------------
(* A fetch, its answer or its loss keeps the types.                        *)
LEMMA FetchedTyped ==
  ASSUME TypeOK, NEW k \in Queries, Fetched(k) \/ Refetch(k)
  PROVE  TypeOK'
<1>0. /\ case \in Cases /\ "actions" \in Queries
      /\ EmptyForm \in Forms /\ Untold.kind # "pending"
      /\ Untold \in [kind : {"none", "pending", "recorded", "conflict", "refused"}, post : Nat]
  BY DEF TypeOK, Queries, EmptyForm, Fields, Forms, Bases, Untold
<1>1. CASE Serve(k)
  <2>1. /\ fetch' \in [Queries -> Cases \cup {None, Asked}]
        /\ \A q \in Queries : fetch'[q] = fetch[q] \/ fetch'[q] = case
    BY <1>0, <1>1 DEF Serve, TypeOK
  <2>2. \A q \in Queries : fetch'[q] \notin {None, Asked} => fetch'[q].version <= case.version
    BY <1>0, <2>1 DEF TypeOK, Cases
  <2>3. QED
    BY <1>1, <2>1, <2>2 DEF Serve, TypeOK
<1>2. CASE Arrive(k)
  <2>1. fetch[k] \in Cases /\ fetch[k].version <= case.version
    BY <1>2 DEF Arrive, TypeOK
  <2>2. /\ cache' \in [Queries -> Cases \cup {None}]
        /\ \A q \in Queries : cache'[q] = cache[q] \/ cache'[q] = fetch[k]
    BY <1>2, <2>1 DEF Arrive, TypeOK
  <2>3. /\ fetch' \in [Queries -> Cases \cup {None, Asked}]
        /\ \A q \in Queries : fetch'[q] = fetch[q] \/ fetch'[q] \in {None, Asked}
    <3>1. \A q \in Queries : fetch'[q] =
            IF q = "actions"
            THEN IF k = "actions" THEN None
                 ELSE IF k = "shipment" /\ cache["shipment"] = None THEN Asked ELSE fetch[q]
            ELSE IF q = k THEN None ELSE fetch[q]
      BY <1>0, <1>2 DEF Arrive, TypeOK
    <3>2. DOMAIN fetch' = Queries /\ fetch' = [q \in Queries |-> fetch'[q]]
      BY <1>2 DEF Arrive, TypeOK
    <3>3. \A q \in Queries : fetch'[q] \in Cases \cup {None, Asked}
      BY <3>1 DEF TypeOK
    <3>4. QED
      BY <3>1, <3>2, <3>3
  <2>4. /\ \A q \in Queries : cache'[q] # None => cache'[q].version <= case.version
        /\ \A q \in Queries : fetch'[q] \notin {None, Asked} => fetch'[q].version <= case.version
    BY <2>1, <2>2, <2>3 DEF TypeOK
  <2>5. failed' \subseteq Queries
    BY <1>2 DEF Arrive, TypeOK
  <2>6. QED
    BY <1>2, <2>2, <2>3, <2>4, <2>5 DEF Arrive, TypeOK
<1>3. CASE Lose(k)
  <2>1. /\ fetch' \in [Queries -> Cases \cup {None, Asked}]
        /\ \A q \in Queries : fetch'[q] = fetch[q] \/ fetch'[q] = None
        /\ failed' \subseteq Queries
    BY <1>3 DEF Lose, TypeOK
  <2>2. /\ form' \in Forms
        /\ outcome' \in [kind : {"none", "pending", "recorded", "conflict", "refused"}, post : Nat]
        /\ outcome'.kind = "pending" => \E post \in posts : post.id = outcome'.post
    <3>1. \/ form' = EmptyForm /\ outcome' = Untold
          \/ form' = form /\ outcome' = outcome
      BY <1>3 DEF Lose, Unmount
    <3>2. QED
      BY <1>0, <3>1 DEF TypeOK
  <2>3. QED
    BY <1>3, <2>1, <2>2 DEF Lose, TypeOK
<1>4. CASE Refetch(k)
  <2>1. /\ fetch' \in [Queries -> Cases \cup {None, Asked}]
        /\ \A q \in Queries : fetch'[q] = fetch[q] \/ fetch'[q] = Asked
    BY <1>4 DEF Refetch, TypeOK
  <2>2. focus' \in 0..MaxFocus
    BY <1>4, BoundsAssumption DEF Refetch, TypeOK
  <2>3. QED
    BY <1>4, <2>1, <2>2 DEF Refetch, TypeOK
<1>5. QED
  BY <1>1, <1>2, <1>3, <1>4 DEF Fetched

(* So does what the reviewer does in the panel.                            *)
LEMMA PanelTyped ==
  ASSUME TypeOK, \/ \E action \in Choices : Select(action)
                 \/ \E filling \in Fillings : Enter(filling)
                 \/ Submit
  PROVE  TypeOK'
<1>1. ASSUME NEW action \in Choices, Select(action)
      PROVE  TypeOK'
  <2>1. form' \in Forms
    BY <1>1, ChoicesAssumption DEF Select, EmptyForm, Fields, Forms, Bases, TypeOK
  <2>2. QED
    BY <1>1, <2>1 DEF Select, screen, Untold, TypeOK
<1>2. ASSUME NEW filling \in Fillings, Enter(filling)
      PROVE  TypeOK'
  <2>1. form' \in Forms
    BY <1>2, FillingsAssumption DEF Enter, Forms, TypeOK
  <2>2. QED
    BY <1>2, <2>1 DEF Enter, screen, TypeOK
<1>3. CASE Submit
  <2> DEFINE shown == cache["shipment"]
             cmd == Command(form.action, form.just, form.fields, cache["exceptions"].open,
                            shown.status)
             post == [id |-> submits', version |-> shown.version, shown |-> shown,
                      result |-> None, cmd |-> cmd]
  <2>1. shown \in Cases /\ cache["exceptions"] \in Cases
    BY <1>3 DEF Submit, Panel, TypeOK, Queries
  <2>2. /\ form.action \in UserActions /\ form.just \in Justs
        /\ form.fields.docs \subseteq RawTypes /\ form.fields.unlisted \in BOOLEAN
        /\ form.fields.basis \in Bases /\ form.fields.ack \in BOOLEAN
        /\ form.action = "REQUEST_INFORMATION" => form.fields.docs # {}
    BY <1>3 DEF Submit, RequiredFieldsValid, TypeOK, Forms
  <2>3. cache["exceptions"].open \in SUBSET Findings
    BY <2>1 DEF Cases
  <2>4. cmd \in Commands(Findings)
    BY <2>2, <2>3, CommandBuilt
  <2>5. submits' \in 0..MaxSubmits /\ submits' \in Nat
    BY <1>3, BoundsAssumption DEF Submit, TypeOK
  <2> HIDE DEF cmd, shown
  <2>6. post \in Posts
    BY <2>1, <2>4, <2>5 DEF Posts, Cases
  <2>7. posts' = posts \cup {post} /\ outcome' = [kind |-> "pending", post |-> post.id]
    BY <1>3 DEF Submit, shown, cmd
  <2>8. post.id = submits' /\ post.result = None
    OBVIOUS
  <2> HIDE DEF post
  <2>9. /\ posts' \subseteq Posts
        /\ outcome' \in [kind : {"none", "pending", "recorded", "conflict", "refused"}, post : Nat]
        /\ \E sent \in posts' : sent.id = outcome'.post
        /\ \A sent \in posts' : sent.result # None => sent.result.version <= case.version
    BY <2>5, <2>6, <2>7, <2>8 DEF TypeOK
  <2>10. QED
    BY <1>3, <2>5, <2>9 DEF Submit, screen, TypeOK
<1>4. QED
  BY <1>1, <1>2, <1>3

(* And everything that happens to a submission.                            *)
LEMMA SubmittedTyped ==
  ASSUME TypeOK, Submitted
  PROVE  TypeOK'
<1> DEFINE Said == [kind : {"none", "pending", "recorded", "conflict", "refused"}, post : Nat]
<1>1. ASSUME NEW post \in posts, Execute(post)
      PROVE  TypeOK'
  <2>1. case' \in Cases /\ case.version <= case'.version
    BY <1>1, ExecuteMoves, VersionsGrow DEF TypeOK
  <2>2. PICK done \in Posts :
          /\ done.id = post.id /\ done.result.version = case'.version
          /\ posts' = (posts \ {post}) \cup {done}
    <3> DEFINE kind == Answered(post)
               version == (IF kind = "recorded" THEN Decided(case, post.cmd) ELSE case).version
               done == [post EXCEPT !.result = [kind |-> kind, version |-> version]]
    <3>1. kind \in {"refused", "conflict", "recorded"}
      BY DEF Answered
    <3>2. version \in Nat
      BY <1>1, DecidedTyped DEF TypeOK, Posts, Cases
    <3>3. posts' = (posts \ {post}) \cup {done} /\ version = case'.version
      BY <1>1 DEF Execute
    <3> HIDE DEF kind, version
    <3>4. [kind |-> kind, version |-> version] \in Results
      BY <3>1, <3>2 DEF Results
    <3>5. done \in Posts /\ done.id = post.id /\ done.result.version = version
      BY <3>4 DEF TypeOK, Posts
    <3>6. QED
      BY <3>3, <3>5
  <2>3. posts' \subseteq Posts
    BY <2>2 DEF TypeOK
  <2>4. outcome'.kind = "pending" => \E sent \in posts' : sent.id = outcome'.post
    BY <1>1, <2>2 DEF Execute, TypeOK
  <2>5. \A k \in Queries :
          /\ cache[k] # None => cache[k].version <= case'.version
          /\ fetch[k] \notin {None, Asked} => fetch[k].version <= case'.version
    BY <2>1 DEF TypeOK, Cases
  <2>6. /\ told <= case'.version
        /\ \A sent \in posts' : sent.result # None => sent.result.version <= case'.version
    <3>1. \A sent \in posts : sent.result # None =>
            sent.result.version \in Nat /\ sent.result.version <= case.version
      BY DEF TypeOK, Posts, Results
    <3>2. QED
      BY <2>1, <2>2, <3>1 DEF TypeOK, Cases
  <2>7. QED
    BY <1>1, <2>1, <2>3, <2>4, <2>5, <2>6 DEF Execute, screen, TypeOK
<1>2. ASSUME NEW post \in posts, NEW kind \in {"none", "recorded", "conflict", "refused"},
             Tell(post, kind), posts' = posts \ {post}
      PROVE  /\ outcome' \in Said
             /\ outcome'.kind = "pending" => \E sent \in posts' : sent.id = outcome'.post
  <2>1. CASE outcome.post = post.id
    BY <1>2, <2>1 DEF Tell
  <2>2. CASE outcome.post # post.id
    BY <1>2, <2>2 DEF Tell, TypeOK
  <2>3. QED
    BY <2>1, <2>2
<1>3. \A post \in posts : post.result # None => post.result \in Results
  BY DEF TypeOK, Posts
<1>4. ASSUME NEW post \in posts, Deny(post)
      PROVE  TypeOK'
  <2>1. post.result.kind \in {"none", "recorded", "conflict", "refused"}
    BY <1>3, <1>4 DEF Deny, Results
  <2>2. QED
    BY <1>2, <1>4, <2>1 DEF Deny, screen, TypeOK
<1>5. ASSUME NEW post \in posts, LosePost(post)
      PROVE  TypeOK'
  BY <1>2, <1>5 DEF LosePost, screen, TypeOK
<1>6. ASSUME NEW post \in posts, Confirm(post)
      PROVE  TypeOK'
  <2>1. fetch' \in [Queries -> Cases \cup {None, Asked}] /\ \A k \in Queries : fetch'[k] = Asked
    BY <1>6 DEF Confirm, Invalidate
  <2>2. told' \in Nat /\ told' <= case.version
    BY <1>3, <1>6 DEF Confirm, Results, TypeOK
  <2>3. QED
    BY <1>2, <1>6, <2>1, <2>2 DEF Confirm, TypeOK
<1>7. QED
  BY <1>1, <1>4, <1>5, <1>6 DEF Submitted

LEMMA ElsewhereTyped ==
  ASSUME TypeOK, Elsewhere
  PROVE  TypeOK'
<1>1. case' \in Cases /\ case.version <= case'.version
  BY ElsewhereMoves, VersionsGrow DEF TypeOK
<1>2. \A k \in Queries :
        /\ cache[k] # None => cache[k].version <= case'.version
        /\ fetch[k] \notin {None, Asked} => fetch[k].version <= case'.version
  BY <1>1 DEF TypeOK, Cases
<1>3. told <= case'.version
  BY <1>1 DEF TypeOK, Cases
<1>4. \A sent \in posts : sent.result # None => sent.result.version <= case'.version
  <2>1. \A sent \in posts : sent.result # None =>
          sent.result.version \in Nat /\ sent.result.version <= case.version
    BY DEF TypeOK, Posts, Results
  <2>2. QED
    BY <1>1, <2>1 DEF TypeOK, Cases
<1>5. others' \in 0..MaxOthers
  BY BoundsAssumption DEF Elsewhere, TypeOK
<1>6. QED
  BY <1>1, <1>2, <1>3, <1>4, <1>5 DEF Elsewhere, screen, TypeOK

LEMMA NextTyped ==
  ASSUME TypeOK, Next
  PROVE  TypeOK'
BY FetchedTyped, PanelTyped, SubmittedTyped, ElsewhereTyped DEF Next

LEMMA InitTyped == Init => TypeOK
<1> SUFFICES ASSUME Init PROVE TypeOK
  OBVIOUS
<1>1. case \in Cases
  BY SeededAssumption DEF Init, Cases
<1>2. /\ cache \in [Queries -> Cases \cup {None}]
      /\ fetch \in [Queries -> Cases \cup {None, Asked}]
      /\ \A k \in Queries : cache[k] = None /\ fetch[k] \in {None, Asked}
  BY DEF Init
<1>3. form \in Forms
  BY DEF Init, EmptyForm, Fields, Forms, Bases
<1>4. /\ outcome \in [kind : {"none", "pending", "recorded", "conflict", "refused"}, post : Nat]
      /\ outcome.kind # "pending"
  BY DEF Init, Untold
<1>5. told \in Nat /\ told <= case.version
  BY DEF Init
<1>6. QED
  BY <1>1, <1>2, <1>3, <1>4, <1>5, BoundsAssumption DEF Init, TypeOK

(* What the screen holds is typed and no newer than the case, and a panel  *)
(* that waits has a submission on its way (ActionPanel.tsx).               *)
THEOREM ScreenTyped == Spec => []TypeOK
<1>1. TypeOK /\ [Next]_vars => TypeOK'
  <2> SUFFICES ASSUME TypeOK, [Next]_vars PROVE TypeOK'
    OBVIOUS
  <2>1. CASE UNCHANGED vars
    BY <2>1 DEF vars, TypeOK
  <2>2. QED
    BY <2>1, NextTyped
<1>2. QED
  BY <1>1, InitTyped, PTL DEF Spec

-----------------------------------------------------------------------------
(* What was read of the case at its present version is the case as it is:  *)
(* a version tells which state of the case somebody has seen.              *)
Tells(c) == c.version = case.version => c = case

ReadInv ==
  /\ \A k \in Queries : cache[k] # None => Tells(cache[k])
  /\ \A k \in Queries : fetch[k] \notin {None, Asked} => Tells(fetch[k])
  /\ \A post \in posts :
       post.version = post.shown.version /\ post.shown.version <= case.version /\ Tells(post.shown)

(* A move of the case makes everything read before older.                  *)
LEMMA ReadsAge ==
  ASSUME case \in Cases, CaseMoves, NEW c \in Cases, c.version <= case.version, Tells(c)
  PROVE  c.version <= case'.version /\ (c.version = case'.version => c = case')
<1>1. case' = case \/ case'.version = case.version + 1
  BY VersionsGrow
<1>2. QED
  BY <1>1 DEF Tells, Cases

(* What fills the cache was in flight, and what is put in flight is the    *)
(* case as it is.                                                          *)
LEMMA FilledFrom ==
  ASSUME TypeOK, Next, NEW k \in Queries
  PROVE  /\ \/ cache'[k] = cache[k]
            \/ cache'[k] = fetch[k] /\ fetch[k] \notin {None, Asked}
         /\ fetch'[k] = fetch[k] \/ fetch'[k] = case \/ fetch'[k] \in {None, Asked}
<1>1. ASSUME NEW q \in Queries, Fetched(q) \/ Refetch(q)
      PROVE  /\ \/ cache'[k] = cache[k]
                \/ cache'[k] = fetch[k] /\ fetch[k] \notin {None, Asked}
             /\ fetch'[k] = fetch[k] \/ fetch'[k] = case \/ fetch'[k] \in {None, Asked}
  <2>1. CASE Serve(q)
    BY <2>1 DEF Serve, TypeOK
  <2>2. CASE Arrive(q)
    BY <2>2 DEF Arrive, TypeOK
  <2>3. CASE Lose(q)
    BY <2>3 DEF Lose, TypeOK
  <2>4. CASE Refetch(q)
    BY <2>4 DEF Refetch, TypeOK
  <2>5. QED
    BY <1>1, <2>1, <2>2, <2>3, <2>4 DEF Fetched
<1>2. CASE \E post \in posts : Confirm(post)
  BY <1>2 DEF Confirm, Invalidate
<1>3. CASE UNCHANGED screen
  BY <1>3 DEF screen
<1>4. QED
  BY <1>1, <1>2, <1>3 DEF Next, Select, Enter, Submit, Submitted, Execute, Deny, LosePost, Elsewhere

LEMMA ReadStep ==
  ASSUME TypeOK, ReadInv, Next
  PROVE  ReadInv'
<1>1. CaseMoves /\ case \in Cases /\ case' \in Cases
  BY NextMoves, NextTyped DEF TypeOK
<1>2. ASSUME NEW c \in Cases, c.version <= case.version, Tells(c)
      PROVE  c.version <= case'.version /\ (c.version = case'.version => c = case')
  BY <1>1, <1>2, ReadsAge
<1>3. ASSUME NEW k \in Queries, cache'[k] # None
      PROVE  cache'[k].version = case'.version => cache'[k] = case'
  <2>1. \/ cache'[k] = cache[k]
        \/ cache'[k] = fetch[k] /\ fetch[k] \notin {None, Asked}
    BY FilledFrom
  <2>2. cache'[k] \in Cases /\ cache'[k].version <= case.version /\ Tells(cache'[k])
    BY <1>3, <2>1 DEF TypeOK, ReadInv
  <2>3. QED
    BY <1>2, <2>2
<1>4. ASSUME NEW k \in Queries, fetch'[k] \notin {None, Asked}
      PROVE  fetch'[k].version = case'.version => fetch'[k] = case'
  <2>1. \/ fetch'[k] = fetch[k]
        \/ fetch'[k] = case
    BY <1>4, FilledFrom
  <2>2. fetch'[k] \in Cases /\ fetch'[k].version <= case.version /\ Tells(fetch'[k])
    BY <1>1, <1>4, <2>1 DEF TypeOK, ReadInv, Tells, Cases
  <2>3. QED
    BY <1>2, <2>2
<1>5. ASSUME NEW post \in posts'
      PROVE  /\ post.version = post.shown.version /\ post.shown.version <= case'.version
             /\ post.shown.version = case'.version => post.shown = case'
  <2>1. /\ post.version = post.shown.version /\ post.shown \in Cases
        /\ post.shown.version <= case.version /\ Tells(post.shown)
    <3>1. CASE Submit
      <4>1. cache["shipment"] # None /\ "shipment" \in Queries
        BY <3>1 DEF Submit, Panel, Queries
      <4>2. post \in posts \/ (post.version = post.shown.version /\ post.shown = cache["shipment"])
        BY <3>1 DEF Submit
      <4>3. QED
        BY <4>1, <4>2 DEF TypeOK, Posts, ReadInv
    <3>2. ASSUME NEW sent \in posts, Execute(sent)
          PROVE  /\ post.version = post.shown.version /\ post.shown \in Cases
                 /\ post.shown.version <= case.version /\ Tells(post.shown)
      <4>1. post \in posts \/ (post.version = sent.version /\ post.shown = sent.shown)
        BY <3>2 DEF Execute, TypeOK, Posts
      <4>2. QED
        BY <4>1 DEF TypeOK, Posts, ReadInv
    <3>3. CASE posts' \subseteq posts
      BY <3>3 DEF TypeOK, Posts, ReadInv
    <3>4. QED
      BY <3>1, <3>2, <3>3
         DEF Next, Fetched, Serve, Arrive, Lose, Refetch, Select, Enter, Submitted,
             Confirm, Deny, LosePost, Elsewhere
  <2>2. QED
    BY <1>2, <2>1
<1>6. QED
  BY <1>3, <1>4, <1>5 DEF ReadInv, Tells

LEMMA ReadInvariant == Spec => [](TypeOK /\ ReadInv)
<1>1. Init => ReadInv
  BY DEF Init, ReadInv
<1>2. TypeOK /\ ReadInv /\ [Next]_vars => ReadInv'
  <2> SUFFICES ASSUME TypeOK, ReadInv, [Next]_vars PROVE ReadInv'
    OBVIOUS
  <2>1. CASE UNCHANGED vars
    BY <2>1 DEF vars, ReadInv, Tells
  <2>2. QED
    BY <2>1, ReadStep
<1>3. QED
  BY <1>1, <1>2, ScreenTyped, PTL DEF Spec

(* A decision is recorded only on the status the reviewer saw, and a       *)
(* clearance settles just what is open, for any number of reviewers, lost  *)
(* answers and fetches (hooks.ts, ActionPanel.tsx).                        *)
THEOREM DecisionsOnSeen == Spec => DecidedOnSeen
<1>1. TypeOK /\ ReadInv /\ [Next]_vars =>
        [\A post \in posts : Execute(post) /\ case' # case =>
           /\ post.shown.status = case.status
           /\ post.cmd.action = "CLEAR_EXCEPTION" => post.cmd.ids = case.open]_vars
  <2> SUFFICES ASSUME TypeOK, ReadInv, NEW post \in posts, Execute(post), case' # case
               PROVE  /\ post.shown.status = case.status
                      /\ post.cmd.action = "CLEAR_EXCEPTION" => post.cmd.ids = case.open
    OBVIOUS
  <2>1. ~VersionConflict(post) /\ ~Refused(post)
    BY ExecuteMoves
  <2>2. post.shown = case
    BY <2>1 DEF VersionConflict, ReadInv, Tells
  <2>3. EvaluateTransition(Context(case), post.cmd) = {}
    BY <2>1 DEF Refused
  <2>4. case \in Cases /\ post.cmd \in Commands(Findings)
    BY DEF TypeOK, Posts
  <2>5. QED
    BY <2>2, <2>3, <2>4, Permits
<1>2. QED
  BY <1>1, ReadInvariant, PTL DEF Spec, DecidedOnSeen

-----------------------------------------------------------------------------
(* The case is where its last action led, and what that action requested   *)
(* counts as requested.                                                    *)
LastInv ==
  /\ case.last # None => case.status = Destination[case.last]
  /\ case.last = "REQUEST_INFORMATION" => case.docs \subseteq case.requested

LEMMA LastStep ==
  ASSUME TypeOK, LastInv, CaseMoves
  PROVE  LastInv'
<1>1. CASE UNCHANGED case
  BY <1>1 DEF LastInv
<1>2. ASSUME NEW cmd \in Commands(Findings), case' = Decided(case, cmd)
      PROVE  LastInv'
  BY <1>2, DecidedTyped DEF TypeOK, LastInv
<1>3. QED
  BY <1>1, <1>2 DEF CaseMoves

(* The same action twice in a row is a request for other documents.        *)
LEMMA NotTwice ==
  ASSUME TypeOK, LastInv, CaseMoves, case' # case, case'.last = case.last
  PROVE  case.last = "REQUEST_INFORMATION" /\ case'.docs \cap case.docs = {}
<1>1. PICK cmd \in Commands(Findings) :
        EvaluateTransition(Context(case), cmd) = {} /\ case' = Decided(case, cmd)
  BY DEF CaseMoves
<1>2. case \in Cases /\ cmd.action \in UserActions
  BY CommandsTyped DEF TypeOK
<1>3. case.last = cmd.action /\ case.status = Destination[cmd.action]
  BY <1>1, <1>2, DecidedTyped, NoneAssumption DEF LastInv
<1>4. case.status # "CLEARED" /\ <<case.status, cmd.action>> \notin RedundantRows
  BY <1>1, <1>2, Permits
<1>5. cmd.action = "REQUEST_INFORMATION"
  BY <1>2, <1>3, <1>4 DEF UserActions, Destination, RedundantRows
<1>6. case.status = "AWAITING_INFORMATION"
  BY <1>3, <1>5 DEF Destination
<1>7. NormalizedTypes(cmd) \cap case.requested = {}
  BY <1>1, <1>2, <1>5, <1>6, Permits
<1>8. case'.docs = NormalizedTypes(cmd)
  BY <1>1, <1>2, <1>5, DecidedTyped
<1>9. QED
  BY <1>3, <1>5, <1>7, <1>8 DEF LastInv

(* A decision is never recorded twice in a row: a second click, a second   *)
(* submission or one after a lost answer is refused, or asks for other     *)
(* documents (client.ts sends no idempotency key).                         *)
THEOREM NeverRecordedTwice == Spec => NotRecordedTwice
<1>1. Init => LastInv
  BY DEF Init, LastInv, UserActions
<1>2. TypeOK /\ LastInv /\ [Next]_vars => LastInv'
  <2> SUFFICES ASSUME TypeOK, LastInv, [Next]_vars PROVE LastInv'
    OBVIOUS
  <2>1. CASE UNCHANGED vars
    BY <2>1 DEF vars, LastInv
  <2>2. QED
    BY <2>1, NextMoves, LastStep
<1>3. TypeOK /\ LastInv /\ [Next]_vars =>
        [case' # case /\ case'.last = case.last =>
           case.last = "REQUEST_INFORMATION" /\ case'.docs \cap case.docs = {}]_vars
  BY NextMoves, NotTwice
<1>4. QED
  BY <1>1, <1>2, <1>3, ScreenTyped, PTL DEF Spec, NotRecordedTwice

-----------------------------------------------------------------------------
(* What is on its way to a part of the screen is no older than the         *)
(* decision last confirmed, and a part that is older, but for one that     *)
(* shows an error, is being fetched.                                       *)
CatchingUp ==
  \A k \in Queries :
    /\ fetch[k] \notin {None, Asked} => told <= fetch[k].version
    /\ k \notin failed /\ cache[k] # None /\ cache[k].version < told => fetch[k] # None

LEMMA FetchedCatchUp ==
  ASSUME TypeOK, CatchingUp, NEW q \in Queries, Fetched(q) \/ Refetch(q)
  PROVE  CatchingUp'
<1> SUFFICES ASSUME NEW k \in Queries
             PROVE  /\ fetch'[k] \notin {None, Asked} => told' <= fetch'[k].version
                    /\ k \notin failed' /\ cache'[k] # None /\ cache'[k].version < told' =>
                         fetch'[k] # None
  BY DEF CatchingUp
<1>1. CASE Serve(q)
  <2>1. fetch' = [fetch EXCEPT ![q] = case] /\ UNCHANGED <<cache, failed, told>>
    BY <1>1 DEF Serve
  <2>2. told <= case.version /\ case # None
    BY AnswersAssumption DEF TypeOK
  <2>3. CASE k = q
    BY <2>1, <2>2, <2>3 DEF TypeOK
  <2>4. CASE k # q
    BY <2>1, <2>4 DEF TypeOK, CatchingUp
  <2>5. QED
    BY <2>3, <2>4
<1>2. CASE Arrive(q)
  <2>1. /\ fetch[q] \notin {None, Asked}
        /\ cache' = [cache EXCEPT ![q] = fetch[q]]
        /\ failed' = failed \ {q} /\ told' = told
    BY <1>2 DEF Arrive
  <2>2. /\ fetch'[k] = fetch[k] \/ fetch'[k] \in {None, Asked}
        /\ k # q => fetch'[k] = fetch[k] \/ fetch'[k] = Asked
    BY <1>2 DEF Arrive, TypeOK
  <2>3. fetch[q] \in Cases /\ told <= fetch[q].version
    BY <2>1 DEF TypeOK, CatchingUp
  <2>4. CASE k = q
    <3>1. cache'[k] = fetch[q]
      BY <2>1, <2>4 DEF TypeOK
    <3>2. ~(cache'[k].version < told')
      BY <2>1, <2>3, <3>1 DEF TypeOK, Cases
    <3>3. QED
      BY <2>1, <2>2, <2>4, <3>2 DEF CatchingUp
  <2>5. CASE k # q
    <3>1. cache'[k] = cache[k]
      BY <2>1, <2>5 DEF TypeOK
    <3>2. QED
      BY <2>1, <2>2, <2>5, <3>1, AnswersAssumption DEF CatchingUp
  <2>6. QED
    BY <2>4, <2>5
<1>3. CASE Lose(q)
  <2>1. /\ fetch' = [fetch EXCEPT ![q] = None]
        /\ failed' = failed \cup {q} /\ UNCHANGED <<cache, told>>
    BY <1>3 DEF Lose
  <2>2. QED
    BY <2>1 DEF TypeOK, CatchingUp
<1>4. CASE Refetch(q)
  <2>1. fetch' = [fetch EXCEPT ![q] = Asked] /\ UNCHANGED <<cache, failed, told>>
    BY <1>4 DEF Refetch
  <2>2. QED
    BY <2>1, AnswersAssumption DEF TypeOK, CatchingUp
<1>5. QED
  BY <1>1, <1>2, <1>3, <1>4 DEF Fetched

(* A confirmed decision is never forgotten on the screen: as long as a     *)
(* part of it is older, that part is being fetched or shows an error, and  *)
(* no answer that comes is older (the invalidations of useSubmitAction     *)
(* cancel what was in flight).                                             *)
THEOREM ConfirmedIsNotForgotten == Spec => []CatchingUp
<1>1. Init => CatchingUp
  BY DEF Init, CatchingUp
<1>2. TypeOK /\ CatchingUp /\ [Next]_vars => CatchingUp'
  <2> SUFFICES ASSUME TypeOK, CatchingUp, [Next]_vars PROVE CatchingUp'
    OBVIOUS
  <2>1. ASSUME UNCHANGED <<screen, told>> PROVE CatchingUp'
    BY <2>1 DEF screen, CatchingUp
  <2>2. ASSUME NEW post \in posts, Confirm(post) PROVE CatchingUp'
    <3>1. \A k \in Queries : fetch'[k] = Asked
      BY <2>2 DEF Confirm, Invalidate
    <3>2. QED
      BY <3>1, AnswersAssumption DEF CatchingUp
  <2>3. ASSUME NEW q \in Queries, Fetched(q) \/ Refetch(q) PROVE CatchingUp'
    BY <2>3, FetchedCatchUp
  <2>4. QED
    BY <2>1, <2>2, <2>3 DEF Next, Select, Enter, Submit, Submitted, Execute, Deny, LosePost,
       Elsewhere, vars, screen
<1>3. QED
  BY <1>1, <1>2, ScreenTyped, PTL DEF Spec
=============================================================================
