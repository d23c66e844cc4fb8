---------------------------- MODULE ReviewClient ----------------------------
(***************************************************************************)
(* One review screen (src/client/screens/review) and the case it decides   *)
(* on.  The screen reads the case with three queries, each with a fetch    *)
(* and a cache of its own (client/api/hooks.ts); the ActionPanel builds a  *)
(* command from what the three caches hold and posts it with the version   *)
(* it knows; the server decides by CaseStateMachine on what the case is    *)
(* by then.  Requests and answers may be lost, and others decide, too.     *)
(*                                                                         *)
(* An answer is the case as it was when the server read it; each query     *)
(* looks at its part of that.  The queue and the documents are fetched and *)
(* invalidated as these three are; no command is built from them.  Two     *)
(* writes to the case fall in different milliseconds: the version counts.  *)
(***************************************************************************)
EXTENDS CaseStateMachine, FiniteSets

CONSTANTS
  None,       \* nothing kept, nothing in flight, no action chosen
  Asked,      \* a fetch the server has not answered
  Findings,   \* ids of the exceptions that are open at first
  Missing,    \* document types they report missing
  Seeded,     \* statuses the case may have at first
  Choices,    \* actions this reviewer considers
  OtherChoices, \* actions taken elsewhere
  Fillings,   \* what the reviewer may enter beside the action
  MaxSubmits, \* bound on posts
  MaxOthers,  \* bound on decisions taken elsewhere
  MaxFocus    \* bound on fetches the reviewer causes

ASSUME ChoicesAssumption == Choices \subseteq UserActions /\ OtherChoices \subseteq UserActions
ASSUME SeededAssumption == Seeded \subseteq Statuses \ {"CLEARED"}
ASSUME NoneAssumption == None \notin UserActions
ASSUME BoundsAssumption == MaxSubmits \in Nat /\ MaxOthers \in Nat /\ MaxFocus \in Nat
ASSUME MissingAssumption == Missing \subseteq DocTypes
ASSUME FillingsAssumption ==
  \A f \in Fillings :
    /\ f.just \in Justs /\ f.docs \subseteq RawTypes /\ f.basis \in Bases
    /\ f.unlisted \in BOOLEAN /\ f.ack \in BOOLEAN

VARIABLES
  case,     \* the server's row, with its open exceptions and last action
  cache,    \* query -> the last answer, or None
  failed,   \* queries whose last fetch ended in an error
  fetch,    \* query -> None, Asked, or the answer on its way
  form,     \* the ActionPanel: the action selected and the fields
  posts,    \* submissions on their way, or executed and being answered
  outcome,  \* what the panel says of the last submission
  told,     \* the version of the last confirmation that came back
  submits, others, focus

vars == <<case, cache, failed, fetch, form, posts, outcome, told, submits, others, focus>>
screen == <<cache, failed, fetch>>

Queries == {"shipment", "exceptions", "actions"}

Cases == [version : Nat, status : Statuses, open : SUBSET Findings,
          requested : SUBSET DocTypes, last : UserActions \cup {None},
          docs : SUBSET DocTypes]

ASSUME AnswersAssumption == None # Asked /\ None \notin Cases /\ Asked \notin Cases

Untold == [kind |-> "none", post |-> 0]

(* emptyForm *)
Fields == [docs |-> {}, unlisted |-> FALSE, basis |-> "EXCEPTIONS_RESOLVED", ack |-> FALSE]

EmptyForm == [action |-> None, just |-> "under10", fields |-> Fields]

(* The screen is mounted: shipment and exceptions are fetched, and the     *)
(* actions once the shipment has told the case id.                         *)
Init ==
  /\ \E status \in Seeded :
       case = [version |-> 1, status |-> status, open |-> Findings, requested |-> {},
               last |-> None, docs |-> {}]
  /\ cache = [k \in Queries |-> None]
  /\ failed = {}
  /\ fetch = [k \in Queries |-> IF k = "actions" THEN None ELSE Asked]
  /\ form = EmptyForm /\ posts = {} /\ outcome = Untold
  /\ told = 0 /\ submits = 0 /\ others = 0 /\ focus = 0

(***************************************************************************)
(* The server: executeAction and getAvailableActions.                      *)
(***************************************************************************)
Context(c) ==
  [status |-> c.status, open |-> c.open, missing |-> IF c.open = {} THEN {} ELSE Missing,
   received |-> {}, requested |-> c.requested]

(* A faulty Requested: the request that is recorded is not counted. *)
RequestedBefore(c, cmd) == c.requested

(* Types asked for since the case last began to await information. *)
Requested(c, cmd) ==
  IF cmd.action # "REQUEST_INFORMATION" THEN c.requested
  ELSE IF c.status = "AWAITING_INFORMATION" THEN c.requested \cup NormalizedTypes(cmd)
  ELSE NormalizedTypes(cmd)

Decided(c, cmd) ==
  [version |-> c.version + 1, status |-> Destination[cmd.action],
   open |-> IF cmd.action = "CLEAR_EXCEPTION" THEN {} ELSE c.open,
   requested |-> Requested(c, cmd), last |-> cmd.action,
   docs |-> IF cmd.action = "REQUEST_INFORMATION" THEN NormalizedTypes(cmd) ELSE {}]

(* A faulty check, as of a client that does not send the version. *)
VersionUnchecked(post) == FALSE

VersionConflict(post) == post.version # case.version

Malformed(cmd) == ~WithinSchema(cmd) \/ ~ValidateJustification(cmd)

Refused(post) ==
  Malformed(post.cmd) \/ EvaluateTransition(Context(case), post.cmd) # {}

(* Schema and justification are looked at before the version, the rest     *)
(* after it.                                                               *)
Answered(post) ==
  CASE Malformed(post.cmd)   -> "refused"
    [] VersionConflict(post) -> "conflict"
    [] Refused(post)         -> "refused"
    [] OTHER                 -> "recorded"

Offered(c, action) ==
  \E first \in FirstMissing(Context(c)) : AvailableAction(action, Context(c), first).available

-----------------------------------------------------------------------------
(***************************************************************************)
(* The query cache.                                                        *)
(***************************************************************************)
(* A failed shipment or actions query takes the panel off the screen, and  *)
(* what was entered and said there is gone.                                *)
Unmount(k) ==
  IF k \in {"shipment", "actions"}
  THEN form' = EmptyForm /\ outcome' = Untold
  ELSE UNCHANGED <<form, outcome>>

Serve(k) ==
  /\ fetch[k] = Asked
  /\ fetch' = [fetch EXCEPT ![k] = case]
  /\ UNCHANGED <<case, cache, failed, form, posts, outcome, told, submits, others, focus>>

Arrive(k) ==
  /\ fetch[k] \notin {None, Asked}
  /\ cache' = [cache EXCEPT ![k] = fetch[k]]
  /\ failed' = failed \ {k}
  /\ fetch' = [fetch EXCEPT
       ![k] = None,
       !["actions"] = CASE k = "actions" -> None
                        [] k = "shipment" /\ cache["shipment"] = None -> Asked
                        [] OTHER -> @]
  /\ UNCHANGED <<case, form, posts, outcome, told, submits, others, focus>>

(* The fetch and its one retry got no answer, which is the same before and *)
(* after the server has read: the old data stay in the cache, and the      *)
(* screen shows the error.                                                 *)
Lose(k) ==
  /\ fetch[k] = Asked
  /\ fetch' = [fetch EXCEPT ![k] = None]
  /\ failed' = failed \cup {k}
  /\ Unmount(k)
  /\ UNCHANGED <<case, cache, posts, told, submits, others, focus>>

(* The window gets the focus, or Retry is pressed. *)
Refetch(k) ==
  /\ fetch[k] = None
  /\ k = "actions" => cache["shipment"] # None
  /\ focus < MaxFocus /\ focus' = focus + 1
  /\ fetch' = [fetch EXCEPT ![k] = Asked]
  /\ UNCHANGED <<case, cache, failed, form, posts, outcome, told, submits, others>>

(* A faulty invalidation: what is in flight is waited for. *)
InvalidateIdle ==
  fetch' = [k \in Queries |-> IF fetch[k] = None THEN Asked ELSE fetch[k]]

(* invalidateQueries: a fetch in flight is cancelled and asked anew. *)
Invalidate == fetch' = [k \in Queries |-> Asked]

-----------------------------------------------------------------------------
(***************************************************************************)
(* The ActionPanel.                                                        *)
(***************************************************************************)
(* A cleared case has a disposition in place of the form. *)
Terminal == cache["shipment"].status = "CLEARED"

Panel ==
  /\ \A k \in Queries : cache[k] # None
  /\ failed \cap {"shipment", "actions"} = {}
  /\ ~Terminal

(* selectAction: the justification stays, submit.reset() lets go of the    *)
(* submission shown, which goes on.                                        *)
Select(action) ==
  /\ Panel /\ Offered(cache["actions"], action)
  /\ form' = [EmptyForm EXCEPT !.action = action, !.just = form.just]
  /\ outcome' = Untold
  /\ UNCHANGED <<case, screen, posts, told, submits, others, focus>>

(* patch *)
Enter(filling) ==
  /\ Panel /\ form.action # None
  /\ filling.docs \subseteq Missing \/ filling.unlisted
  /\ form' = [form EXCEPT !.just = filling.just,
       !.fields = [docs |-> filling.docs, unlisted |-> filling.unlisted,
                   basis |-> filling.basis, ack |-> filling.ack]]
  /\ UNCHANGED <<case, screen, posts, outcome, told, submits, others, focus>>

(* requiredFieldsValid: ten characters for every action and basis. *)
RequiredFieldsValid ==
  /\ form.action # None
  /\ form.just # "under10"
  /\ form.action = "REQUEST_INFORMATION" => form.fields.docs # {}

(* buildCommand, from the caches of two queries. *)
Command(action, just, fields, ids, status) ==
  CASE action = "REQUEST_INFORMATION" ->
         [action |-> action, just |-> just, docs |-> fields.docs, unlisted |-> fields.unlisted]
    [] action = "CLEAR_EXCEPTION" ->
         [action |-> action, just |-> just, ids |-> ids, basis |-> fields.basis,
          ack |-> status = "AWAITING_INFORMATION" /\ fields.ack]
    [] action = "SEND_FOR_SPECIALIST_REVIEW" ->
         [action |-> action, just |-> just, assignee |-> Nobody]
    [] action = "ESCALATE_TO_SUPERVISOR" ->
         [action |-> action, just |-> just, target |-> Nobody]
    [] action = "PLACE_ON_HOLD" -> [action |-> action, just |-> just]

(* onSubmit; the button is disabled while the submission shown is pending. *)
Submit ==
  /\ Panel /\ RequiredFieldsValid
  /\ outcome.kind # "pending"
  /\ submits < MaxSubmits /\ submits' = submits + 1
  /\ LET shown == cache["shipment"] IN
     posts' = posts \cup
       {[id |-> submits', version |-> shown.version, shown |-> shown, result |-> None,
         cmd |-> Command(form.action, form.just, form.fields, cache["exceptions"].open,
                         shown.status)]}
  /\ outcome' = [kind |-> "pending", post |-> submits']
  /\ UNCHANGED <<case, screen, form, told, others, focus>>

(* executeAction; a recorded decision answers with its version. *)
Execute(post) ==
  /\ post \in posts /\ post.result = None
  /\ LET result == Answered(post)
         after  == IF result = "recorded" THEN Decided(case, post.cmd) ELSE case
     IN  /\ case' = after
         /\ posts' = (posts \ {post}) \cup
              {[post EXCEPT !.result = [kind |-> result, version |-> after.version]]}
  /\ UNCHANGED <<screen, form, outcome, told, submits, others, focus>>

(* A faulty Tell: the panel goes on waiting. *)
TellNothing(post, kind) == outcome' = outcome

(* What the panel shows, if it still looks at this submission. *)
Tell(post, kind) ==
  outcome' = IF outcome.post = post.id
             THEN [kind |-> kind, post |-> 0] ELSE outcome

(* onSuccess invalidates every query, whether or not the panel still looks. *)
Confirm(post) ==
  /\ post \in posts /\ post.result # None /\ post.result.kind = "recorded"
  /\ posts' = posts \ {post}
  /\ told' = post.result.version
  /\ Invalidate
  /\ Tell(post, "recorded")
  /\ UNCHANGED <<case, cache, failed, form, submits, others, focus>>

(* An error invalidates nothing. *)
Deny(post) ==
  /\ post \in posts /\ post.result # None /\ post.result.kind # "recorded"
  /\ posts' = posts \ {post}
  /\ Tell(post, post.result.kind)
  /\ UNCHANGED <<case, screen, form, told, submits, others, focus>>

(* The request or its answer is lost: a post is not retried, and an error  *)
(* that is no ApiError is not shown.                                       *)
LosePost(post) ==
  /\ post \in posts
  /\ posts' = posts \ {post}
  /\ Tell(post, "none")
  /\ UNCHANGED <<case, screen, form, told, submits, others, focus>>

(* Another reviewer, or another caller of the API, decides. *)
Elsewhere ==
  /\ others < MaxOthers /\ others' = others + 1
  /\ \E action \in OtherChoices, f \in Fillings :
       LET cmd == Command(action, f.just, f, case.open, case.status) IN
       /\ action = "REQUEST_INFORMATION" => f.docs # {}
       /\ WithinSchema(cmd) /\ EvaluateTransition(Context(case), cmd) = {}
       /\ case' = Decided(case, cmd)
  /\ UNCHANGED <<screen, form, posts, outcome, told, submits, focus>>

-----------------------------------------------------------------------------
Fetched(k) == Serve(k) \/ Arrive(k) \/ Lose(k)

Submitted == \E post \in posts : Execute(post) \/ Confirm(post) \/ Deny(post) \/ LosePost(post)

Next ==
  \/ \E k \in Queries : Fetched(k) \/ Refetch(k)
  \/ \E action \in Choices : Select(action)
  \/ \E filling \in Fillings : Enter(filling)
  \/ Submit \/ Submitted
  \/ Elsewhere

(* Every fetch and every post ends, in an answer or in an error; nobody    *)
(* has to click, to look at the window, or to decide.                      *)
Fairness == WF_vars(Submitted) /\ \A k \in Queries : WF_vars(Fetched(k))

Spec == Init /\ [][Next]_vars /\ Fairness

(***************************************************************************)
(* Properties.                                                             *)
(***************************************************************************)
Forms ==
  [action : UserActions \cup {None}, just : Justs \cup {"under10"},
   fields : [docs : SUBSET RawTypes, unlisted : BOOLEAN, basis : Bases, ack : BOOLEAN]]

Results == [kind : {"recorded", "conflict", "refused"}, version : Nat]

Posts == [id : Nat, version : Nat, shown : Cases, result : Results \cup {None},
          cmd : Commands(Findings)]

(* The variables have their types; what the screen holds was read from the *)
(* server (no newer than the case), and the panel waits for an answer only *)
(* while its submission is on its way: the button does not stay disabled.  *)
TypeOK ==
  /\ case \in Cases
  /\ cache \in [Queries -> Cases \cup {None}]
  /\ fetch \in [Queries -> Cases \cup {None, Asked}]
  /\ failed \subseteq Queries
  /\ form \in Forms
  /\ posts \subseteq Posts
  /\ outcome \in [kind : {"none", "pending", "recorded", "conflict", "refused"}, post : Nat]
  /\ submits \in 0..MaxSubmits /\ others \in 0..MaxOthers /\ focus \in 0..MaxFocus
  /\ \A k \in Queries :
       /\ cache[k] # None => cache[k].version <= case.version
       /\ fetch[k] \notin {None, Asked} => fetch[k].version <= case.version
  /\ outcome.kind = "pending" => \E post \in posts : post.id = outcome.post
  /\ \A post \in posts : post.result # None => post.result.version <= case.version
  /\ told \in Nat /\ told <= case.version

(* A decision of this screen is recorded only on the status the reviewer   *)
(* saw, and a clearance lists just the exceptions that are open, although  *)
(* version and exceptions come from two queries and others decide between  *)
(* reading, submitting and executing (hooks.ts, ActionPanel.tsx).          *)
DecidedOnSeen ==
  [][\A post \in posts : Execute(post) /\ case' # case =>
       /\ post.shown.status = case.status
       /\ post.cmd.action = "CLEAR_EXCEPTION" => post.cmd.ids = case.open]_vars

(* Without an idempotency key, a second click, a second submission beside  *)
(* a forgotten first, or one more after a lost answer never records the    *)
(* same decision twice in a row: the second is refused or out of date.     *)
NotRecordedTwice ==
  [][case' # case /\ case'.last = case.last =>
       case.last = "REQUEST_INFORMATION" /\ case'.docs \cap case.docs = {}]_vars

(* A part of the screen is older than the decision last confirmed to it. *)
Outdated ==
  \E k \in Queries : k \notin failed /\ cache[k] # None /\ cache[k].version < told

(* Once a decision is confirmed, each part of the screen comes to show the *)
(* case with it, or an error: an answer that was on its way before does    *)
(* not stay (the invalidations of useSubmitAction).                        *)
ShowsRecorded == Outdated ~> ~Outdated

(* "The case changed since you loaded it. It has been refreshed": when the *)
(* panel says so, the screen comes to show the case as it changed.         *)
Refreshed ==
  outcome.kind = "conflict" ~>
    \/ outcome.kind # "conflict"
    \/ cache["shipment"].version = case.version
=============================================================================
