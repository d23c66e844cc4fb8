# CargoDemo: a verification project

CargoDemo reviews cargo entries. A rule engine finds exceptions in an entry, a
queue shows the cases that have some, and a reviewer decides each case by one of
five actions until it is CLEARED. The program is one Node process over one
SQLite file (better-sqlite3, synchronous calls), with a React client.

This directory holds TLA+ models of that program, the TLC configurations that
check them on small instances and proofs that hold for every instance. Paths
below are relative to the repository.

## 1. Inventory

| Component | State | Operations | Interacts with | What is hard |
|---|---|---|---|---|
| Decision core `src/domain/workflow` | none (pure) | `evaluateTransition`, `computeAvailableActions`, the guards G-DOC, G-DUP, G-REC, G-ACK, `validateJustification` | called by the workflow service on a context read from the rows | order of checks; a projection that must agree with the enforcement |
| Workflow service `src/app/workflowService.ts` and its repositories | `cases`, `case_actions`, `exceptions.status`, `idempotency_keys` | `executeAction` (five actions), `getAvailableActions` | HTTP route, decision core, clock, users | retries, stale versions, history read back by timestamp |
| Detection service `src/app/evaluationService.ts` | `evaluations`, `exceptions`, `evidence`, the case projection | `detectExceptions` | rule engine, priority; shares `cases` and `exceptions` with the workflow service | supersession, carry-forward, projection columns written on two paths |
| Priority `src/domain/priority.ts` | none | `derivePriority` | detection | stacking escalations under a ceiling |
| Rule engine `src/domain/rules` | none; reads `rules` and the entry's snapshot | `evaluateEntry`, conditions, three evaluators | detection | invalid rules among valid ones, ordered checks at boundaries, absent and unknown data |
| Seed and boot `src/app/seedService.ts`, `src/server/index.ts`, `src/infra/db/migrate.ts`, `scripts/seed.ts` | all tables, `schema_migrations` | migrate, self-check, seed if empty, forced reseed, boot | detection (as a hook), the operating system, other processes on the same file | crash between steps, two processes, reseeding a used database |
| Queue `src/app/queueService.ts` | none (reads) | `parseQueueQuery`, filter, sort, page | cases | ties and NULLs in the order, pages |
| Queue screen `src/client/screens/queue` | the URL, the query cache | filters, chips, sort, pager | the queue, over HTTP | answers out of order, several controls that write one URL |
| Shipment read side `src/app/shipmentService.ts` | none (reads) | shipment, exceptions, documents | cases, exceptions | hands out the version commands are checked against |
| Review client `src/client/screens/review`, `src/client/api` | query caches, form state | fetch, select, fill in, submit, invalidate | the API, concurrently with other clients | lost answers, conflicts, screens torn between two states |
| HTTP server, configuration, static files | none | validation, error envelope, headers | everything | plumbing |
| Clock and ids `src/infra` | none | `now`, `next` | both services | two reads in one millisecond |

What makes each component correct, and where it could go wrong, is the hazard
list of `PROJECT.json`; each entry names the line where it bites and the
properties that would notice.

## 2. Modules

| Module | Models |
|---|---|
| `CaseStateMachine` | The decision core as operators over a context and a command. A refusal is the set of codes the code may report, `{}` for permitted. |
| `Priority` | `derivePriority` on the ladder 0..3. |
| `CaseWorkflow` | The rows of the workflow and the calls that write them: `executeAction` and `detectExceptions`, with documents, users, the wall clock and a reading reviewer as surroundings. |
| `CaseLifecycle` | Abstract specification: what the workflow promises about a case without its tables. |
| `RuleEvaluators` | What one rule says about one entry, as operators: normalization, paths, applicability conditions, the three evaluators with the evidence they attach, and the evidence gates of `detectExceptions`. |
| `RuleEngine` | An evaluation of an entry against the rule rows, rule by rule: `parseRules`, the loop of `evaluateEntry`, the gates; documents that arrive between evaluations. |
| `SeedBoot` | Several processes that migrate, check, seed, reset, boot, serve and die on one database. |
| `DemoData` | Abstract specification: the demo data as every reader sees them. |
| `QueueListing` | `listQueue` as operators: what a query may be, what it selects, in which order, on which page. |
| `QueueScreen` | The queue screen: the URL, its controls, the query cache, fetches that overtake each other, and writes to the table in the meantime. Composed with `QueueListing`. |
| `ReviewClient` | The review screen and the case it decides on: three queries, a form, submissions, other deciders. Composed with `CaseStateMachine`, which decides on the server's side. |
| `MCCaseWorkflow`, `MCRuleEngine`, `MCSeedBoot`, `MCQueueScreen`, `MCReviewClient` | What the configurations substitute for constants. |
| `CaseWorkflowProofs` | Type correctness, what the calls write, and the invariant the other proofs about the workflow rest on. |
| `CaseHistoryProofs` | Theorems about actions, versions, keys and the stays in AWAITING_INFORMATION. |
| `CaseExceptionProofs` | Theorems about exceptions, the case projection, decisions and offers. |
| `CaseLifecycleProofs` | The refinement of `CaseLifecycle`. |
| `RuleEngineProofs` | Theorems about the loop, the gates, and the findings of the three evaluators. |
| `SeedBootProofs` | Theorems about the boot and the refinement of `DemoData`. |
| `ReviewClientProofs` | Theorems about the screen, the decisions made on it and what it shows after them. |
| `QueueProofs` | Theorems about the order and the pages of a listing, and about what the screen keeps and shows. |

In some modules a definition stands beside a faulty variant of itself (`A faulty
...` in its comment). No action uses them: `PROJECT.json` lists, for every
property of a passing run, the faulty form that breaks it.

### State and actions of CaseWorkflow

`case` is the `cases` table; `actions` the `case_actions` rows in insertion
order; `open`, `cleared` and `superseded` the exceptions by status; `keys` the
`idempotency_keys` rows; `evaluations` how many evaluations a case has;
`received` and `active` the documents and users, which this code only reads
after seeding; `clock` the last instant read; `seen` the version a reviewer last
read, with what had been written to the case by then, and `matched` whether the
last accepted command named a version.

One call is one step: `executeAction` begins its transaction with BEGIN
IMMEDIATE, and a `detectExceptions` that a writer of another process overtakes
cannot write on the snapshot it read, fails and is rolled back. Only the lookup
of an idempotency key precedes the transaction; with a second process on the
file it may be out of date when the call writes, so an accepted command is one
whose lookup found nothing, whatever is stored by now. A crash before the commit
undoes the call and one after it only loses the answer, so a crash or a lost
answer is a caller who sends the command again, which the model allows at any
time. Refused commands and replayed keys leave every row as it was; they are
stuttering steps, and what the model decides is exactly which commands are
accepted (`Refusals`, in the code's order, the schema of the route first).

The five actions are `RequestInformation`, `SendForSpecialistReview`,
`PlaceOnHold`, `EscalateToSupervisor` and `ClearException`. They share the
checks (`Accepted`), the action row (`NewAction`), the columns every transition
writes (`Transitioned`) and the log (`Log`), as they share `executeAction`;
each adds its case of `applySideEffects`.

`DetectExceptions` leaves to chance which rules fire, except that a rule about
a document fires only while the document is missing. The shipped program calls
`detectExceptions` when it seeds; its other triggers (`MANUAL_REVALIDATION`,
`DOCUMENT_UPLOAD`, `RULE_CHANGE`) are in its signature and its tests and have no
route yet. The model lets it run at any time, which is what those triggers are
for and what the tests do.

A freshly seeded database is the initial state: one evaluation per case, any
status of the fixtures, a CLEARED fixture without findings.

### State and actions of RuleEngine

`entry` is the cargo entry with its documents, `rows` the rules table,
`snapshot` the entry as the evaluation read it. `todo` holds the rules the loop
has not come to; `findings` (in order), `skipped` and `invalid` are the
`EvaluationResult`. `status` tells how the evaluation ended: committed (`done`),
left by an exception of the loop (`thrown`), rolled back by an evidence gate
(`refused`). `previous` is the last committed result.

`Load` parses the rows, disabled ones too, and takes up the enabled ones. Each
turn of the loop takes the first rule left in the binding order and is one of
`Reject` (a type without an evaluator, parameters that fail their schema or the
cross-field check, a condition key nobody knows, a path nobody knows), `Skip`
(a condition does not hold), `Pass`, `Find` or `Throw` (a condition of another
shape than the code casts it to). `Conclude` holds the findings against the
gates. An evaluation runs inside one transaction of one thread, so nothing
happens between its turns; the loop is split into steps because what is asked of
it is that one rule's turn leaves the others' alone. `Receive` is external: it
stands for the upload the trigger `DOCUMENT_UPLOAD` is named for.

A description is the set of keywords it contains, a country text is a value the
table `Iso` maps to a code or to none, and an HTS code is a sequence of
characters, because its checks are about characters and lengths. Composition
with `CaseWorkflow`: its `DetectExceptions` admits any set of rules that fires,
with a rule about a document firing only while the document is missing. A
document received there is one with a file: for one without, detection and the
workflow disagree (see the disagreements below).

### State and actions of SeedBoot

`applied` is `schema_migrations`, `cases` the committed cases, `port` who
listens. Each process has a place `pc` in its boot and a memory `mem`: the
release it runs, the list of applied versions it read once, the files it has
still to look at, whether it forces a reseed and whether it has seeded. A
*release* stands for what is checked out when the process starts: the files of
`src/infra/db/migrations` with their checksums, what the self-check names, what
the fixtures expect, what the rules detect, and whether the default actor may
author actions.

The places follow `server/index.ts` and `scripts/seed.ts`: `migrating` (one step
per file, in numeric order: `SkipMigration`, `ChecksumMismatch`,
`ApplyMigration`, `AlreadyApplied`), `checking` (`SelfCheck`), `counting`
(`SkipSeed`, `NeedSeed`), `seeding` and `writing` (`BeginSeed`, `ResetRefused`,
`SeedEntry`, `CommitSeed`, `RejectSeed`), `verifying` (`VerifyQueue`),
`listening` (`Listen`, `CannotListen`), `serving`. Steps of different processes
interleave. The seeding transaction is the one write that takes several steps:
`tx` holds its rows until the commit, as WAL does, and keeps other writers out.
`Crash` is the death of a process at any place; its transaction is rolled back.
`Busy` is a writer that waited longer than `busy_timeout`. `Decide` is
`executeAction` on a serving server, reduced to what the boot can tell: the
status, that `last_action_id` refers to an action, and the queued flag.

### State and actions of QueueListing and QueueScreen

A case is the number of its `shipment_id` in text order; a row holds the columns
the statements of `listQueue` read. `Selects` is the WHERE clause, `Precedes` the
ORDER BY clause (age turned around, NULL before everything, `shipment_id` last),
`Position`, `OnPage` and `TotalPages` are LIMIT, OFFSET and the page block. The
two statements of `listQueue` run in one synchronous call, so they see one table.

`url` holds the search parameters, `kept` what the query cache holds per query
key, `asked` the queries in flight. Every control is an action that writes a new
URL through `Update`, which deletes the page as `update()` in `QueueScreen.tsx`
does, whatever the control was. `Respond` answers with the table as it is then,
`Reject` is the 422 of `parseQueueQuery`, `Lose` a fetch whose retry failed, too.
`Write` is a decision or an evaluation that changes a row.

### State and actions of ReviewClient

`case` is the server's row with its open exceptions; `cache`, `failed` and
`fetch` are the three queries of the screen (shipment, exceptions, available
actions) that a command is built from; `form` and `outcome` are the state of
`ActionPanel`; `posts` the submissions that are on their way or being answered.
`Serve` is the instant at which the server reads, `Arrive` the one at which the
answer is kept; other deciders may come between. `Submit` builds the command from
two caches, as `buildCommand` does; `Execute` decides by `EvaluateTransition` on
what the case is by then, after the justification and the version check.
`Confirm` invalidates all queries, `Deny` none. `LosePost` loses a request or an
answer.

From the library (TanStack Query) the model takes what `hooks.ts` and
`queryClient.ts` rely on: an invalidation cancels and repeats a fetch in flight, a
failed fetch is retried once and keeps the old data, a mutation is not retried,
`reset()` lets go of a mutation that goes on. Answers from a `detectExceptions`
of another process are not among the writers here: at run time only the seed
calls it. The version counts writes: two writes to one case fall in different
milliseconds.

Left as it is in the code, and worth knowing: the parts of the screen may be of
two states of the case, which `DecidedOnSeen` shows to be harmless for the status
and for clearances; an error that is no `ApiError` (a network failure) is not
shown at all; the client asks for ten characters of justification where the
server wants forty for `MIXED`; the text of an unlisted document type is kept
when its box is unticked, and an invalid one keeps the button disabled.

## 3. Runs

| Run | Question | Bounds and why they are enough |
|---|---|---|
| `requests` (`CaseRequests.cfg`) | Do G-DUP, G-ACK, the keys and the history hold over any sequence of decisions, is what the panel is offered accepted, and what may a versioned command overlook? | One case, one document in two spellings and the unlisted one, 3 decisions: enough to request, leave the stay and come back, or to request again or clear within it. Two instants and clock reads that tie, so decisions fall in one millisecond and apart; one key, used by any command; the reviewer's version is that of the seeded case throughout. No further evaluation and no later read (the next run). The theorems lift every bound. |
| `findings` (`CaseFindings.cfg`) | Do exceptions, first detection, projection and priority agree around re-evaluations and a clearance, does the version check see evaluations, and do they leave the case's life alone? | Two rules, three evaluations, one decision, a case that is new or cleared by its fixture, two instants, of which the later is past the age limit; the reviewer may read between any two steps: a finding can persist, disappear and come back, be cleared and come back. The document rule is HIGH on a high-value shipment, so two escalations reach and would pass the ceiling. A second user, who may be deactivated, can be assigned. No document arrives: any set of the rules may fire in each evaluation anyway. Two rules stay below the threshold for many exceptions; that escalation is left to the proof. |
| `rule_engine` (`RuleEngine.cfg`) | Does the engine answer every rule for itself, in the binding order, with exactly the findings that a declarative reading of the rules yields? | Two evaluations with arrivals in between. Every HTS code over `8` and `.` up to nine characters, over `8`, `.`, `X` and over `8`, `1` and blank up to six, against complete and partial rules of six and four digits, so every threshold is met from both sides. Entries around the value limits, declared and comparison origins that are absent, unknown, equal, different or an allowed pair, document lists with a superseded row, a type in two spellings and a file that is not there. Rules that cannot be used stand among rules that can. |
| `seed_boot` (`SeedBoot.cfg`) | Whatever races, crashes, resets and decisions happened: does a server serve only a whole demo on its own schema, and does a lone boot recover? | Two servers and a seeding command, three starts among four releases (the present one; a later one with a second migration; one with an edited migration; one that lacks a file, finds nothing and has no actor), two entries of which one starts cleared. Three starts are two that race and one that recovers. |
| `queue` (`QueueScreen.cfg`) | Do pages share out a listing, is the oldest of the most urgent first, and does the screen show what its URL asks for, in the end always? | Four cases with ties on two pages of two, with a clean or a cleared one; three URLs (one with an unknown status), two clicks, one write: two queries are in flight at once and answered in either order. |
| `review` (`ReviewClient.cfg`) | Is a decision recorded only on what its reviewer saw and never twice, and does the screen catch up? | Two submissions, one decision taken elsewhere, one refetch; a request for a document and a clearance; every fetch and post may be late, lost, or lost after it was executed. |
| `invalid_prevents`, `reset_fails`, `seed_race`, `paging`, `refreshed`, `version_tie` | Statements of the repository the code does not meet | violated, see below |

One case is enough for the questions about the workflow and the review screen:
every statement of the code selects by `case_id` and the keys are scoped by case,
so cases do not interact; the proofs do not fix their number. Deadlock is not
checked: with its bounds used up, its case cleared or its processes ended, an
instance really stops.

Named bounds: `MaxTime`, `MaxActions`, `MaxEvaluations`, `MaxStarts`,
`MaxClicks`, `MaxWrites`, `MaxSubmits`, `MaxOthers`, `MaxFocus` cap the counters;
`MaxRequested` and `MaxNamed` are the schema's bounds on `document_types` and
`exception_ids`, 10 and 20 in the code (`cases.ts:30`, `:55`) and 1 or 2 here;
`SeedStatuses`, `Watched`, `Arriving`, `Leavers`, `BlankKeys`, `Bookmarks`,
`Controls`, `Choices`, `Fillings` say which of the surroundings a run lets happen.
No run sends a blank key (`BlankKeys`); the theorems admit them.

### Properties

- `NoDuplicateRequest`, `OutstandingAcknowledged`: over the action history, in
  insertion order, whereas the code finds the stay by timestamps.
- `HistoryConnected`, `ClearedByDecision`, `DecisionsStand`.
- `OffersHold`: what `getAvailableActions` offers against what `executeAction`
  accepts, after any history: an offer, sent as the panel sends it, is accepted;
  an action called redundant or terminal is refused in every form; and the reason
  is missing in no other case than an outstanding request or an arrived document.
- `OpenAreCurrent`, `ProjectionAgrees`, `FirstDetectionCarried`.
- `PriorityExplained`: whatever was cleared and found before, the priority is the
  severest open severity and the rungs that value, number and age add, under the
  ceiling.
- `KeysRecordActions`: an action under a key and the key's one record name each
  other, whatever the lookup before the transaction found.
- `UnseenAreSimultaneous`: the decisions and findings a versioned command passes
  over unread are those written in the very millisecond of its version, which is
  all that the check on `updated_at` achieves (`NoLostUpdate`, which F03 claims, is
  violated).
- `FindingsInOrder`, `NoneSuppressed`, `GatesNeverRefuse`: the loop.
- `HtsFindingsExact`, `OriginFindingsExact`: two evaluators against definitions
  that do not follow their steps.
- `DocumentsOnlyHelp`: document findings over the arrival of documents.
- `ImplementsLifecycle`: every step on the rows is a step of `CaseLifecycle`
  under the mapping `Lifecycle` of `CaseWorkflow`.
- `ServingIsReady`, `DemoIsReal`: what a serving server and a reader of the
  database may rely on while others migrate, seed, reset and die.
- `ImplementsDemoData`: every step of the boot is, for readers, a whole load, a
  decision on one case, or nothing.
- `Recovers` (liveness): a server that starts alone from a release that fits the
  database serves in the end, whatever was left behind.
- `PagesPartition`, `OldestFirst`, `ShownAsAsked`; `AlwaysAnswers` (liveness).
- `DecidedOnSeen`, `NotRecordedTwice`; `ShowsRecorded` (liveness): after a
  confirmation no part of the screen stays older than what was confirmed.

### Fairness

The services of the server only react to calls; no fairness is assumed of them,
and `CaseWorkflow` and `RuleEngine` have no liveness properties. Where something
goes on by itself, fairness is what the platform gives and no more:

- `SeedBoot`: `WF_vars(Step(p))` for each process. A process that can go on is
  scheduled; one that waits for the write lock gets it after the writer has ended,
  or ends itself (`Busy`). Nobody has to start a process, and any may die.
- `QueueScreen`: `WF_asked(Settled)`. Every fetch ends, by an answer, an error or
  the retry limit. Nobody has to click.
- `ReviewClient`: `WF_vars(Fetched(k))` for each query and `WF_vars(Submitted)`.
  Fetches and posts end in an answer or an error. Nobody has to look or decide.

### What the violated runs show

- **`invalid_prevents`**: `engine.ts` catches the errors it expects. A condition
  whose JSON has another shape (a string where a list belongs) makes
  `conditions.ts` throw a `TypeError`, which leaves the loop and rolls back the
  evaluation of every rule.
- **`reset_fails`**: a forced reseed deletes `case_actions` before `cases`, whose
  `last_action_id` refers to them. Once a reviewer has acted, `npm run seed:reset`
  ends with a foreign key error, also when the boot has just advised it.
- **`seed_race`**: the count that finds the database empty is taken outside the
  seeding transaction. A second process that counted before the first committed
  seeds over it, decisions included.
- **`paging`**: the pager sets the page inside the helper that deletes the page,
  so Next and Previous lead to page 1.
- **`refreshed`**: the panel says after a conflict that the case has been
  refreshed; queries are invalidated after a success only.
- **`version_tie`**: the version of a case is its `updated_at` in milliseconds
  (`workflowService.ts:131`, `:204`). Two writes in one millisecond share it, and
  a command based on the first is accepted after the second, although
  `project_specs/FRD/F03-backend-http-api.md:39` has it rejected.

### Known disagreements without a run

- A seed over a used database (`seed_race`) writes the seed's own `updated_at`
  again, so that a version can also come back.
- `F03-backend-http-api.md:38` (the UI always sends an `Idempotency-Key`):
  `hooks.ts:102` sends the version and no key, so a submission repeated after a
  lost answer is a new command (`NotRecordedTwice` says what still protects it).
- An `Idempotency-Key` that is sent but empty is falsy for the lookup
  (`workflowService.ts:102`) and not null for the unique index
  (`001_initial_schema.sql:334`): the second such command on a case, whatever it
  asks for, ends in 500 `INTERNAL_ERROR`. No row changes.
- A RECEIVED document with an empty filename passes the CHECK of
  `001_initial_schema.sql:84`, which excludes NULL only. `missingDocument.ts:64`
  lists its type as missing, `workflowRepository.ts:84` counts it received, so
  G-DOC refuses the request for it. The seed, the only writer of documents, gives
  each RECEIVED one a name (`seedService.ts:378`).
- `availableActions.ts:6` (every unavailable action states why) and `:9` (the
  projection can never disagree with the write path): once a document has been
  requested, the probes for `REQUEST_INFORMATION` and `CLEAR_EXCEPTION` meet G-DUP
  and G-ACK, for which `decisionReason` has no reason, and are shown unavailable
  without one, though the API accepts a clearance that acknowledges and a request
  for another document. The same happens to a request when the document probed
  first has arrived since the last evaluation. `OffersHold` says that there is no
  other way to it.
- `F09a-case-workflow-state-machine.md:13` (nothing modifies a cleared case):
  `detectExceptions` does not look at the status.
- `F09b-case-workflow-actions.md:67` (an omitted assignee unassigns):
  `applyTransition` keeps omitted columns by `COALESCE`.
- `countryOfOrigin.ts:6` (further disagreeing fields add evidence): the loop
  returns at the first. A path that is not known after it goes unnoticed until
  the fields before it agree (`countryOfOrigin.ts:88`).
- `F00-data-model-persistence.md:37`: `CARGODEMO_SEED_ON_EMPTY` is parsed
  (`config.ts:101`) and read nowhere.
- `F17-queue-screen.md:30` (age descending is oldest first): holds for the cases
  the default view shows (`OldestFirst`); with clean cases included, their NULL
  age comes first within a priority.
- An unfiltered page beyond the last shows "No shipments are currently flagged".
- An `If-Match-Case-Version` that is not a finite number is treated as absent
  (`cases.ts:143`).
- `exception_ids` holds at most 20 entries (`cases.ts:55`) while G-REC wants the
  whole open set: a case with more open exceptions could not be cleared. An
  evaluation opens at most one exception per rule and supersedes the rest
  (`OpenAreCurrent`), and the program ships seven rules.

## 4. Proofs

TLAPS proves the theorems below for every value of the constants, under the
assumptions the modules name. These say what kind of thing each constant is; a
theorem that needs a premise about the clock states it.

| Theorem | Property | Rests on |
|---|---|---|
| `CaseWorkflowProofs!TypeCorrect` | `TypeOK` | one lemma per call; `FindingsTyped` and `PriorityTyped` for the sets of findings and the ladder |
| `OpenStayCurrent` | `OpenAreCurrent` | inductive with the types |
| `ProjectionStaysInAgreement`, `PriorityStaysExplained` | `ProjectionAgrees`, `PriorityExplained` | `OpenAreCounted`, `OpenAreCurrent`; `EscalateClimbs`, `PriorityIsSum` for the ladder |
| `OnlyDecisionsClear` | `ClearedByDecision` | `OpenAreCurrent` |
| `DecisionsAlwaysStand` | `DecisionsStand` | `ExceptionsApart` |
| `FirstDetectionStaysCarried` | `FirstDetectionCarried` | `OpenAreCurrent` |
| `HistoryStaysConnected` | `HistoryConnected` | inductive with the types |
| `ClearedStays` | `ClearedIsTerminal` (proved only, no run) | inductive with the types |
| `KeysStayRecorded` | `KeysRecordActions` | inductive with the types; `Permitted` for the unique index |
| `VersionsProtect` | `UnseenAreSimultaneous` | `VersionsDate`; the clock never steps back |
| `NothingRequestedTwice`, `NothingPassedOver` | `NoDuplicateRequest`, `OutstandingAcknowledged` | `HistoryInOrder`, `StaysKept`; the clock never steps back |
| `ServiceImplementsLifecycle` | `ImplementsLifecycle` | `OpenAreCurrent`, `ExceptionsApart` |
| `OffersStand` | `OffersHold` | the types; `TableOrGuards`, `GuardsMet` and `RequestGuards` for the decision, `Probed` for the projection |
| `EvaluationTyped`, `InBindingOrder`, `EachAnswered` | `TypeOK`, `FindingsInOrder`, `NoneSuppressed` of `RuleEngine` | `LoopInv`; rules of an instance have distinct ids |
| `NoRefusal` | `GatesNeverRefuse` | `LoopInv`, one lemma per evaluator |
| `ArrivalsHelp` | `DocumentsOnlyHelp` | `LoopInv`, `GrowthInv` |
| `OriginsExact` | `OriginFindingsExact` | `LoopInv`, `OriginExact`; allowed pairs hold ISO codes |
| `CodesExact` | `HtsFindingsExact` | `LoopInv`, `TextInv`, `HtsExact`, `WithoutContents`; codes and thresholds as the JSON schema bounds them |
| `SeedBootProofs!TypeCorrect` | `TypeOK` of `SeedBoot` | inductive |
| `ServingStaysReady`, `BootImplementsDemoData`, `DemoStaysReal` | `ServingIsReady`, `ImplementsDemoData`, `DemoIsReal` | `BootInv` |
| `NothingLocksOut` | `StartsOnCourse`, `Undisturbed` (proved only), the safety half of `Recovers` | `BootInv`, `AloneInv`; one lemma each for migrating, seeding and the checks |
| `ScreenTyped` | `TypeOK` of `ReviewClient` | inductive |
| `DecisionsOnSeen` | `DecidedOnSeen` | `ReadInv` |
| `NeverRecordedTwice` | `NotRecordedTwice` | `LastInv` |
| `ConfirmedIsNotForgotten` | `CatchingUp` (proved only), the safety half of `ShowsRecorded` | inductive with the types |
| `PagesArePartition` | `PagesPartition` | `PlaceInside`, `OnePage`, `PageCounted` |
| `AnswersAreListings`, `ScreenShowsWhatIsAsked` | `KeptInv` (proved only), `ShownAsAsked` | `PageContents` |
| `NothingIsForgotten` | `InFlight` (proved only), the safety half of `AlwaysAnswers` | inductive |
| `WorkListOldestFirst` | `OldestFirst` | `KeptInv`, `PageOrdered`, `DefaultOrder`; queued rows are dated |

The argument for the workflow. All five actions share one shape, and the lemma
`Execution` proves it once: an accepted command, one row appended to the log
(`Written`), the columns of the transition (`Moved`), and exceptions cleared
exactly when the action is a clearance (`Settled`). `Permitted` is what
acceptance implies. With these two, and `Detection` for the other writer, each
theorem is a short induction with one case per writer.

The invariants that carry the others:

- `OpenAreCurrent`. Detection supersedes only the open rows of the latest
  evaluation, and nothing in it looks for older ones. That is enough because
  there are none; the invariant is what says so, and `Detection` uses it to
  conclude that the new findings replace all the old.
- `ExceptionsApart`. The clearance statement selects rows by id whatever their
  status. That open, cleared and superseded rows stay disjoint follows from
  G-REC, which lets a clearance name only open rows, and from evaluation numbers,
  which make every finding new.
- `VersionsDate`. The case row is as young as any action and finding of the case,
  and whatever was written since a reviewer's read is no older than the version
  read. So when the two versions are equal, what the reviewer has not seen dates
  from that instant. The premise is that the clock does not step back; ties, which
  the code allows, stay in.
- `HistoryInOrder`. The service finds a stay in AWAITING_INFORMATION by
  comparing timestamps, the properties define it by insertion order. When the
  clock never steps back the two agree as far as needed (`StayIsRequested`):
  every request of the stay ties with or follows the entry that began it.
- `LoopInv` (`RuleEngineProofs`). Of every enabled rule that is no longer in
  `todo` the results say the final word (`AnsweredFor`), every finding precedes
  every rule still in `todo` in the binding order, and no result mentions such a
  rule. So each turn appends at the right place, and when `todo` is empty every
  rule has been answered for itself.
- `GrowthInv`. The entry has grown from the snapshot, and the snapshot from an
  entry on which everything that fired was committed as `previous`. Conditions
  read nothing that documents change, and missing types only get fewer, so a
  document rule that fires now fired then.
- `BootInv` (`SeedBootProofs`) conjoins the types with three parts. `SchemaInv`:
  what a process has passed over while migrating is applied with its checksum,
  and stays so. `DataInv`: cases are absent or whole, whoever is past the seed
  sees them whole, and the entries a transaction has dealt with are as seeded.
  `PortInv`: who serves has the port and an actor. Each survives any step of any
  other process; the crash of a writer takes its transaction along.
- `OnCourse`. A boot that nobody disturbs has nothing in its way: what it still has
  to migrate is as it read it, what its self-check needs is applied or still to
  come, and if it seeds, fixtures and rules of its release agree. `AloneInv` adds
  that the port belongs to who serves and that servers never force a reseed; with
  the transaction of `TypeOK` this leaves lock and port to the one that runs alone.
- `ReadInv` (`ReviewClientProofs`). Everything the screen keeps, is being sent or
  has submitted was once the case, and a version tells which (`Tells`): with the
  version of the present case it *is* the present case. A submission that passes
  the version check was therefore made on the present status. Its exceptions come
  from another query; that these are the open ones is G-REC's doing.
- `LastInv`. The status of a case is where its last decision leads. The tables
  refuse to repeat a decision from there, but for a request for information, where
  G-DUP refuses the types asked for before.
- `CatchingUp`. What is on its way to a part of the screen is no older than the
  last confirmation, because `Confirm` repeats the fetches in flight; so an answer
  that is kept brings its part up to date, and a part that is behind is being
  fetched unless it shows an error.
- `PlaceInside`. No case precedes itself, so its position is at most the number
  of selected cases; the rest is arithmetic of pages.
- `KeptInv`. Every kept answer is the whole listing of the query it is kept under,
  on one table that once was. What it shows follows from the order alone:
  `Precedes` is a strict total order (`PrecedenceTransitive`, `PrecedenceTotal`,
  with NULLs and ties), so that positions follow it (`PlacesFollowOrder`) and no
  place of a page stays empty (`EveryPlaceTaken`): distinct positions between 1 and
  the number of cases take all of them.
- `WithoutContents`. Removing characters from a code is a recursive function over
  its prefixes. That it keeps just the others, in order, is shown by taking the set
  of prefix lengths for which it does and showing that the set is all numbers
  (`AllNumbers`); `HtsExact` then replaces the ordered checks by what they decide.

What the constants are assumed to be, where it is more than a type:
`DatedAssumption` (`QueueScreen`) says that a queued row has an oldest opening;
`detectExceptions` writes both from the same findings. `EntriesShaped` and
`ParamsShaped` (`RuleEngine`) are the bounds of the rules' JSON schemas and
the character set of codes. `AnswersAssumption` (`ReviewClient`) keeps the marks
for no fetch and an unanswered one apart from answers.

What TLC checks and TLAPS does not prove: liveness (`Recovers`, `AlwaysAnswers`,
`ShowsRecorded`), since fairness is out of its reach. Of each the safety half is
proved: nothing that has to come is forgotten, and nothing fails on the way. The
violated statements are refuted by TLC.

The runs check the same properties on small instances and, through the mutants
listed in `PROJECT.json`, show that each can be violated by a plausible bug.

## 5. Plan

Done: the workflow and its lifecycle, the rule engine, seed and boot, the queue
and its screen, the review client, and the proofs of their safety. What would
come next, in this order:

1. Two review screens on one case, and a re-evaluation among the writers, once
   the program has a route for it.
2. The guards of the stay under a clock that steps back, once the code says what
   it wants then.

## 6. Not modelled, and why

- The HTTP server, its error mapping, headers, static files and configuration
  parsing: they pass on what the services decide.
- Rendering: wording, layout, formatting of money and dates, navigation between
  screens, the documents panel.
- `scripts/verifyPreview.mjs`, build scripts and shared type declarations: no
  state of the program.
- Hold and escalation reasons, due dates and other free text; the wording of
  evidence (which rows and columns there are is modelled).
- The SQL of a migration and the fields of the fixtures: a migration is its
  version and checksum, a seeded case its status, whether it was acted on, and its queued flag.
- Tables the code creates and never uses (approvals, recommendations, audit
  entries, notifications).
- The answers of calls that write nothing: what a replayed idempotency key returns
  and IDEMPOTENCY_KEY_REUSED. The client sends no key.

`PROJECT.json` lists every component with its status.
