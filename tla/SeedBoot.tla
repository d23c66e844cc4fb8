------------------------------ MODULE SeedBoot ------------------------------
(***************************************************************************)
(* The start of the program: server/index.ts and scripts/seed.ts migrate   *)
(* the database (infra/db/migrate.ts), check its schema, seed it           *)
(* (app/seedService.ts), and a server then listens.  The processes share   *)
(* one SQLite file in WAL mode and nothing else: any step of one may fall  *)
(* between two steps of another, and a process may die between any two.    *)
(*                                                                         *)
(* A release is what is checked out when a process starts: its code, its   *)
(* migrations and its fixtures.  SQLite has one writer at a time: "tx" is  *)
(* the seeding transaction in progress, the one write of this module that  *)
(* takes several steps.                                                    *)
(***************************************************************************)
EXTENDS Naturals, FiniteSets

CONSTANTS
  Servers,        \* processes of `npm start`
  Commands,       \* processes of `npm run seed` and `npm run seed:reset`
  Releases,
  Files,          \* by release: its migrations, version -> checksum
  Needs,          \* by release: versions that made the objects its self-check names
  Flagged,        \* by release: entries its fixtures expect exceptions of
  Detected,       \* by release: entries its rules find exceptions in
  Authors,        \* the releases whose default actor may author case actions
  Entries,        \* the fixtures' entries
  Canonical,      \* SHP-2026-0007
  Closed,         \* the entries whose fixture is CLEARED, as SHP-2026-0009
  None,
  MaxStarts       \* bound on process starts

Processes == Servers \cup Commands

ASSUME ProcessesApart ==
  /\ Servers \cap Commands = {}
  /\ None \notin Processes
ASSUME ReleasesTyped ==
  /\ Releases # {}
  /\ \A r \in Releases : DOMAIN Files[r] \subseteq Nat
  /\ Needs \in [Releases -> SUBSET Nat]
  /\ Flagged \in [Releases -> SUBSET Entries]
  /\ Detected \in [Releases -> SUBSET Entries]
  /\ Authors \subseteq Releases
ASSUME EntriesTyped == Canonical \in Entries /\ Closed \subseteq Entries /\ MaxStarts \in Nat

VARIABLES
  applied,  \* schema_migrations: version -> checksum
  cases,    \* committed cases rows by entry
  tx,       \* the open seeding transaction, or None
  pc,       \* where each process is
  mem,      \* what each process remembers, or None
  port,     \* the server that listens on CARGODEMO_PORT, or None
  starts    \* processes started

vars == <<applied, cases, tx, pc, mem, port, starts>>

Rows == [status : {"seeded", "worked", "cleared"}, acted : BOOLEAN, queued : BOOLEAN]

NoCases   == [e \in {} |-> None]  \* no entry has a row
NoHistory == [v \in {} |-> None]  \* no migration is applied

Ended   == {"down", "done", "failed"}
Booting == {"migrating", "checking", "counting", "seeding", "writing", "verifying", "listening"}

Init ==
  /\ applied = NoHistory /\ cases = NoCases
  /\ tx = None /\ port = None
  /\ pc = [p \in Processes |-> "down"]
  /\ mem = [p \in Processes |-> None]
  /\ starts = 0

(* The process goes on to the next part of its boot. *)
Goto(p, place) == pc' = [pc EXCEPT ![p] = place]

(* exit(0) of a command, exit(1) of anything, or the death of a process. *)
End(p, result) ==
  /\ Goto(p, result)
  /\ mem' = [mem EXCEPT ![p] = None]

(***************************************************************************)
(* Migrations.  discoverMigrations lists the files, the applied versions   *)
(* are read once, and each missing one is a transaction of its own.        *)
(***************************************************************************)
(* A server never forces a reseed; --force-reseed makes a command do so. *)
Start(p, release, force) ==
  /\ pc[p] \in Ended
  /\ force => p \in Commands
  /\ starts < MaxStarts
  /\ starts' = starts + 1
  /\ Goto(p, "migrating")
  /\ mem' = [mem EXCEPT ![p] = [release |-> release, seen |-> applied,
                                left |-> DOMAIN Files[release],
                                force |-> force, seeded |-> FALSE]]
  /\ UNCHANGED <<applied, cases, tx, port>>

(* Migrations are taken in the order of their numeric prefix. *)
IsNext(p, v) ==
  /\ pc[p] = "migrating"
  /\ v \in mem[p].left
  /\ \A w \in mem[p].left : v <= w

Passed(p, v) == mem' = [mem EXCEPT ![p].left = @ \ {v}]

(* A faulty SkipMigration: the checksum is not compared. *)
SkipUncompared(p, v) ==
  /\ IsNext(p, v)
  /\ v \in DOMAIN mem[p].seen
  /\ Passed(p, v)
  /\ UNCHANGED <<applied, cases, tx, pc, port, starts>>

(* Applied before, with the same checksum: skipped. *)
SkipMigration(p, v) ==
  /\ IsNext(p, v)
  /\ v \in DOMAIN mem[p].seen
  /\ mem[p].seen[v] = Files[mem[p].release][v]
  /\ Passed(p, v)
  /\ UNCHANGED <<applied, cases, tx, pc, port, starts>>

(* The file was edited after it was applied. *)
ChecksumMismatch(p, v) ==
  /\ IsNext(p, v)
  /\ v \in DOMAIN mem[p].seen
  /\ mem[p].seen[v] # Files[mem[p].release][v]
  /\ End(p, "failed")
  /\ UNCHANGED <<applied, cases, tx, port, starts>>

ApplyMigration(p, v) ==
  /\ IsNext(p, v)
  /\ v \notin DOMAIN mem[p].seen
  /\ v \notin DOMAIN applied
  /\ tx = None
  /\ applied' = [w \in DOMAIN applied \cup {v} |->
                   IF w = v THEN Files[mem[p].release][v] ELSE applied[w]]
  /\ Passed(p, v)
  /\ UNCHANGED <<cases, tx, pc, port, starts>>

(* Another process has applied it since: its objects exist already. *)
AlreadyApplied(p, v) ==
  /\ IsNext(p, v)
  /\ v \notin DOMAIN mem[p].seen
  /\ v \in DOMAIN applied
  /\ End(p, "failed")
  /\ UNCHANGED <<applied, cases, tx, port, starts>>

(* runMigrations returns and what it read is forgotten. *)
Migrated(p) ==
  /\ pc[p] = "migrating" /\ mem[p].left = {}
  /\ Goto(p, "checking")
  /\ mem' = [mem EXCEPT ![p].seen = NoHistory]
  /\ UNCHANGED <<applied, cases, tx, port, starts>>

(* runSchemaSelfCheck: tables, CHECK constraints and triggers by name. *)
SelfCheck(p) ==
  /\ pc[p] = "checking"
  /\ \/ Needs[mem[p].release] \subseteq DOMAIN applied
        /\ Goto(p, "counting") /\ UNCHANGED mem
     \/ ~(Needs[mem[p].release] \subseteq DOMAIN applied)
        /\ End(p, "failed")
  /\ UNCHANGED <<applied, cases, tx, port, starts>>

(***************************************************************************)
(* Seeding.  The count is taken outside the seeding transaction.           *)
(***************************************************************************)
SkipSeed(p) ==
  /\ pc[p] = "counting" /\ ~mem[p].force
  /\ cases # NoCases
  /\ \/ p \in Servers /\ Goto(p, "verifying") /\ UNCHANGED mem
     \/ p \in Commands /\ End(p, "done")
  /\ UNCHANGED <<applied, cases, tx, port, starts>>

NeedSeed(p) ==
  /\ pc[p] = "counting"
  /\ mem[p].force \/ cases = NoCases
  /\ Goto(p, "seeding")
  /\ UNCHANGED <<applied, cases, tx, mem, port, starts>>

(* cases.last_action_id refers to case_actions, which are deleted first. *)
Referenced == \E e \in DOMAIN cases : cases[e].acted

BeginSeed(p) ==
  /\ pc[p] = "seeding" /\ tx = None
  /\ mem[p].force => ~Referenced
  /\ tx' = [owner |-> p, left |-> Entries,
            rows |-> IF mem[p].force THEN NoCases ELSE cases]
  /\ Goto(p, "writing")
  /\ UNCHANGED <<applied, cases, mem, port, starts>>

(* FOREIGN KEY constraint failed: the reset is rolled back. *)
ResetRefused(p) ==
  /\ pc[p] = "seeding" /\ tx = None
  /\ mem[p].force /\ Referenced
  /\ End(p, "failed")
  /\ UNCHANGED <<applied, cases, tx, port, starts>>

(* The upsert of a case keeps what the fixture does not name. *)
Fresh(p, e, rows) ==
  [status |-> IF e \in Closed THEN "cleared" ELSE "seeded",
   acted  |-> e \in DOMAIN rows /\ rows[e].acted,
   queued |-> e \in Detected[mem[p].release]]

Upsert(p, e, rows) ==
  [x \in DOMAIN rows \cup {e} |-> IF x = e THEN Fresh(p, e, rows) ELSE rows[x]]

(* A faulty SeedEntry: the entries are not in one transaction. *)
SeedEntryCommitted(p, e) ==
  /\ pc[p] = "writing" /\ e \in tx.left
  /\ tx' = [tx EXCEPT !.left = @ \ {e}, !.rows = Upsert(p, e, tx.rows)]
  /\ cases' = tx'.rows
  /\ UNCHANGED <<applied, pc, mem, port, starts>>

(* Entry, documents, case and evaluation of one fixture. *)
SeedEntry(p, e) ==
  /\ pc[p] = "writing" /\ e \in tx.left
  /\ tx' = [tx EXCEPT !.left = @ \ {e}, !.rows = Upsert(p, e, tx.rows)]
  /\ UNCHANGED <<applied, cases, pc, mem, port, starts>>

(* assertCanonicalScenario: the case every walk-through shows is there. *)
CanonicalScenario(r) == Canonical \in Flagged[r]

(* assertCoverage: over the fixtures, before anything is detected. *)
Covers(r) == Flagged[r] # Entries /\ CanonicalScenario(r)

(* assertDetectionCoverage: what detection found is what they expect. *)
DetectionCovers(r, rows) == \A e \in Entries : rows[e].queued <=> e \in Flagged[r]

(* A faulty CommitSeed: nothing is asserted before the commit. *)
CommitUnasserted(p) ==
  /\ pc[p] = "writing" /\ tx.left = {}
  /\ cases' = tx.rows /\ tx' = None
  /\ \/ p \in Servers /\ Goto(p, "verifying") /\ mem' = [mem EXCEPT ![p].seeded = TRUE]
     \/ p \in Commands /\ End(p, "done")
  /\ UNCHANGED <<applied, port, starts>>

(* A faulty CommitSeed: the transaction is left open. *)
CommitAndHold(p) ==
  /\ pc[p] = "writing" /\ tx.left = {}
  /\ Covers(mem[p].release) /\ DetectionCovers(mem[p].release, tx.rows)
  /\ cases' = tx.rows /\ UNCHANGED tx
  /\ \/ p \in Servers /\ Goto(p, "verifying") /\ mem' = [mem EXCEPT ![p].seeded = TRUE]
     \/ p \in Commands /\ End(p, "done")
  /\ UNCHANGED <<applied, port, starts>>

CommitSeed(p) ==
  /\ pc[p] = "writing" /\ tx.left = {}
  /\ Covers(mem[p].release) /\ DetectionCovers(mem[p].release, tx.rows)
  /\ cases' = tx.rows /\ tx' = None
  /\ \/ p \in Servers /\ Goto(p, "verifying") /\ mem' = [mem EXCEPT ![p].seeded = TRUE]
     \/ p \in Commands /\ End(p, "done")
  /\ UNCHANGED <<applied, port, starts>>

(* SEED_COVERAGE_FAILED: the whole seed is rolled back. *)
RejectSeed(p) ==
  /\ pc[p] = "writing" /\ tx.left = {}
  /\ ~(Covers(mem[p].release) /\ DetectionCovers(mem[p].release, tx.rows))
  /\ tx' = None
  /\ End(p, "failed")
  /\ UNCHANGED <<applied, cases, port, starts>>

(***************************************************************************)
(* The checks of a server after its seed, and listening.                   *)
(***************************************************************************)
NoneQueued == \A e \in DOMAIN cases : ~cases[e].queued

(* A faulty VerifyQueue: an empty queue is an error of any boot. *)
VerifyQueueAlways(p) ==
  /\ pc[p] = "verifying"
  /\ \/ NoneQueued /\ End(p, "failed")
     \/ ~NoneQueued /\ Goto(p, "listening") /\ UNCHANGED mem
  /\ UNCHANGED <<applied, cases, tx, port, starts>>

(* Only the boot that seeded asks for a queue and the canonical scenario. *)
VerifyQueue(p) ==
  /\ pc[p] = "verifying"
  /\ LET bad == mem[p].seeded /\ (NoneQueued \/ Canonical \notin DOMAIN cases) IN
     \/ bad /\ End(p, "failed")
     \/ ~bad /\ Goto(p, "listening") /\ UNCHANGED mem
  /\ UNCHANGED <<applied, cases, tx, port, starts>>

(* resolveActor and app.listen. *)
Listen(p) ==
  /\ pc[p] = "listening"
  /\ mem[p].release \in Authors /\ port = None
  /\ port' = p
  /\ Goto(p, "serving")
  /\ UNCHANGED <<applied, cases, tx, mem, starts>>

(* ACTOR_UNAVAILABLE, or EADDRINUSE: no other port is tried. *)
CannotListen(p) ==
  /\ pc[p] = "listening"
  /\ mem[p].release \notin Authors \/ port # None
  /\ End(p, "failed")
  /\ UNCHANGED <<applied, cases, tx, port, starts>>

(***************************************************************************)
(* What the rest of the world does.                                        *)
(***************************************************************************)
(* applyCaseAction on a serving server; a clearance empties the queue.     *)
Decide(p, e, clears) ==
  /\ pc[p] = "serving" /\ tx = None
  /\ e \in DOMAIN cases /\ cases[e].status # "cleared"
  /\ cases' = [cases EXCEPT ![e] =
       [status |-> IF clears THEN "cleared" ELSE "worked",
        acted |-> TRUE, queued |-> cases[e].queued /\ ~clears]]
  /\ UNCHANGED <<applied, tx, pc, mem, port, starts>>

(* SQLITE_BUSY: the writer before this one took more than busy_timeout. *)
Busy(p) ==
  /\ tx # None
  /\ \/ pc[p] = "seeding"
     \/ \E v \in mem[p].left : IsNext(p, v) /\ v \notin DOMAIN mem[p].seen
  /\ End(p, "failed")
  /\ UNCHANGED <<applied, cases, tx, port, starts>>

(* A process dies, or is stopped: SQLite rolls its transaction back. *)
Crash(p) ==
  /\ pc[p] \notin Ended
  /\ tx' = IF pc[p] = "writing" THEN None ELSE tx
  /\ port' = IF port = p THEN None ELSE port
  /\ End(p, "down")
  /\ UNCHANGED <<applied, cases, starts>>

Migrate(p) ==
  \E v \in DOMAIN Files[mem[p].release] :
    SkipMigration(p, v) \/ ChecksumMismatch(p, v) \/ ApplyMigration(p, v) \/ AlreadyApplied(p, v)

Seed(p) ==
  \/ SkipSeed(p) \/ NeedSeed(p) \/ BeginSeed(p) \/ ResetRefused(p)
  \/ \E e \in Entries : SeedEntry(p, e)
  \/ CommitSeed(p) \/ RejectSeed(p)

(* One step of the program of a process. *)
Step(p) ==
  \/ pc[p] = "migrating" /\ Migrate(p)
  \/ Migrated(p) \/ SelfCheck(p)
  \/ Seed(p)
  \/ VerifyQueue(p) \/ Listen(p) \/ CannotListen(p)

Next ==
  \E p \in Processes :
    \/ \E release \in Releases, force \in BOOLEAN : Start(p, release, force)
    \/ Step(p) \/ Crash(p)
    \/ pc[p] \in Booting /\ Busy(p)
    \/ \E e \in Entries, clears \in BOOLEAN : Decide(p, e, clears)

(***************************************************************************)
(* A process that can go on does: the operating system schedules it and    *)
(* the busy handler of SQLite lets a waiting writer in once the other has  *)
(* ended.  Nobody has to start a process or to decide.                     *)
(***************************************************************************)
Fairness == \A p \in Processes : WF_vars(Step(p))

Spec == Init /\ [][Next]_vars /\ Fairness
(***************************************************************************)
(* Properties.                                                             *)
(***************************************************************************)
Checksums == UNION {{Files[r][v] : v \in DOMAIN Files[r]} : r \in Releases}
AllVersions == UNION {DOMAIN Files[r] : r \in Releases}

(* What the tables of cases and migrations can hold. *)
Tables    == UNION {[es -> Rows] : es \in SUBSET Entries}
Histories == UNION {[vs -> Checksums] : vs \in SUBSET AllVersions}

Memories ==
  [release : Releases, seen : Histories, left : SUBSET AllVersions,
   force : BOOLEAN, seeded : BOOLEAN]

Transactions == [owner : Processes, left : SUBSET Entries, rows : Tables]

ASSUME NoTransaction == None \notin Transactions

(* The variables have their types, and there is a seeding transaction just *)
(* while its owner writes: a process that ends in any way releases it.     *)
TypeOK ==
  /\ applied \in Histories
  /\ cases \in Tables
  /\ pc \in [Processes -> Ended \cup Booting \cup {"serving"}]
  /\ port \in Servers \cup {None}
  /\ starts \in 0..MaxStarts
  /\ tx \in Transactions \cup {None}
  /\ mem \in [Processes -> Memories \cup {None}]
  /\ \A p \in Processes :
       /\ pc[p] \in Ended => mem[p] = None
       /\ pc[p] \notin Ended => /\ mem[p] \in Memories
                              /\ mem[p].left \subseteq DOMAIN Files[mem[p].release]
       /\ pc[p] = "writing" <=> tx # None /\ tx.owner = p
       /\ pc[p] \in {"verifying", "listening", "serving"} => p \in Servers

(* A server that answers requests runs on the schema its release was       *)
(* written for, with the migrations as released, a whole data set, an      *)
(* actor, and the port to itself; whatever the others do in the meantime.  *)
ServingIsReady ==
  \A p \in Processes : pc[p] = "serving" =>
    LET r == mem[p].release IN
    /\ Needs[r] \subseteq DOMAIN applied
    /\ \A v \in DOMAIN Files[r] : v \in DOMAIN applied /\ applied[v] = Files[r][v]
    /\ DOMAIN cases = Entries
    /\ r \in Authors
    /\ port = p

(* The cases nobody has decided on are those of one release, with just the *)
(* findings its fixtures expect: a demo that is half there or hollow is    *)
(* rolled back before anyone reads it (assertDetectionCoverage).           *)
DemoIsReal ==
  \E r \in Releases :
    /\ cases # NoCases => Covers(r)
    /\ \A e \in DOMAIN cases :
         ~cases[e].acted => (cases[e].queued <=> e \in Flagged[r])

(* The database as everyone reads it changes by whole data sets and by     *)
(* decisions on single cases, in whatever order processes run and die.     *)
Demo == INSTANCE DemoData
ImplementsDemoData == Demo!DataSpec

(* No other process runs. *)
Quiet(p) == \A q \in Processes \ {p} : pc[q] \in Ended

(* p has just started, from a release that fits the database. *)
Bootable(p) ==
  /\ pc[p] = "migrating" /\ mem[p].seen = applied
  /\ LET r == mem[p].release IN
     /\ r \in Authors
     /\ mem[p].left = DOMAIN Files[r]
     /\ \A v \in DOMAIN Files[r] \cap DOMAIN applied : applied[v] = Files[r][v]
     /\ Needs[r] \subseteq DOMAIN applied \cup DOMAIN Files[r]
     /\ cases = NoCases => Covers(r) /\ Detected[r] = Flagged[r]

(* Whatever state earlier boots, crashes, resets and decisions have left   *)
(* the database in, a server that starts alone comes to serve: none of     *)
(* them locks the operator out (server/index.ts).                          *)
Recovers ==
  \A p \in Servers :
    Quiet(p) /\ Bootable(p) ~> pc[p] \in {"serving", "down"} \/ ~Quiet(p)

(* "no flagged shipments remain; run `npm run seed:reset` to restore the   *)
(* seeded demo state": a reset alone on an empty queue succeeds.           *)
ResetRestores ==
  \A p \in Commands :
    (Quiet(p) /\ pc[p] = "seeding" /\ mem[p].force /\ NoneQueued
      /\ Covers(mem[p].release) /\ Detected[mem[p].release] = Flagged[mem[p].release])
    ~> pc[p] \in {"done", "down"} \/ ~Quiet(p)

(* "Seed automatically when the database has no entries": a process that   *)
(* is not a reset seeds an empty database only.                            *)
SeedsOnlyEmpty ==
  tx # None => mem[tx.owner].force \/ cases = NoCases
=============================================================================
