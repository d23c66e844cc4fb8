--------------------------- MODULE SeedBootProofs ---------------------------
(***************************************************************************)
(* Proofs about the start of the program, for every set of processes,      *)
(* releases and entries: the types, that a server which answers requests   *)
(* is ready to, that the demo data is never hollow, that the database      *)
(* implements DemoData whatever runs and dies in between, and that nothing *)
(* left behind fails a boot that is alone.                                 *)
(***************************************************************************)
EXTENDS SeedBoot, TLAPS

(* A table is a function from some entries to rows. *)
LEMMA TablesAre ==
  \A rows : rows \in Tables <=> DOMAIN rows \subseteq Entries /\ rows \in [DOMAIN rows -> Rows]
BY DEF Tables

(* A history is a function from some versions to checksums. *)
LEMMA HistoriesAre ==
  \A h : h \in Histories <=> DOMAIN h \subseteq AllVersions /\ h \in [DOMAIN h -> Checksums]
BY DEF Histories

(* What a release ships is among all versions and checksums. *)
LEMMA FilesKnown ==
  ASSUME NEW r \in Releases
  PROVE  /\ DOMAIN Files[r] \subseteq AllVersions
         /\ \A v \in DOMAIN Files[r] : Files[r][v] \in Checksums
BY DEF AllVersions, Checksums

(* No row and no migration are a table and a history. *)
LEMMA NothingTyped == NoCases \in Tables /\ NoHistory \in Histories
BY TablesAre, HistoriesAre DEF NoCases, NoHistory

(* The places of a process are apart. *)
LEMMA PlacesApart == Ended \cap (Booting \cup {"serving"}) = {} /\ "writing" \in Booting
BY DEF Ended, Booting

-----------------------------------------------------------------------------
(* A process that ends leaves the types alone, and releases a transaction  *)
(* when it had one.                                                        *)
LEMMA EndTyped ==
  ASSUME TypeOK, NEW p \in Processes, NEW result \in Ended, End(p, result),
         UNCHANGED <<applied, starts>>, cases' \in Tables,
         port' \in {port, None},
         IF pc[p] = "writing" THEN tx' = None ELSE tx' = tx
  PROVE  TypeOK'
<1>1. /\ pc' \in [Processes -> Ended \cup Booting \cup {"serving"}]
      /\ pc'[p] = result
      /\ \A q \in Processes \ {p} : pc'[q] = pc[q]
  BY DEF TypeOK, End, Goto
<1>2. /\ mem' \in [Processes -> Memories \cup {None}]
      /\ mem'[p] = None
      /\ \A q \in Processes \ {p} : mem'[q] = mem[q]
  BY DEF TypeOK, End
<1>3. /\ tx' \in Transactions \cup {None}
      /\ \A q \in Processes :
           /\ pc'[q] = "writing" <=> tx' # None /\ tx'.owner = q
           /\ pc'[q] \in {"verifying", "listening", "serving"} => q \in Servers
  <2>1. result \notin {"writing", "verifying", "listening", "serving"}
    BY DEF Ended
  <2>2. QED
    BY <1>1, <2>1 DEF TypeOK
<1>4. QED
  BY <1>1, <1>2, <1>3, PlacesApart DEF TypeOK

(* A process that goes on stays typed when what it remembers is.           *)
LEMMA GotoTyped ==
  ASSUME TypeOK, NEW p \in Processes, NEW place \in Booting \cup {"serving"}, Goto(p, place),
         NEW m \in Memories, mem' = [mem EXCEPT ![p] = m],
         m.left \subseteq DOMAIN Files[m.release],
         applied' \in Histories, cases' \in Tables, port' \in Servers \cup {None},
         starts' \in 0..MaxStarts, tx' \in Transactions \cup {None},
         place = "writing" <=> tx' # None /\ tx'.owner = p,
         place \in {"verifying", "listening", "serving"} => p \in Servers,
         \A q \in Processes \ {p} :
           (tx' # None /\ tx'.owner = q) <=> (tx # None /\ tx.owner = q)
  PROVE  TypeOK'
<1>1. /\ pc' \in [Processes -> Ended \cup Booting \cup {"serving"}]
      /\ pc'[p] = place
      /\ \A q \in Processes \ {p} : pc'[q] = pc[q]
  BY DEF TypeOK, Goto
<1>2. /\ mem' \in [Processes -> Memories \cup {None}]
      /\ mem'[p] = m
      /\ \A q \in Processes \ {p} : mem'[q] = mem[q]
  BY DEF TypeOK
<1>3. \A q \in Processes :
        /\ pc'[q] = "writing" <=> tx' # None /\ tx'.owner = q
        /\ pc'[q] \in {"verifying", "listening", "serving"} => q \in Servers
  BY <1>1 DEF TypeOK
<1>4. QED
  BY <1>1, <1>2, <1>3, PlacesApart DEF TypeOK

(* The same of a process that has no transaction before and after.         *)
LEMMA GoOnTyped ==
  ASSUME TypeOK, NEW p \in Processes, NEW place \in Booting \cup {"serving"}, Goto(p, place),
         pc[p] # "writing", place # "writing",
         NEW m \in Memories, mem' = [mem EXCEPT ![p] = m],
         m.left \subseteq DOMAIN Files[m.release],
         applied' \in Histories, port' \in Servers \cup {None},
         place \in {"verifying", "listening", "serving"} => p \in Servers,
         UNCHANGED <<cases, tx, starts>>
  PROVE  TypeOK'
<1>1. ~(tx' # None /\ tx'.owner = p)
  BY DEF TypeOK
<1>2. cases' \in Tables /\ starts' \in 0..MaxStarts /\ tx' \in Transactions \cup {None}
  BY DEF TypeOK
<1>3. QED
  BY <1>1, <1>2, GotoTyped

(* And of one that commits its transaction and goes on.                    *)
LEMMA CommitTyped ==
  ASSUME TypeOK, NEW p \in Servers, pc[p] = "writing", Goto(p, "verifying"),
         NEW m \in Memories, mem' = [mem EXCEPT ![p] = m],
         m.left \subseteq DOMAIN Files[m.release],
         cases' \in Tables, tx' = None, UNCHANGED <<applied, port, starts>>
  PROVE  TypeOK'
<1>1. p \in Processes /\ tx # None /\ tx.owner = p
  BY DEF TypeOK, Processes
<1>2. /\ pc' \in [Processes -> Ended \cup Booting \cup {"serving"}]
      /\ pc'[p] = "verifying"
      /\ \A q \in Processes \ {p} : pc'[q] = pc[q]
  BY <1>1 DEF TypeOK, Goto, Booting
<1>3. /\ mem' \in [Processes -> Memories \cup {None}]
      /\ mem'[p] = m
      /\ \A q \in Processes \ {p} : mem'[q] = mem[q]
  BY <1>1 DEF TypeOK
<1>4. \A q \in Processes :
        /\ pc'[q] = "writing" <=> tx' # None /\ tx'.owner = q
        /\ pc'[q] \in {"verifying", "listening", "serving"} => q \in Servers
  BY <1>1, <1>2 DEF TypeOK
<1>5. QED
  BY <1>2, <1>3, <1>4, PlacesApart DEF TypeOK, Ended

(* A running process remembers its release and what is left to migrate.    *)
LEMMA Remembers ==
  ASSUME TypeOK, NEW p \in Processes, pc[p] \notin Ended
  PROVE  /\ mem[p] \in Memories
         /\ mem[p].release \in Releases
         /\ mem[p].left \subseteq DOMAIN Files[mem[p].release]
         /\ mem = [mem EXCEPT ![p] = mem[p]]
BY DEF TypeOK, Memories

(* A table with the row of one more fixture is a table.                    *)
LEMMA UpsertTyped ==
  ASSUME TypeOK, NEW p \in Processes, NEW e \in Entries, NEW rows \in Tables
  PROVE  Upsert(p, e, rows) \in Tables
<1>1. Fresh(p, e, rows) \in Rows
  <2>1. e \in DOMAIN rows => rows[e].acted \in BOOLEAN
    BY TablesAre DEF Rows
  <2>2. QED
    BY <2>1 DEF Fresh, Rows
<1>2. \A x \in DOMAIN rows : rows[x] \in Rows
  BY TablesAre
<1>3. DOMAIN Upsert(p, e, rows) = DOMAIN rows \cup {e}
  BY DEF Upsert
<1>4. Upsert(p, e, rows) \in [DOMAIN rows \cup {e} -> Rows]
  BY <1>1, <1>2 DEF Upsert
<1>5. DOMAIN rows \cup {e} \subseteq Entries
  BY TablesAre
<1>6. QED
  BY <1>3, <1>4, <1>5, TablesAre

-----------------------------------------------------------------------------
(* Every step of the migrations keeps the types.                           *)
LEMMA MigrateTyped ==
  ASSUME TypeOK, NEW p \in Processes, pc[p] = "migrating", Migrate(p)
  PROVE  TypeOK'
<1> DEFINE m == mem[p]
<1>1. m \in Memories /\ m.release \in Releases /\ m.left \subseteq DOMAIN Files[m.release]
  BY Remembers, PlacesApart DEF Ended
<1>2. PICK v \in DOMAIN Files[m.release] :
        \/ SkipMigration(p, v) \/ ChecksumMismatch(p, v)
        \/ ApplyMigration(p, v) \/ AlreadyApplied(p, v)
  BY DEF Migrate
<1>3. Goto(p, "migrating") \/ pc' # pc
  BY DEF Goto, TypeOK
<1>4. PICK n \in Memories :
        /\ n.left \subseteq DOMAIN Files[n.release]
        /\ Passed(p, v) => mem' = [mem EXCEPT ![p] = n]
  <2>1. [m EXCEPT !.left = @ \ {v}] \in Memories
    BY <1>1 DEF Memories
  <2>2. [m EXCEPT !.left = @ \ {v}].left \subseteq DOMAIN Files[[m EXCEPT !.left = @ \ {v}].release]
    BY <1>1 DEF Memories
  <2>3. QED
    BY <2>1, <2>2 DEF Passed
<1> HIDE DEF m
<1>7. CASE SkipMigration(p, v)
  <2>1. Goto(p, "migrating") /\ Passed(p, v) /\ UNCHANGED <<applied, cases, tx, port, starts>>
    BY <1>3, <1>7 DEF SkipMigration
  <2>2. QED
    BY <1>4, <2>1, GotoTyped DEF TypeOK, Booting
<1>8. CASE ChecksumMismatch(p, v)
  BY <1>8, EndTyped DEF ChecksumMismatch, TypeOK, Ended
<1>9. CASE ApplyMigration(p, v)
  <2>1. /\ Goto(p, "migrating") /\ Passed(p, v) /\ UNCHANGED <<cases, tx, port, starts>>
        /\ applied' = [w \in DOMAIN applied \cup {v} |->
                         IF w = v THEN Files[mem[p].release][v] ELSE applied[w]]
    BY <1>3, <1>9 DEF ApplyMigration
  <2>2. v \in AllVersions /\ Files[mem[p].release][v] \in Checksums
    BY <1>1, FilesKnown DEF m
  <2>3. applied \in [DOMAIN applied -> Checksums] /\ DOMAIN applied \subseteq AllVersions
    BY HistoriesAre DEF TypeOK
  <2>4. DOMAIN applied' \subseteq AllVersions /\ applied' \in [DOMAIN applied' -> Checksums]
    BY <2>1, <2>2, <2>3
  <2>5. applied' \in Histories
    BY <2>4, HistoriesAre
  <2>6. /\ "migrating" \in Booting \cup {"serving"}
        /\ "migrating" \notin {"writing", "verifying", "listening", "serving"}
    BY DEF Booting
  <2>7. pc[p] # "writing" /\ port' \in Servers \cup {None}
    BY <2>1 DEF TypeOK
  <2>8. QED
    BY <1>4, <2>1, <2>5, <2>6, <2>7, GoOnTyped
<1>10. CASE AlreadyApplied(p, v)
  BY <1>10, EndTyped DEF AlreadyApplied, TypeOK, Ended
<1>11. QED
  BY <1>2, <1>7, <1>8, <1>9, <1>10

(* So does every step of the seeding.                                      *)
LEMMA SeedTyped ==
  ASSUME TypeOK, NEW p \in Processes, Seed(p)
  PROVE  TypeOK'
<1>0. pc[p] \notin Ended /\ pc[p] # "serving"
  BY DEF Seed, SkipSeed, NeedSeed, BeginSeed, ResetRefused, SeedEntry, CommitSeed, RejectSeed, Ended
<1>1. /\ mem[p] \in Memories /\ mem[p].release \in Releases
      /\ mem[p].left \subseteq DOMAIN Files[mem[p].release]
      /\ mem = [mem EXCEPT ![p] = mem[p]]
  BY <1>0, Remembers
<1>2. CASE SkipSeed(p)
  <2>1. CASE p \in Servers /\ Goto(p, "verifying") /\ UNCHANGED mem
    BY <1>1, <1>2, <2>1, GotoTyped DEF SkipSeed, TypeOK, Booting
  <2>2. CASE p \in Commands /\ End(p, "done")
    BY <1>2, <2>2, EndTyped DEF SkipSeed, TypeOK, Ended
  <2>3. QED
    BY <1>2, <2>1, <2>2 DEF SkipSeed
<1>3. CASE NeedSeed(p)
  BY <1>1, <1>3, GotoTyped DEF NeedSeed, TypeOK, Booting
<1>4. CASE BeginSeed(p)
  <2>1. tx' \in Transactions /\ tx'.owner = p /\ tx = None
    BY <1>4, NothingTyped DEF BeginSeed, TypeOK, Transactions
  <2>2. QED
    BY <1>1, <1>4, <2>1, GotoTyped, NoTransaction DEF BeginSeed, TypeOK, Booting
<1>5. CASE ResetRefused(p)
  BY <1>5, EndTyped DEF ResetRefused, TypeOK, Ended
<1>6. ASSUME NEW e \in Entries, SeedEntry(p, e)
      PROVE  TypeOK'
  <2>1. tx \in Transactions /\ tx.owner = p /\ pc[p] = "writing"
    BY <1>6 DEF SeedEntry, TypeOK
  <2>2. Upsert(p, e, tx.rows) \in Tables
    BY <2>1, UpsertTyped DEF Transactions
  <2>3. tx' \in Transactions /\ tx'.owner = p
    BY <1>6, <2>1, <2>2 DEF SeedEntry, Transactions
  <2>4. Goto(p, "writing")
    BY <1>6 DEF SeedEntry, Goto, TypeOK
  <2>5. QED
    BY <1>1, <1>6, <2>1, <2>3, <2>4, GotoTyped, NoTransaction DEF SeedEntry, TypeOK, Booting
<1>7. CASE CommitSeed(p)
  <2>1. tx \in Transactions /\ tx.owner = p /\ pc[p] = "writing"
    BY <1>7 DEF CommitSeed, TypeOK
  <2>2. cases' \in Tables /\ tx' = None
    BY <1>7, <2>1 DEF CommitSeed, Transactions
  <2>3. CASE p \in Servers /\ Goto(p, "verifying") /\ mem' = [mem EXCEPT ![p].seeded = TRUE]
    <3>1. PICK n \in Memories :
            n.left \subseteq DOMAIN Files[n.release] /\ mem' = [mem EXCEPT ![p] = n]
      <4>1. [mem[p] EXCEPT !.seeded = TRUE] \in Memories
        BY <1>1 DEF Memories
      <4>2. QED
        BY <1>1, <2>3, <4>1 DEF Memories
    <3>2. QED
      BY <1>7, <2>1, <2>2, <2>3, <3>1, CommitTyped DEF CommitSeed
  <2>4. CASE p \in Commands /\ End(p, "done")
    BY <1>7, <2>1, <2>2, <2>4, EndTyped DEF CommitSeed, TypeOK, Ended
  <2>5. QED
    BY <1>7, <2>3, <2>4 DEF CommitSeed
<1>8. CASE RejectSeed(p)
  BY <1>8, EndTyped DEF RejectSeed, TypeOK, Ended
<1>9. QED
  BY <1>2, <1>3, <1>4, <1>5, <1>6, <1>7, <1>8 DEF Seed

(* And every other step of a process.                                      *)
LEMMA StepTyped ==
  ASSUME TypeOK, NEW p \in Processes, Step(p)
  PROVE  TypeOK'
<1>1. CASE pc[p] = "migrating" /\ Migrate(p)
  BY <1>1, MigrateTyped
<1>2. CASE Seed(p)
  BY <1>2, SeedTyped
<1> DEFINE m == mem[p]
<1>3. pc[p] \notin Ended =>
        /\ m \in Memories /\ m.release \in Releases
        /\ m.left \subseteq DOMAIN Files[m.release]
        /\ mem = [mem EXCEPT ![p] = m]
  BY Remembers
<1> HIDE DEF m
<1>4. CASE Migrated(p)
  <2>1. PICK n \in Memories :
          n.left \subseteq DOMAIN Files[n.release] /\ mem' = [mem EXCEPT ![p] = n]
    <3>1. [m EXCEPT !.seen = NoHistory] \in Memories
      BY <1>3, <1>4, NothingTyped DEF Migrated, Memories, Ended
    <3>2. QED
      BY <1>3, <1>4, <3>1 DEF Migrated, Memories, Ended, m
  <2>2. QED
    <3>1. Goto(p, "checking") /\ pc[p] # "writing" /\ UNCHANGED <<cases, tx, starts>>
      BY <1>4 DEF Migrated
    <3>2. applied' \in Histories /\ port' \in Servers \cup {None}
      BY <1>4 DEF Migrated, TypeOK
    <3>3. /\ "checking" \in Booting \cup {"serving"}
          /\ "checking" \notin {"writing", "verifying", "listening", "serving"}
      BY DEF Booting
    <3>4. QED
      BY <2>1, <3>1, <3>2, <3>3, GoOnTyped
<1>5. CASE SelfCheck(p)
  <2>1. CASE Goto(p, "counting") /\ UNCHANGED mem
    BY <1>3, <1>5, <2>1, GotoTyped DEF SelfCheck, TypeOK, Booting, Ended
  <2>2. CASE End(p, "failed")
    BY <1>5, <2>2, EndTyped DEF SelfCheck, TypeOK, Ended
  <2>3. QED
    BY <1>5, <2>1, <2>2 DEF SelfCheck
<1>6. CASE VerifyQueue(p)
  <2>1. CASE Goto(p, "listening") /\ UNCHANGED mem
    BY <1>3, <1>6, <2>1, GotoTyped DEF VerifyQueue, TypeOK, Booting, Ended
  <2>2. CASE End(p, "failed")
    BY <1>6, <2>2, EndTyped DEF VerifyQueue, TypeOK, Ended
  <2>3. QED
    BY <1>6, <2>1, <2>2 DEF VerifyQueue
<1>7. CASE Listen(p)
  BY <1>3, <1>7, GotoTyped DEF Listen, TypeOK, Booting, Ended
<1>8. CASE CannotListen(p)
  BY <1>8, EndTyped DEF CannotListen, TypeOK, Ended
<1>9. QED
  BY <1>1, <1>2, <1>4, <1>5, <1>6, <1>7, <1>8 DEF Step

(* One step of the system, seen from the process that takes it.            *)
StepOf(p) ==
  \/ \E release \in Releases, force \in BOOLEAN : Start(p, release, force)
  \/ Step(p) \/ Crash(p)
  \/ pc[p] \in Booting /\ Busy(p)
  \/ \E e \in Entries, clears \in BOOLEAN : Decide(p, e, clears)

(* Steps of the world around the boot keep the types, too.                 *)
LEMMA StepOfTyped ==
  ASSUME TypeOK, NEW p \in Processes, StepOf(p)
  PROVE  TypeOK'
<1>1. ASSUME NEW release \in Releases, NEW force \in BOOLEAN, Start(p, release, force)
      PROVE  TypeOK'
  <2>1. PICK n \in Memories :
          n.left \subseteq DOMAIN Files[n.release] /\ mem' = [mem EXCEPT ![p] = n]
    <3> DEFINE n == [release |-> release, seen |-> applied, left |-> DOMAIN Files[release],
                     force |-> force, seeded |-> FALSE]
    <3>1. n \in Memories /\ n.left \subseteq DOMAIN Files[n.release]
      BY FilesKnown DEF Memories, TypeOK
    <3>2. QED
      BY <1>1, <3>1 DEF Start
  <2>2. /\ "migrating" \in Booting \cup {"serving"}
        /\ "migrating" \notin {"writing", "verifying", "listening", "serving"}
    BY DEF Booting
  <2>3. Goto(p, "migrating") /\ ~(tx' # None /\ tx'.owner = p)
    BY <1>1 DEF Start, TypeOK, Ended
  <2>4. starts' \in 0..MaxStarts
    BY <1>1, EntriesTyped DEF Start, TypeOK
  <2>5. /\ applied' \in Histories /\ cases' \in Tables /\ port' \in Servers \cup {None}
        /\ tx' = tx /\ tx' \in Transactions \cup {None}
    BY <1>1 DEF Start, TypeOK
  <2>6. QED
    BY <2>1, <2>2, <2>3, <2>4, <2>5, GotoTyped
<1>2. CASE Step(p)
  BY <1>2, StepTyped
<1>3. CASE Crash(p)
  <2>1. "down" \in Ended
    BY DEF Ended
  <2>2. QED
    BY <1>3, <2>1, EndTyped DEF Crash, TypeOK
<1>4. CASE pc[p] \in Booting /\ Busy(p)
  <2>1. "failed" \in Ended
    BY DEF Ended
  <2>2. pc[p] # "writing"
    BY <1>4 DEF Busy, IsNext
  <2>3. QED
    BY <1>4, <2>1, <2>2, EndTyped DEF Busy, TypeOK
<1>5. ASSUME NEW e \in Entries, NEW clears \in BOOLEAN, Decide(p, e, clears)
      PROVE  TypeOK'
  <2>1. cases \in [DOMAIN cases -> Rows] /\ DOMAIN cases \subseteq Entries
    BY TablesAre DEF TypeOK
  <2>2. DOMAIN cases' = DOMAIN cases /\ cases' \in [DOMAIN cases -> Rows]
    BY <1>5, <2>1 DEF Decide, Rows
  <2>3. cases' \in Tables
    BY <2>1, <2>2, TablesAre
  <2>4. QED
    BY <1>5, <2>3 DEF Decide, TypeOK
<1>6. QED
  BY <1>1, <1>2, <1>3, <1>4, <1>5 DEF StepOf

(* A step of the system is a step of one process.                          *)
LEMMA NextIsOfOne ==
  ASSUME Next
  PROVE  \E p \in Processes : StepOf(p)
BY DEF Next, StepOf

LEMMA InitTyped == Init => TypeOK
BY NothingTyped, EntriesTyped DEF Init, TypeOK, Ended, Processes

(* The variables of the boot keep their types, and a transaction is there  *)
(* just while its owner writes: a process that ends or dies releases it.   *)
THEOREM TypeCorrect == Spec => []TypeOK
<1>1. TypeOK /\ [Next]_vars => TypeOK'
  <2> SUFFICES ASSUME TypeOK, [Next]_vars PROVE TypeOK'
    OBVIOUS
  <2>1. CASE Next
    BY <2>1, NextIsOfOne, StepOfTyped
  <2>2. CASE UNCHANGED vars
    BY <2>2 DEF vars, TypeOK
  <2>3. QED
    BY <2>1, <2>2
<1>2. QED
  BY <1>1, InitTyped, PTL DEF Spec

-----------------------------------------------------------------------------
(* Only the process that takes a step moves, and only it remembers more;   *)
(* a migration that is applied stays as it is.                             *)
LEMMA OneMoves ==
  ASSUME TypeOK, NEW p \in Processes, StepOf(p)
  PROVE  /\ \A q \in Processes \ {p} : pc'[q] = pc[q] /\ mem'[q] = mem[q]
         /\ \A v \in DOMAIN applied : v \in DOMAIN applied' /\ applied'[v] = applied[v]
<1>1. CASE \E v \in DOMAIN Files[mem[p].release] : ApplyMigration(p, v)
  <2>1. PICK v \in DOMAIN Files[mem[p].release] : ApplyMigration(p, v)
    BY <1>1
  <2>2. UNCHANGED pc /\ \A q \in Processes \ {p} : mem'[q] = mem[q]
    BY <2>1 DEF ApplyMigration, Passed, TypeOK
  <2>3. \A w \in DOMAIN applied : w \in DOMAIN applied' /\ applied'[w] = applied[w]
    BY <2>1 DEF ApplyMigration
  <2>4. QED
    BY <2>2, <2>3
<1>2. CASE \E release \in Releases, force \in BOOLEAN : Start(p, release, force)
  BY <1>2 DEF Start, Goto, TypeOK
<1>3. CASE pc[p] = "migrating" /\ Migrate(p) /\ UNCHANGED applied
  BY <1>3 DEF Migrate, SkipMigration, ChecksumMismatch, ApplyMigration, AlreadyApplied,
              Passed, End, Goto, TypeOK
<1>4. CASE Migrated(p) \/ SelfCheck(p) \/ VerifyQueue(p) \/ Listen(p) \/ CannotListen(p)
  BY <1>4 DEF Migrated, SelfCheck, VerifyQueue, Listen, CannotListen, End, Goto, TypeOK
<1>5. CASE Seed(p)
  BY <1>5 DEF Seed, SkipSeed, NeedSeed, BeginSeed, ResetRefused, SeedEntry, CommitSeed,
              RejectSeed, End, Goto, TypeOK
<1>6. CASE Crash(p) \/ (pc[p] \in Booting /\ Busy(p))
  BY <1>6 DEF Crash, Busy, End, Goto, TypeOK
<1>7. CASE \E e \in Entries, clears \in BOOLEAN : Decide(p, e, clears)
  BY <1>7 DEF Decide
<1>8. QED
  BY <1>1, <1>2, <1>3, <1>4, <1>5, <1>6, <1>7
     DEF StepOf, Step, Migrate, SkipMigration, ChecksumMismatch, AlreadyApplied

(* Which steps of a process write cases: a commit and a decision.          *)
LEMMA CaseWriters ==
  ASSUME NEW p \in Processes, StepOf(p), cases' # cases
  PROVE  \/ CommitSeed(p)
         \/ \E e \in Entries, clears \in BOOLEAN : Decide(p, e, clears)
BY DEF StepOf, Step, Start, Migrate, SkipMigration, ChecksumMismatch, ApplyMigration,
       AlreadyApplied, Migrated, SelfCheck, Seed, SkipSeed, NeedSeed, BeginSeed, ResetRefused,
       SeedEntry, RejectSeed, VerifyQueue, Listen, CannotListen, Crash, Busy

-----------------------------------------------------------------------------
(* What a process knows of the schema at its place: what it has read of    *)
(* the migrations is in the database, so are those it has dealt with, and  *)
(* after the self-check the objects its release needs.                     *)
SchemaOf(p) ==
  LET r == mem[p].release IN
  /\ pc[p] = "migrating" =>
       \A v \in DOMAIN mem[p].seen : v \in DOMAIN applied /\ applied[v] = mem[p].seen[v]
  /\ pc[p] \notin Ended =>
       \A v \in DOMAIN Files[r] \ mem[p].left : v \in DOMAIN applied /\ applied[v] = Files[r][v]
  /\ pc[p] \notin Ended /\ pc[p] # "migrating" => mem[p].left = {}
  /\ pc[p] \notin Ended /\ pc[p] \notin {"migrating", "checking"} =>
       Needs[r] \subseteq DOMAIN applied

SchemaInv == \A p \in Processes : SchemaOf(p)

(* What a process knows of the schema does not get wrong by others.        *)
LEMMA SchemaLasts ==
  ASSUME NEW q \in Processes, SchemaOf(q), pc'[q] = pc[q], mem'[q] = mem[q],
         \A v \in DOMAIN applied : v \in DOMAIN applied' /\ applied'[v] = applied[v]
  PROVE  SchemaOf(q)'
BY DEF SchemaOf

(* A process that goes on past the self-check keeps what it knows.         *)
LEMMA SchemaCarried ==
  ASSUME NEW p \in Processes, SchemaOf(p), UNCHANGED applied,
         pc[p] \notin Ended /\ pc[p] \notin {"migrating", "checking"},
         mem'[p].release = mem[p].release, mem'[p].left = mem[p].left,
         pc'[p] # "migrating"
  PROVE  SchemaOf(p)'
BY DEF SchemaOf

LEMMA SchemaOfEnded ==
  ASSUME NEW p \in Processes, pc'[p] \in Ended
  PROVE  SchemaOf(p)'
BY DEF SchemaOf, Ended

(* A migration that is dealt with is in the database as released.          *)
LEMMA MigrationKnown ==
  ASSUME TypeOK, NEW p \in Processes, SchemaOf(p), pc[p] = "migrating",
         NEW v \in DOMAIN Files[mem[p].release],
         SkipMigration(p, v) \/ ApplyMigration(p, v)
  PROVE  SchemaOf(p)'
<1>1. /\ mem[p] \in Memories /\ mem'[p] = [mem[p] EXCEPT !.left = @ \ {v}]
      /\ pc'[p] = "migrating"
  BY Remembers DEF SkipMigration, ApplyMigration, Passed, TypeOK, Ended
<1>2. /\ mem'[p].release = mem[p].release /\ mem'[p].seen = mem[p].seen
      /\ mem'[p].left = mem[p].left \ {v}
  BY <1>1 DEF Memories
<1>3. v \in DOMAIN applied' /\ applied'[v] = Files[mem[p].release][v]
  BY DEF SkipMigration, ApplyMigration, SchemaOf
<1>4. \A w \in DOMAIN applied : w \in DOMAIN applied' /\ applied'[w] = applied[w]
  BY DEF SkipMigration, ApplyMigration
<1>5. /\ \A w \in DOMAIN mem[p].seen : w \in DOMAIN applied /\ applied[w] = mem[p].seen[w]
      /\ \A w \in DOMAIN Files[mem[p].release] \ mem[p].left :
           w \in DOMAIN applied /\ applied[w] = Files[mem[p].release][w]
  BY DEF SchemaOf, Ended
<1>6. QED
  BY <1>1, <1>2, <1>3, <1>4, <1>5 DEF SchemaOf

(* The step of a process keeps what that process knows right.             *)
LEMMA SchemaOwnStep ==
  ASSUME TypeOK, SchemaInv, NEW p \in Processes, StepOf(p)
  PROVE  SchemaOf(p)'
<1>1. SchemaOf(p) /\ (pc[p] \notin Ended => mem[p] \in Memories)
  BY Remembers DEF SchemaInv
<1>2. ASSUME NEW result \in Ended, End(p, result)
      PROVE  SchemaOf(p)'
  BY <1>2, SchemaOfEnded DEF End, Goto, TypeOK
<1>3. CASE \E release \in Releases, force \in BOOLEAN : Start(p, release, force)
  <2>1. PICK release \in Releases, force \in BOOLEAN : Start(p, release, force)
    BY <1>3
  <2>2. /\ pc'[p] = "migrating" /\ applied' = applied
        /\ mem'[p] = [release |-> release, seen |-> applied, left |-> DOMAIN Files[release],
                       force |-> force, seeded |-> FALSE]
    BY <2>1 DEF Start, Goto, TypeOK
  <2>3. QED
    BY <2>2 DEF SchemaOf
<1>4. CASE pc[p] = "migrating" /\ Migrate(p)
  BY <1>1, <1>2, <1>4, MigrationKnown DEF Migrate, ChecksumMismatch, AlreadyApplied, Ended
<1>5. CASE Migrated(p)
  <2>1. /\ pc'[p] = "checking" /\ applied' = applied
        /\ mem'[p].release = mem[p].release /\ mem'[p].left = mem[p].left
    BY <1>1, <1>5 DEF Migrated, Goto, TypeOK, Memories, Ended
  <2>2. QED
    BY <1>1, <1>5, <2>1 DEF Migrated, SchemaOf, Ended
<1>6. CASE SelfCheck(p)
  <2>1. CASE End(p, "failed")
    BY <1>2, <2>1 DEF Ended
  <2>2. CASE /\ Needs[mem[p].release] \subseteq DOMAIN applied
             /\ Goto(p, "counting") /\ UNCHANGED mem
    BY <1>1, <1>6, <2>2 DEF SelfCheck, SchemaOf, Goto, TypeOK, Ended
  <2>3. QED
    BY <1>6, <2>1, <2>2 DEF SelfCheck
<1>7. CASE Seed(p)
  <2>1. pc[p] \notin Ended /\ pc[p] \notin {"migrating", "checking"} /\ UNCHANGED applied
    BY <1>7 DEF Seed, SkipSeed, NeedSeed, BeginSeed, ResetRefused, SeedEntry, CommitSeed,
                RejectSeed, Ended
  <2>2. \/ \E result \in Ended : End(p, result)
        \/ /\ mem'[p].release = mem[p].release /\ mem'[p].left = mem[p].left
           /\ pc'[p] # "migrating"
    <3>1. CASE CommitSeed(p) /\ p \in Servers /\ Goto(p, "verifying")
                            /\ mem' = [mem EXCEPT ![p].seeded = TRUE]
      <4>1. mem'[p] = [mem[p] EXCEPT !.seeded = TRUE] /\ pc'[p] = "verifying"
        BY <3>1 DEF TypeOK, Goto
      <4>2. QED
        BY <1>1, <2>1, <4>1 DEF Memories
    <3>2. CASE ~CommitSeed(p)
      BY <1>7, <3>2
         DEF Seed, SkipSeed, NeedSeed, BeginSeed, ResetRefused, SeedEntry, RejectSeed,
             Ended, Goto, TypeOK
    <3>3. QED
      BY <1>7, <3>1, <3>2 DEF CommitSeed, Ended
  <2>3. QED
    BY <1>1, <1>2, <2>1, <2>2, SchemaCarried
<1>8. CASE VerifyQueue(p) \/ Listen(p) \/ CannotListen(p)
  <2>1. pc[p] \notin Ended /\ pc[p] \notin {"migrating", "checking"} /\ UNCHANGED applied
    BY <1>8 DEF VerifyQueue, Listen, CannotListen, Ended
  <2>2. \/ End(p, "failed")
        \/ UNCHANGED mem /\ pc'[p] # "migrating"
    BY <1>8 DEF VerifyQueue, Listen, CannotListen, Goto, TypeOK
  <2>3. QED
    BY <1>1, <1>2, <2>1, <2>2, SchemaCarried DEF Ended
<1>9. CASE Crash(p) \/ (pc[p] \in Booting /\ Busy(p))
  BY <1>2, <1>9 DEF Crash, Busy, Ended
<1>10. CASE \E e \in Entries, clears \in BOOLEAN : Decide(p, e, clears)
  BY <1>1, <1>10 DEF Decide, SchemaOf
<1>11. QED
  BY <1>3, <1>4, <1>5, <1>6, <1>7, <1>8, <1>9, <1>10 DEF StepOf, Step

LEMMA SchemaStep ==
  ASSUME TypeOK, SchemaInv, NEW p \in Processes, StepOf(p)
  PROVE  SchemaInv'
<1>1. \A q \in Processes \ {p} : SchemaOf(q)'
  BY OneMoves, SchemaLasts DEF SchemaInv
<1>2. QED
  BY <1>1, SchemaOwnStep DEF SchemaInv

LEMMA InitSchema == Init => SchemaInv
BY DEF Init, SchemaInv, SchemaOf, Ended

-----------------------------------------------------------------------------
(* The data is absent or whole, and whole for a server past its seed; a    *)
(* transaction holds a fresh row for each fixture it has come to.          *)
Whole == DOMAIN cases = Entries

SeededRow(e, row) == row.status = IF e \in Closed THEN "cleared" ELSE "seeded"

DataInv ==
  /\ DOMAIN cases = {} \/ Whole
  /\ \A p \in Processes : pc[p] \in {"verifying", "listening", "serving"} => Whole
  /\ tx # None => \A e \in Entries \ tx.left :
       e \in DOMAIN tx.rows /\ SeededRow(e, tx.rows[e])

LEMMA InitData == Init => DataInv
BY DEF Init, DataInv, NoCases

(* A commit brings a whole data set.                                       *)
LEMMA CommitIsLoad ==
  ASSUME TypeOK, DataInv, NEW p \in Processes, CommitSeed(p)
  PROVE  Demo!Load /\ Whole'
<1>1. tx \in Transactions /\ tx # None /\ tx.left = {}
  BY NoTransaction DEF CommitSeed, TypeOK
<1>2. /\ DOMAIN tx.rows \subseteq Entries /\ tx.rows \in [DOMAIN tx.rows -> Rows]
      /\ \A e \in Entries : e \in DOMAIN tx.rows /\ SeededRow(e, tx.rows[e])
  BY <1>1, TablesAre DEF DataInv, Transactions
<1>3. DOMAIN tx.rows = Entries
  BY <1>2
<1>4. cases' = tx.rows
  BY DEF CommitSeed
<1>5. QED
  BY <1>2, <1>3, <1>4 DEF Demo!Load, Demo!Rows, Rows, Whole, SeededRow

(* A decision is on one case of a whole data set.                          *)
LEMMA DecideIsDecision ==
  ASSUME TypeOK, DataInv, NEW p \in Processes, NEW e \in Entries, NEW clears \in BOOLEAN,
         Decide(p, e, clears)
  PROVE  Demo!Decision /\ Whole'
<1>1. Whole /\ cases \in [Entries -> Rows]
  BY TablesAre DEF Decide, DataInv, Whole, TypeOK
<1> DEFINE row == [status |-> IF clears THEN "cleared" ELSE "worked",
                   acted |-> TRUE, queued |-> cases[e].queued /\ ~clears]
<1>2. row \in Demo!Rows /\ row.status # "seeded" /\ row.acted
  BY DEF Demo!Rows
<1>3. cases[e].status # "cleared" /\ cases' = [cases EXCEPT ![e] = row]
  BY DEF Decide
<1>4. cases \in [Entries -> Demo!Rows]
  BY <1>1 DEF Rows, Demo!Rows
<1> HIDE DEF row
<1>5. Demo!Decision
  BY <1>2, <1>3, <1>4 DEF Demo!Decision
<1>6. QED
  BY <1>1, <1>3, <1>5 DEF Whole

(* The transaction after a step: the same, gone, begun or one entry on.    *)
LEMMA TransactionStep ==
  ASSUME TypeOK, DataInv, NEW p \in Processes, StepOf(p), tx' # None,
         NEW e \in Entries \ tx'.left
  PROVE  e \in DOMAIN tx'.rows /\ SeededRow(e, tx'.rows[e])
<1>1. CASE tx' = tx
  BY <1>1 DEF DataInv
<1>2. CASE BeginSeed(p)
  BY <1>2 DEF BeginSeed
<1>3. ASSUME NEW x \in Entries, SeedEntry(p, x)
      PROVE  e \in DOMAIN tx'.rows /\ SeededRow(e, tx'.rows[e])
  <2>1. tx \in Transactions /\ tx # None
    BY <1>3, NoTransaction DEF SeedEntry, TypeOK
  <2>2. /\ tx'.left = tx.left \ {x} /\ tx'.rows = Upsert(p, x, tx.rows)
        /\ tx.rows \in Tables
    BY <1>3, <2>1 DEF SeedEntry, Transactions
  <2>3. /\ DOMAIN tx'.rows = DOMAIN tx.rows \cup {x}
        /\ tx'.rows[x].status = IF x \in Closed THEN "cleared" ELSE "seeded"
        /\ \A y \in DOMAIN tx.rows \ {x} : tx'.rows[y] = tx.rows[y]
    <3> DEFINE rows == Upsert(p, x, tx.rows)
    <3>1. /\ DOMAIN rows = DOMAIN tx.rows \cup {x}
          /\ rows[x].status = IF x \in Closed THEN "cleared" ELSE "seeded"
          /\ \A y \in DOMAIN tx.rows \ {x} : rows[y] = tx.rows[y]
      BY DEF Upsert, Fresh
    <3> HIDE DEF rows
    <3>2. tx'.rows = rows
      BY <2>2 DEF rows
    <3>3. QED
      BY <3>1, <3>2
  <2>4. CASE e = x
    BY <2>4, <2>3 DEF SeededRow
  <2>5. CASE e # x
    <3>1. e \in DOMAIN tx.rows /\ SeededRow(e, tx.rows[e])
      BY <2>1, <2>2, <2>5 DEF DataInv
    <3>2. QED
      BY <2>3, <2>5, <3>1
  <2>6. QED
    BY <2>4, <2>5
<1>4. tx' = tx \/ BeginSeed(p) \/ \E x \in Entries : SeedEntry(p, x)
  BY DEF StepOf, Step, Start, Migrate, SkipMigration, ChecksumMismatch, ApplyMigration,
         AlreadyApplied, Migrated, SelfCheck, Seed, SkipSeed, NeedSeed, ResetRefused,
         CommitSeed, RejectSeed, VerifyQueue, Listen, CannotListen, Crash, Busy, Decide
<1>5. QED
  BY <1>1, <1>2, <1>3, <1>4

LEMMA DataStep ==
  ASSUME TypeOK, DataInv, NEW p \in Processes, StepOf(p)
  PROVE  DataInv'
<1>1. cases' = cases \/ Whole'
  BY CaseWriters, CommitIsLoad, DecideIsDecision
<1>2. Whole => Whole'
  BY <1>1 DEF Whole
<1>3. DOMAIN cases' = {} \/ Whole'
  BY <1>1 DEF DataInv, Whole
<1>4. ASSUME NEW q \in Processes, pc'[q] \in {"verifying", "listening", "serving"}
      PROVE  Whole'
  <2>1. CASE pc'[q] = pc[q]
    BY <1>2, <1>4, <2>1 DEF DataInv
  <2>2. CASE pc'[q] # pc[q]
    <3>1. q = p
      BY <2>2, OneMoves
    <3>2. \/ pc[p] \in {"verifying", "listening"}
          \/ SkipSeed(p) \/ CommitSeed(p)
      BY <1>4, <2>2, <3>1
         DEF StepOf, Step, Start, Migrate, SkipMigration, ChecksumMismatch, ApplyMigration,
             AlreadyApplied, Migrated, SelfCheck, Seed, NeedSeed, BeginSeed, ResetRefused,
             SeedEntry, RejectSeed, VerifyQueue, Listen, CannotListen, Crash, Busy, Decide,
             End, Goto, TypeOK
    <3>3. CASE pc[p] \in {"verifying", "listening"}
      BY <1>2, <3>3 DEF DataInv
    <3>4. CASE SkipSeed(p)
      <4>1. DOMAIN cases # {}
        BY <3>4, TablesAre DEF SkipSeed, NoCases, TypeOK
      <4>2. QED
        BY <1>2, <4>1 DEF DataInv
    <3>5. CASE CommitSeed(p)
      BY <3>5, CommitIsLoad
    <3>6. QED
      BY <3>2, <3>3, <3>4, <3>5
  <2>3. QED
    BY <2>1, <2>2
<1>5. QED
  BY <1>3, <1>4, TransactionStep DEF DataInv

-----------------------------------------------------------------------------
(* Who listens has the port, and may author actions.                       *)
PortInv ==
  \A p \in Processes : pc[p] = "serving" => mem[p].release \in Authors /\ port = p

LEMMA InitPort == Init => PortInv
BY DEF Init, PortInv

LEMMA PortStep ==
  ASSUME TypeOK, PortInv, NEW p \in Processes, StepOf(p)
  PROVE  PortInv'
<1>1. CASE Listen(p)
  <2>1. \A q \in Processes \ {p} : pc'[q] # "serving"
    <3>1. \A q \in Processes : pc[q] # "serving"
      BY <1>1, ProcessesApart DEF Listen, PortInv
    <3>2. QED
      BY <3>1, OneMoves
  <2>2. mem'[p].release \in Authors /\ port' = p
    BY <1>1 DEF Listen
  <2>3. QED
    BY <2>1, <2>2 DEF PortInv
<1>2. CASE ~Listen(p)
  <2>1. \/ port' = port
        \/ port = p /\ pc'[p] # "serving"
    BY <1>2 DEF StepOf, Step, Start, Migrate, SkipMigration, ChecksumMismatch, ApplyMigration,
                AlreadyApplied, Migrated, SelfCheck, Seed, SkipSeed, NeedSeed, BeginSeed,
                ResetRefused, SeedEntry, CommitSeed, RejectSeed, VerifyQueue, CannotListen,
                Crash, Busy, Decide, End, Goto, TypeOK
  <2>2. pc'[p] = "serving" => pc[p] = "serving" /\ mem'[p] = mem[p]
    BY <1>2 DEF StepOf, Step, Start, Migrate, SkipMigration, ChecksumMismatch, ApplyMigration,
                AlreadyApplied, Migrated, SelfCheck, Seed, SkipSeed, NeedSeed, BeginSeed,
                ResetRefused, SeedEntry, CommitSeed, RejectSeed, VerifyQueue, CannotListen,
                Crash, Busy, Decide, End, Goto, TypeOK
  <2>3. \A q \in Processes : pc'[q] = "serving" => pc[q] = "serving" /\ mem'[q] = mem[q]
    BY <2>2, OneMoves
  <2>4. QED
    BY <2>1, <2>3 DEF PortInv
<1>3. QED
  BY <1>1, <1>2

-----------------------------------------------------------------------------
(* All of it together is kept by every step.                               *)
BootInv == TypeOK /\ SchemaInv /\ DataInv /\ PortInv

LEMMA BootInvariant == Spec => []BootInv
<1>1. Init => BootInv
  BY InitTyped, InitSchema, InitData, InitPort DEF BootInv
<1>2. BootInv /\ [Next]_vars => BootInv'
  <2> SUFFICES ASSUME BootInv, [Next]_vars PROVE BootInv'
    OBVIOUS
  <2>1. CASE Next
    BY <2>1, NextIsOfOne, StepOfTyped, SchemaStep, DataStep, PortStep DEF BootInv
  <2>2. CASE UNCHANGED vars
    BY <2>2 DEF vars, BootInv, TypeOK, SchemaInv, SchemaOf, DataInv, Whole, PortInv
  <2>3. QED
    BY <2>1, <2>2
<1>3. QED
  BY <1>1, <1>2, PTL DEF Spec

(* A server that answers requests has its schema, its data, an actor and   *)
(* the port, for any number of processes that migrate, seed, reset, decide *)
(* and die beside it (server/index.ts).                                    *)
THEOREM ServingStaysReady == Spec => []ServingIsReady
<1>1. BootInv => ServingIsReady
  <2> SUFFICES ASSUME BootInv, NEW p \in Processes, pc[p] = "serving"
               PROVE  LET r == mem[p].release IN
                      /\ Needs[r] \subseteq DOMAIN applied
                      /\ \A v \in DOMAIN Files[r] : v \in DOMAIN applied /\ applied[v] = Files[r][v]
                      /\ DOMAIN cases = Entries
                      /\ r \in Authors
                      /\ port = p
    BY DEF ServingIsReady
  <2>1. SchemaOf(p) /\ "serving" \notin Ended
    BY DEF BootInv, SchemaInv, Ended
  <2>2. QED
    BY <2>1 DEF BootInv, SchemaOf, DataInv, Whole, PortInv
<1>2. QED
  BY <1>1, BootInvariant, PTL

(* The database changes by whole data sets and by decisions on single      *)
(* cases, whatever runs beside and dies in between: it implements DemoData.*)
THEOREM BootImplementsDemoData == Spec => ImplementsDemoData
<1>1. Init => Demo!DataInit
  BY DEF Init, NoCases, Demo!DataInit
<1>2. BootInv /\ [Next]_vars => [Demo!DataNext]_cases
  <2> SUFFICES ASSUME BootInv, Next, cases' # cases PROVE Demo!DataNext
    BY DEF vars
  <2>1. QED
    BY NextIsOfOne, CaseWriters, CommitIsLoad, DecideIsDecision DEF BootInv, Demo!DataNext
<1>3. QED
  BY <1>1, <1>2, BootInvariant, PTL DEF Spec, ImplementsDemoData, Demo!DataSpec

(* What nobody has decided on is the demo of one release, with just the    *)
(* findings its fixtures expect: a hollow seed is never committed          *)
(* (assertDetectionCoverage in seedService.ts).                            *)
THEOREM DemoStaysReal == Spec => []DemoIsReal
<1>1. Init => DemoIsReal
  BY ReleasesTyped DEF Init, DemoIsReal, NoCases
<1>2. BootInv /\ DemoIsReal /\ [Next]_vars => DemoIsReal'
  <2> SUFFICES ASSUME BootInv, DemoIsReal, [Next]_vars PROVE DemoIsReal'
    OBVIOUS
  <2>1. CASE cases' = cases
    BY <2>1 DEF DemoIsReal
  <2>2. ASSUME NEW p \in Processes, CommitSeed(p)
        PROVE  DemoIsReal'
    <3>1. mem[p].release \in Releases
      BY <2>2, Remembers DEF BootInv, CommitSeed, Ended
    <3>2. DOMAIN cases' = Entries
      BY <2>2, CommitIsLoad DEF BootInv, Whole
    <3>3. QED
      BY <2>2, <3>1, <3>2 DEF DemoIsReal, CommitSeed, DetectionCovers
  <2>3. ASSUME NEW p \in Processes, NEW e \in Entries, NEW clears \in BOOLEAN,
               Decide(p, e, clears)
        PROVE  DemoIsReal'
    <3>1. PICK r \in Releases :
            /\ cases # NoCases => Covers(r)
            /\ \A x \in DOMAIN cases : ~cases[x].acted => (cases[x].queued <=> x \in Flagged[r])
      BY DEF DemoIsReal
    <3>2. /\ e \in DOMAIN cases /\ DOMAIN cases' = DOMAIN cases /\ cases'[e].acted
          /\ \A x \in DOMAIN cases \ {e} : cases'[x] = cases[x]
      <4>1. cases \in [DOMAIN cases -> Rows]
        BY TablesAre DEF BootInv, TypeOK
      <4>2. QED
        BY <2>3, <4>1 DEF Decide
    <3>3. Covers(r)
      BY <3>1, <3>2 DEF NoCases
    <3>4. QED
      BY <3>1, <3>2, <3>3 DEF DemoIsReal, Covers, CanonicalScenario
  <2>4. QED
    BY <2>1, <2>2, <2>3, NextIsOfOne, CaseWriters DEF vars
<1>3. QED
  BY <1>1, <1>2, BootInvariant, PTL DEF Spec

-----------------------------------------------------------------------------
(* Only a command forces a reseed, only the server that listens has the    *)
(* port, and a boot that has yet to seed has not seeded.                   *)
AloneInv ==
  /\ port # None => pc[port] = "serving"
  /\ \A p \in Processes :
       /\ pc[p] \notin Ended /\ mem[p].force => p \in Commands
       /\ pc[p] \in {"migrating", "checking", "counting", "seeding", "writing"} => ~mem[p].seeded

(* What a step makes of the memory of the process that takes it.           *)
LEMMA MemoryStep ==
  ASSUME TypeOK, NEW p \in Processes, StepOf(p), pc'[p] \notin Ended
  PROVE  \/ \E release \in Releases, force \in BOOLEAN : Start(p, release, force)
         \/ /\ mem[p] \in Memories /\ mem'[p] \in Memories /\ pc[p] \notin Ended
            /\ mem'[p].release = mem[p].release /\ mem'[p].force = mem[p].force
            /\ mem'[p].seeded = mem[p].seeded \/ CommitSeed(p)
<1>0. /\ pc[p] \notin Ended => mem[p] \in Memories
      /\ \A result \in Ended : ~End(p, result)
  BY DEF TypeOK, End, Goto
<1>1. CASE \E release \in Releases, force \in BOOLEAN : Start(p, release, force)
  BY <1>1
<1>2. CASE \E v \in DOMAIN Files[mem[p].release] : SkipMigration(p, v) \/ ApplyMigration(p, v)
  <2>1. PICK v \in DOMAIN Files[mem[p].release] : SkipMigration(p, v) \/ ApplyMigration(p, v)
    BY <1>2
  <2>2. mem[p] \in Memories /\ mem'[p] = [mem[p] EXCEPT !.left = @ \ {v}] /\ pc[p] \notin Ended
    BY <1>0, <2>1 DEF SkipMigration, ApplyMigration, IsNext, Passed, TypeOK, Ended
  <2>3. QED
    BY <2>2 DEF Memories
<1>3. CASE Migrated(p)
  <2>1. mem[p] \in Memories /\ mem'[p] = [mem[p] EXCEPT !.seen = NoHistory] /\ pc[p] \notin Ended
    BY <1>0, <1>3 DEF Migrated, TypeOK, Ended
  <2>2. QED
    BY <2>1, NothingTyped DEF Memories
<1>4. CASE CommitSeed(p)
  <2>1. pc[p] \notin Ended /\ mem[p] \in Memories
    BY <1>0, <1>4 DEF CommitSeed, Ended
  <2>2. mem'[p] = [mem[p] EXCEPT !.seeded = TRUE]
    BY <1>0, <1>4 DEF CommitSeed, TypeOK, Ended
  <2>3. QED
    BY <1>4, <2>1, <2>2 DEF Memories
<1>5. CASE /\ UNCHANGED mem
           /\ pc[p] \notin Ended
  BY <1>0, <1>5
<1>6. ~End(p, "failed") /\ ~End(p, "done") /\ ~End(p, "down")
  BY <1>0 DEF Ended
<1>7. CASE pc[p] = "migrating" /\ Migrate(p)
  BY <1>2, <1>6, <1>7 DEF Migrate, ChecksumMismatch, AlreadyApplied
<1>8. CASE SelfCheck(p) \/ VerifyQueue(p) \/ Listen(p) \/ CannotListen(p)
  BY <1>5, <1>6, <1>8 DEF SelfCheck, VerifyQueue, Listen, CannotListen, Ended
<1>9. CASE Seed(p)
  <2>1. ASSUME SkipSeed(p) PROVE UNCHANGED mem /\ pc[p] = "counting"
    BY <1>6, <2>1 DEF SkipSeed
  <2>2. ~ResetRefused(p) /\ ~RejectSeed(p)
    BY <1>6 DEF ResetRefused, RejectSeed
  <2>3. NeedSeed(p) \/ BeginSeed(p) \/ (\E e \in Entries : SeedEntry(p, e)) =>
          UNCHANGED mem /\ pc[p] \in {"counting", "seeding", "writing"}
    BY DEF NeedSeed, BeginSeed, SeedEntry
  <2>4. QED
    BY <1>4, <1>5, <1>9, <2>1, <2>2, <2>3 DEF Seed, Ended
<1>10. CASE \E e \in Entries, clears \in BOOLEAN : Decide(p, e, clears)
  BY <1>5, <1>10 DEF Decide, Ended
<1>11. QED
  BY <1>1, <1>3, <1>6, <1>7, <1>8, <1>9, <1>10 DEF StepOf, Step, Crash, Busy

LEMMA AloneStep ==
  ASSUME TypeOK, AloneInv, NEW p \in Processes, StepOf(p)
  PROVE  AloneInv'
<1>1. port' # None => pc'[port'] = "serving"
  <2>1. CASE Listen(p)
    BY <2>1 DEF Listen, Goto, TypeOK
  <2>2. CASE ~Listen(p) /\ ~Crash(p)
    <3>1. port' = port
      BY <2>2 DEF StepOf, Step, Start, Migrate, SkipMigration, ChecksumMismatch, ApplyMigration,
             AlreadyApplied, Migrated, SelfCheck, Seed, SkipSeed, NeedSeed, BeginSeed,
             ResetRefused, SeedEntry, CommitSeed, RejectSeed, VerifyQueue, CannotListen,
             Busy, Decide
    <3>2. pc[p] = "serving" => pc'[p] = "serving"
      BY <2>2
         DEF StepOf, Step, Start, Migrate, SkipMigration, ChecksumMismatch, ApplyMigration,
             AlreadyApplied, Migrated, SelfCheck, Seed, SkipSeed, NeedSeed, BeginSeed,
             ResetRefused, SeedEntry, CommitSeed, RejectSeed, VerifyQueue, CannotListen,
             Busy, Decide, Ended, Booting
    <3>3. port # None => port \in Processes
      BY DEF TypeOK, Processes
    <3>4. QED
      BY <3>1, <3>2, <3>3, OneMoves DEF AloneInv
  <2>3. CASE Crash(p)
    <3>1. port' = IF port = p THEN None ELSE port
      BY <2>3 DEF Crash
    <3>2. port # None => port \in Processes
      BY DEF TypeOK, Processes
    <3>3. QED
      BY <3>1, <3>2, OneMoves DEF AloneInv
  <2>4. QED
    BY <2>1, <2>2, <2>3
<1>2. ASSUME NEW q \in Processes
      PROVE  /\ pc'[q] \notin Ended /\ mem'[q].force => q \in Commands
             /\ pc'[q] \in {"migrating", "checking", "counting", "seeding", "writing"} =>
                  ~mem'[q].seeded
  <2>1. CASE q # p
    BY <2>1, OneMoves DEF AloneInv
  <2>2. CASE q = p /\ pc'[p] \in Ended
    BY <2>2 DEF Ended
  <2>3. CASE q = p /\ \E release \in Releases, force \in BOOLEAN : Start(p, release, force)
    <3>1. PICK release \in Releases, force \in BOOLEAN : Start(p, release, force)
      BY <2>3
    <3>2. /\ mem'[p] = [release |-> release, seen |-> applied, left |-> DOMAIN Files[release],
                        force |-> force, seeded |-> FALSE]
          /\ force => p \in Commands
      BY <3>1 DEF Start, TypeOK
    <3>3. QED
      BY <2>3, <3>2
  <2>4. CASE /\ q = p /\ pc'[p] \notin Ended /\ pc[p] \notin Ended
             /\ mem'[p].force = mem[p].force
             /\ mem'[p].seeded = mem[p].seeded \/ CommitSeed(p)
    <3>1. ~(\E release \in Releases, force \in BOOLEAN : Start(p, release, force))
      BY <2>4 DEF Start
    <3>2. pc'[p] \in {"migrating", "checking", "counting", "seeding", "writing"} =>
            pc[p] \in {"migrating", "checking", "counting", "seeding", "writing"} /\ ~CommitSeed(p)
      BY <2>4, <3>1
         DEF StepOf, Step, Migrate, SkipMigration, ChecksumMismatch, ApplyMigration,
             AlreadyApplied, Migrated, SelfCheck, Seed, SkipSeed, NeedSeed, BeginSeed,
             ResetRefused, SeedEntry, CommitSeed, RejectSeed, VerifyQueue, Listen, CannotListen,
             Crash, Busy, Decide, End, Goto, TypeOK, Ended
    <3>3. /\ mem'[q].force => q \in Commands
          /\ pc[p] \in {"migrating", "checking", "counting", "seeding", "writing"} => ~mem[p].seeded
      BY <2>4 DEF AloneInv
    <3>4. QED
      BY <2>4, <3>2, <3>3
  <2>5. QED
    BY <2>1, <2>2, <2>3, <2>4, MemoryStep
<1>3. QED
  BY <1>1, <1>2 DEF AloneInv

LEMMA AloneInvariant == Spec => []AloneInv
<1>1. Init => AloneInv
  BY DEF Init, AloneInv, Ended
<1>2. TypeOK /\ AloneInv /\ [Next]_vars => AloneInv'
  <2> SUFFICES ASSUME TypeOK, AloneInv, [Next]_vars PROVE AloneInv'
    OBVIOUS
  <2>1. CASE Next
    BY <2>1, NextIsOfOne, AloneStep
  <2>2. CASE UNCHANGED vars
    BY <2>2 DEF vars, AloneInv
  <2>3. QED
    BY <2>1, <2>2
<1>3. QED
  BY <1>1, <1>2, TypeCorrect, PTL DEF Spec

(* Fixtures and rules of a release that pass the assertions of its seed.   *)
Fits(r) == Covers(r) /\ Detected[r] = Flagged[r]

(* A boot with nothing in its way: it serves, or none of the checks it has *)
(* still to pass will fail unless another process comes between.           *)
OnCourse(p) ==
  LET r == mem[p].release IN
  \/ pc[p] = "serving"
  \/ /\ pc[p] \in Booting
     /\ r \in Authors
     /\ pc[p] \in {"migrating", "checking"} => Needs[r] \subseteq DOMAIN applied \cup mem[p].left
     /\ pc[p] = "migrating" =>
          \A v \in mem[p].left :
            /\ v \in DOMAIN mem[p].seen => mem[p].seen[v] = Files[r][v]
            /\ v \notin DOMAIN mem[p].seen => v \notin DOMAIN applied
     /\ pc[p] \in {"migrating", "checking", "counting"} /\ cases = NoCases => Fits(r)
     /\ pc[p] \in {"seeding", "writing"} => Fits(r)
     /\ pc[p] = "writing" =>
          \A e \in Entries \ tx.left : tx.rows[e].queued <=> e \in Detected[r]
     /\ pc[p] = "verifying" /\ mem[p].seeded =>
          Canonical \in DOMAIN cases /\ cases[Canonical].queued

(* What a process that runs alone finds: the lock and the port are free.   *)
LEMMA AloneFinds ==
  ASSUME TypeOK, AloneInv, NEW p \in Servers, Quiet(p), pc[p] \in Booting
  PROVE  /\ p \in Processes /\ mem[p] \in Memories /\ mem[p].release \in Releases
         /\ ~mem[p].force
         /\ pc[p] # "writing" => tx = None
         /\ port = None
<1>1. p \in Processes /\ pc[p] \notin Ended /\ pc[p] # "serving" /\ p \notin Commands
  BY ProcessesApart DEF Processes, Booting, Ended
<1>2. mem[p] \in Memories /\ mem[p].release \in Releases
  BY <1>1, Remembers
<1>3. ~mem[p].force
  BY <1>1 DEF AloneInv
<1>4. ASSUME pc[p] # "writing", tx # None PROVE FALSE
  <2>1. tx.owner \in Processes /\ pc[tx.owner] = "writing"
    BY <1>4 DEF TypeOK, Transactions
  <2>2. QED
    BY <1>4, <2>1 DEF Quiet, Ended
<1>5. ASSUME port # None PROVE FALSE
  <2>1. port \in Processes /\ pc[port] = "serving"
    BY <1>5 DEF TypeOK, AloneInv, Processes
  <2>2. QED
    BY <1>1, <2>1 DEF Quiet, Ended
<1>6. QED
  BY <1>1, <1>2, <1>3, <1>4, <1>5

(* Alone, no migration of a boot on its course fails.                      *)
LEMMA MigratesOn ==
  ASSUME TypeOK, SchemaInv, AloneInv, NEW p \in Servers, Quiet(p), OnCourse(p),
         pc[p] = "migrating", Migrate(p)
  PROVE  OnCourse(p)'
<1>1. /\ p \in Processes /\ mem[p] \in Memories /\ mem[p].release \in Releases
      /\ ~mem[p].force /\ tx = None /\ port = None
  BY AloneFinds DEF Booting
<1>2. /\ mem[p].release \in Authors
      /\ Needs[mem[p].release] \subseteq DOMAIN applied \cup mem[p].left
      /\ \A v \in mem[p].left :
           /\ v \in DOMAIN mem[p].seen => mem[p].seen[v] = Files[mem[p].release][v]
           /\ v \notin DOMAIN mem[p].seen => v \notin DOMAIN applied
      /\ cases = NoCases => Fits(mem[p].release)
  BY DEF OnCourse
<1>3. PICK v \in DOMAIN Files[mem[p].release] : SkipMigration(p, v) \/ ApplyMigration(p, v)
  BY <1>2 DEF Migrate, ChecksumMismatch, AlreadyApplied, IsNext
<1>4. /\ mem'[p] = [mem[p] EXCEPT !.left = @ \ {v}] /\ pc' = pc /\ cases' = cases
      /\ v \in mem[p].left
  BY <1>1, <1>3 DEF SkipMigration, ApplyMigration, IsNext, Passed, TypeOK
<1>5. /\ mem'[p].release = mem[p].release /\ mem'[p].seen = mem[p].seen
      /\ mem'[p].left = mem[p].left \ {v}
  BY <1>1, <1>4 DEF Memories
<1>6. DOMAIN applied' \subseteq DOMAIN applied \cup {v} /\ DOMAIN applied \subseteq DOMAIN applied'
  BY <1>3 DEF SkipMigration, ApplyMigration
<1>7. v \in DOMAIN applied'
  <2>1. \A w \in DOMAIN mem[p].seen : w \in DOMAIN applied
    BY <1>1 DEF SchemaInv, SchemaOf
  <2>2. QED
    BY <1>3, <2>1 DEF SkipMigration, ApplyMigration
<1>8. QED
  BY <1>2, <1>4, <1>5, <1>6, <1>7 DEF OnCourse, Booting

(* Nor does its seed.                                                      *)
LEMMA SeedsOn ==
  ASSUME TypeOK, DataInv, AloneInv, NEW p \in Servers, Quiet(p), OnCourse(p), Seed(p)
  PROVE  OnCourse(p)'
<1>0. pc[p] \in {"counting", "seeding", "writing"} /\ pc[p] \in Booting
  BY DEF Seed, SkipSeed, NeedSeed, BeginSeed, ResetRefused, SeedEntry, CommitSeed, RejectSeed,
         Booting
<1>1. /\ p \in Processes /\ mem[p] \in Memories /\ mem[p].release \in Releases
      /\ ~mem[p].force /\ p \notin Commands
  BY <1>0, AloneFinds, ProcessesApart
<1>2. /\ mem[p].release \in Authors
      /\ pc[p] = "counting" /\ cases = NoCases => Fits(mem[p].release)
      /\ pc[p] \in {"seeding", "writing"} => Fits(mem[p].release)
      /\ pc[p] = "writing" =>
           \A e \in Entries \ tx.left : tx.rows[e].queued <=> e \in Detected[mem[p].release]
  BY <1>0 DEF OnCourse
<1>3. CASE SkipSeed(p)
  <2>1. pc'[p] = "verifying" /\ mem' = mem
    BY <1>1, <1>3 DEF SkipSeed, Goto, TypeOK
  <2>2. ~mem[p].seeded
    BY <1>1, <1>3 DEF SkipSeed, AloneInv
  <2>3. QED
    BY <1>2, <2>1, <2>2 DEF OnCourse, Booting
<1>4. CASE NeedSeed(p)
  <2>1. pc[p] = "counting" /\ pc'[p] = "seeding" /\ mem' = mem /\ cases = NoCases
    BY <1>1, <1>4 DEF NeedSeed, Goto, TypeOK
  <2>2. QED
    BY <1>2, <2>1 DEF OnCourse, Booting
<1>5. CASE BeginSeed(p)
  <2>1. pc[p] = "seeding" /\ pc'[p] = "writing" /\ mem' = mem /\ tx'.left = Entries
    BY <1>1, <1>5 DEF BeginSeed, Goto, TypeOK
  <2>2. QED
    BY <1>2, <2>1 DEF OnCourse, Booting
<1>6. ~ResetRefused(p)
  BY <1>1 DEF ResetRefused
<1>7. ASSUME NEW x \in Entries, SeedEntry(p, x)
      PROVE  OnCourse(p)'
  <2>0. pc[p] = "writing" /\ pc' = pc /\ mem' = mem
    BY <1>7 DEF SeedEntry
  <2>1. tx \in Transactions /\ tx # None
    BY <1>1, <2>0 DEF TypeOK
  <2>2. tx'.left = tx.left \ {x} /\ tx'.rows = Upsert(p, x, tx.rows)
    BY <1>7, <2>1 DEF SeedEntry, Transactions
  <2>3. \A e \in Entries \ tx.left : e \in DOMAIN tx.rows
    BY <2>1 DEF DataInv
  <2>4. /\ tx'.rows[x].queued <=> x \in Detected[mem[p].release]
        /\ \A y \in DOMAIN tx.rows \ {x} : tx'.rows[y] = tx.rows[y]
    <3> DEFINE rows == Upsert(p, x, tx.rows)
    <3>1. /\ rows[x].queued <=> x \in Detected[mem[p].release]
          /\ \A y \in DOMAIN tx.rows \ {x} : rows[y] = tx.rows[y]
      BY DEF Upsert, Fresh
    <3> HIDE DEF rows
    <3>2. tx'.rows = rows
      BY <2>2 DEF rows
    <3>3. QED
      BY <3>1, <3>2
  <2>5. \A e \in Entries \ tx'.left : tx'.rows[e].queued <=> e \in Detected[mem[p].release]
    BY <1>2, <2>0, <2>1, <2>2, <2>3, <2>4
  <2>6. QED
    BY <1>2, <2>0, <2>5 DEF OnCourse, Booting
<1>8. pc[p] = "writing" /\ tx.left = {} =>
        Covers(mem[p].release) /\ DetectionCovers(mem[p].release, tx.rows)
  BY <1>2 DEF Fits, DetectionCovers
<1>9. CASE CommitSeed(p)
  <2>1. /\ pc'[p] = "verifying" /\ cases' = tx.rows
        /\ mem'[p] = [mem[p] EXCEPT !.seeded = TRUE]
    BY <1>1, <1>9 DEF CommitSeed, Goto, TypeOK
  <2>2. mem'[p].release = mem[p].release
    BY <1>1, <2>1 DEF Memories
  <2>3. Canonical \in DOMAIN tx.rows /\ tx.rows[Canonical].queued
    <3>0. tx.left = {} /\ pc[p] = "writing"
      BY <1>9 DEF CommitSeed
    <3>1. tx # None
      BY <1>1, <3>0 DEF TypeOK
    <3>2. QED
      BY <1>8, <3>0, <3>1, EntriesTyped DEF DataInv, Covers, CanonicalScenario, DetectionCovers
  <2>4. QED
    BY <1>2, <2>1, <2>2, <2>3 DEF OnCourse, Booting
<1>10. ~RejectSeed(p)
  BY <1>8 DEF RejectSeed
<1>11. QED
  BY <1>3, <1>4, <1>5, <1>6, <1>7, <1>9, <1>10 DEF Seed

(* Nor does any other check.                                               *)
LEMMA GoesOn ==
  ASSUME TypeOK, SchemaInv, DataInv, AloneInv, NEW p \in Servers, Quiet(p), OnCourse(p), Step(p)
  PROVE  OnCourse(p)'
<1>0. pc[p] \in Booting
  BY DEF Step, Migrated, SelfCheck, Seed, SkipSeed, NeedSeed, BeginSeed, ResetRefused, SeedEntry,
         CommitSeed, RejectSeed, VerifyQueue, Listen, CannotListen, Booting
<1>1. /\ p \in Processes /\ mem[p] \in Memories /\ mem[p].release \in Releases
      /\ port = None /\ pc[p] # "serving" /\ pc[p] \notin Ended
  BY <1>0, AloneFinds DEF Booting, Ended
<1>2. /\ mem[p].release \in Authors
      /\ pc[p] \in {"migrating", "checking"} =>
           Needs[mem[p].release] \subseteq DOMAIN applied \cup mem[p].left
      /\ pc[p] \in {"migrating", "checking", "counting"} /\ cases = NoCases => Fits(mem[p].release)
      /\ pc[p] = "verifying" /\ mem[p].seeded => Canonical \in DOMAIN cases /\ cases[Canonical].queued
  BY <1>1 DEF OnCourse
<1>3. CASE Migrated(p)
  <2>1. pc[p] = "migrating" /\ pc'[p] = "checking" /\ applied' = applied /\ cases' = cases
    BY <1>1, <1>3 DEF Migrated, Goto, TypeOK
  <2>2. mem'[p] = [mem[p] EXCEPT !.seen = NoHistory]
    BY <1>1, <1>3 DEF Migrated, TypeOK
  <2>3. mem'[p].release = mem[p].release /\ mem'[p].left = mem[p].left
    BY <1>1, <2>2 DEF Memories
  <2>4. QED
    BY <1>2, <2>1, <2>3 DEF OnCourse, Booting
<1>4. CASE SelfCheck(p)
  <2>1. mem[p].left = {} /\ pc[p] = "checking"
    BY <1>1, <1>4 DEF SelfCheck, SchemaInv, SchemaOf
  <2>2. Needs[mem[p].release] \subseteq DOMAIN applied
    BY <1>2, <2>1
  <2>3. pc'[p] = "counting" /\ mem' = mem /\ cases' = cases
    BY <1>1, <1>4, <2>2 DEF SelfCheck, Goto, TypeOK
  <2>4. QED
    BY <1>2, <2>1, <2>3 DEF OnCourse, Booting
<1>5. CASE VerifyQueue(p)
  <2>1. ~(mem[p].seeded /\ (NoneQueued \/ Canonical \notin DOMAIN cases))
    BY <1>2, <1>5 DEF VerifyQueue, NoneQueued
  <2>2. pc'[p] = "listening" /\ mem' = mem
    BY <1>1, <1>5, <2>1 DEF VerifyQueue, Goto, TypeOK
  <2>3. QED
    BY <1>2, <2>2 DEF OnCourse, Booting
<1>6. CASE Listen(p)
  BY <1>1, <1>6 DEF Listen, Goto, TypeOK, OnCourse
<1>7. ~CannotListen(p)
  BY <1>1, <1>2 DEF CannotListen
<1>8. QED
  BY <1>3, <1>4, <1>5, <1>6, <1>7, MigratesOn, SeedsOn DEF Step

(* A boot that has started alone is on its course, and stays on it.        *)
Undisturbed ==
  \A p \in Servers : Quiet(p) /\ OnCourse(p) => OnCourse(p)' \/ pc'[p] = "down" \/ ~Quiet(p)'
StartsOnCourse == \A p \in Servers : Quiet(p) /\ Bootable(p) => OnCourse(p)

(* A server that starts alone on a database its release fits is on its     *)
(* course, and from there it ends only if it is stopped or if another      *)
(* process comes between: no earlier crash, race, reset or decision makes  *)
(* one of its checks fail.  This is the safety half of Recovers            *)
(* (server/index.ts).                                                      *)
THEOREM NothingLocksOut == Spec => []StartsOnCourse /\ [][Undisturbed]_vars
<1>1. TypeOK => StartsOnCourse
  <2> SUFFICES ASSUME TypeOK, NEW p \in Servers, Bootable(p)
               PROVE  OnCourse(p)
    BY DEF StartsOnCourse
  <2>1. p \in Processes /\ pc[p] \notin Ended
    BY DEF Bootable, Processes, Ended
  <2>2. mem[p].release \in Releases
    BY <2>1, Remembers
  <2>3. QED
    BY <2>1, <2>2 DEF Bootable, OnCourse, Booting, Fits
<1>2. BootInv /\ AloneInv /\ [Next]_vars => [Undisturbed]_vars
  <2> SUFFICES ASSUME BootInv, AloneInv, Next, NEW p \in Servers, Quiet(p), OnCourse(p)
               PROVE  OnCourse(p)' \/ pc'[p] = "down" \/ ~Quiet(p)'
    BY DEF Undisturbed
  <2>1. PICK q \in Processes : StepOf(q)
    BY NextIsOfOne
  <2>2. TypeOK /\ SchemaInv /\ DataInv /\ p \in Processes /\ pc[p] \notin Ended
    BY DEF BootInv, Processes, OnCourse, Booting, Ended
  <2>3. CASE \E release \in Releases, force \in BOOLEAN : Start(q, release, force)
    <3>1. pc[q] \in Ended /\ pc'[q] = "migrating"
      BY <2>2, <2>3 DEF Start, Goto, TypeOK
    <3>2. QED
      BY <2>2, <3>1 DEF Quiet, Ended
  <2>4. CASE ~\E release \in Releases, force \in BOOLEAN : Start(q, release, force)
    <3>1. pc[q] \notin Ended
      BY <2>1, <2>4
         DEF StepOf, Step, Migrate, Migrated, SelfCheck, Seed, SkipSeed, NeedSeed, BeginSeed,
             ResetRefused, SeedEntry, CommitSeed, RejectSeed, VerifyQueue, Listen, CannotListen,
             Crash, Busy, Decide, Ended, Booting
    <3>2. q = p
      BY <3>1 DEF Quiet
    <3>3. CASE Step(p)
      BY <2>2, <3>3, GoesOn
    <3>4. CASE Crash(p)
      BY <2>2, <3>4 DEF Crash, End, Goto, TypeOK
    <3>5. ~(pc[p] \in Booting /\ Busy(p))
      <4>1. pc[p] \in Booting /\ pc[p] # "writing" => tx = None
        BY <2>2, AloneFinds
      <4>2. QED
        BY <4>1 DEF Busy, IsNext
    <3>6. CASE \E e \in Entries, clears \in BOOLEAN : Decide(p, e, clears)
      BY <3>6 DEF Decide, OnCourse
    <3>7. QED
      BY <2>1, <2>4, <3>2, <3>3, <3>4, <3>5, <3>6 DEF StepOf
  <2>5. QED
    BY <2>3, <2>4
<1>3. QED
  BY <1>1, <1>2, BootInvariant, AloneInvariant, TypeCorrect, PTL DEF Spec
=============================================================================
