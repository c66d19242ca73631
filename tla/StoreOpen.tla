------------------------------ MODULE StoreOpen ------------------------------
(* Opening the database files at boot (store.Open).                         *)
(*                                                                          *)
(* An old installation keeps everything in bridge.db.  The first boot of a  *)
(* newer release copies it to audit.db and cache.db, prunes the tables that *)
(* belong to the other side from each copy, pins their schema versions and  *)
(* renames bridge.db to a backup.  Every boot then migrates cache.db, heals *)
(* the schema of audit.db, migrates it, and serves.  Each statement and     *)
(* each file operation is on disk by itself: it may fail, and the process   *)
(* may be killed between any two of them; a supervisor starts it again.     *)
EXTENDS Naturals, Sequences, FiniteSets, SequencesExt

CONSTANT MaxFaults   \* bound: failed operations and crashes

ASSUME FaultsAssumption == MaxFaults \in Nat

VARIABLES
  bridge,   \* where bridge.db is, and whether it has all audit tables
  indexed,  \* whether bridge.db had its search index, or was a release behind
  audit, cache,   \* the two files
  at,       \* how far Open is; or why it does not run
  step,     \* the next statement of a prune or a migration
  clean,    \* history: nothing has failed in this boot
  cut,      \* history: a crash or failed clean-up left half a change on disk
  faults

vars == <<bridge, indexed, audit, cache, at, step, clean, cut, faults>>

-----------------------------------------------------------------------------
(* The schema.                                                              *)

\* What the statements of the audit migrations create, migration by migration;
\* one name stands for the tables that one script creates IF NOT EXISTS.
AuditScript ==
  << <<"checkins">>, <<"unifi_result">>, <<"mappings">>, <<"unifi_log_id">>,
     <<"ua_name", "ua_email">>, <<"ua_users">>, <<"backfill">> >>

\* The same for the cache; the fourth is one transaction.
CacheScript == << <<"customers">>, <<"members">>, <<"customers_fts">>, <<"badges">> >>

\* ALTER TABLE ADD COLUMN refuses a column that is there.
Columns == {"unifi_result", "unifi_log_id", "ua_name", "ua_email", "badges"}

\* What a statement refers to and must find.
Needs(o) ==
  CASE o \in {"unifi_result", "unifi_log_id"} -> {"checkins"}
    [] o \in {"ua_name", "ua_email"} -> {"mappings"}
    [] o = "backfill" -> {"ua_name", "ua_email", "ua_users"}
    [] o \in {"badges", "customers_fts"} -> {"customers"}
    [] OTHER -> {}

\* What the first n migrations of a script create.
Created(script, n) == UNION {ToSet(script[i]) : i \in 1..n}

AuditObjects == Created(AuditScript, Len(AuditScript))
CacheObjects == Created(CacheScript, Len(CacheScript))

\* What a bridge.db is taken to embody of either side: the versions the copies
\* are pinned at.
AuditAtSplit == 3
CacheAtSplit == 3

\* The search index was the last migration of the old numbering, and a
\* bridge.db has all audit tables from the one before on.  A copy of it lacks
\* the index, and is pinned past the migration that would create it.
Lacking == IF indexed THEN {} ELSE {"customers_fts"}

-----------------------------------------------------------------------------
(* The files.                                                               *)

None == [kind |-> "none", has |-> {}, version |-> 0, rows |-> {}]
Empty == [None EXCEPT !.kind = "db"]
Torn == [None EXCEPT !.kind = "torn"]   \* the first pages of a copy only

Db(has, version, rows) == [kind |-> "db", has |-> has, version |-> version, rows |-> rows]

\* A bridge.db: both sides, and the version of the old numbering.
Legacy ==
  Db((Created(AuditScript, AuditAtSplit) \cup Created(CacheScript, CacheAtSplit)) \ Lacking,
     IF indexed THEN 6 ELSE 5, {"old"})

\* What may be found at the first boot of this release: nothing, or a
\* bridge.db, with all audit tables or not;
Untouched ==
  /\ bridge \in {"none", "whole", "incomplete"}
  /\ audit = None /\ cache = None

\* the files of an earlier release that has served since its own split, with
\* or without the backup, or with a bridge.db copied back;
Served ==
  /\ bridge \in {"none", "backup", "whole"}
  /\ \E v \in AuditAtSplit..Len(AuditScript) :
       audit = Db(Created(AuditScript, v), v, {"old", "new"})
  /\ \E w \in CacheAtSplit..Len(CacheScript) :
       cache = Db(Created(CacheScript, w) \ Lacking, w, {})

\* the audit.db of 0.4.0, pinned but empty.
PinnedEmpty == bridge = "none" /\ audit = Db({}, AuditAtSplit, {}) /\ cache = None

Init ==
  /\ indexed \in BOOLEAN
  /\ Untouched \/ Served \/ PinnedEmpty
  /\ at = "stopped" /\ step = 1 /\ clean = TRUE /\ cut = FALSE /\ faults = 0

Goes(to) == at' = to /\ step' = 1

\* A step of Open that succeeds.
Smooth == UNCHANGED <<indexed, clean, cut, faults>>

-----------------------------------------------------------------------------
(* splitLegacyDBIfNeeded.                                                   *)

Boots ==
  /\ at \in {"stopped", "failed"}
  /\ Goes("looking") /\ clean' = TRUE
  /\ UNCHANGED <<bridge, indexed, audit, cache, cut, faults>>

\* No bridge.db, or an audit.db beside it: nothing to split.
SkipsSplit ==
  /\ at = "looking"
  /\ bridge \notin {"whole", "incomplete"} \/ audit.kind # "none"
  /\ Goes("opening cache") /\ Smooth /\ UNCHANGED <<bridge, audit, cache>>

\* legacyBridgeHasAuditTables finds one missing: the file is put aside.
PutsAside ==
  /\ at = "looking" /\ bridge = "incomplete" /\ audit.kind = "none"
  /\ bridge' = "aside"
  /\ Goes("opening cache") /\ Smooth /\ UNCHANGED <<audit, cache>>

StartsSplit ==
  /\ at = "looking" /\ bridge = "whole" /\ audit.kind = "none"
  /\ Goes("copying audit") /\ Smooth /\ UNCHANGED <<bridge, audit, cache>>

\* copyFile, as it goes on: the new file is empty, then partly written.
Copied(file) == IF file = None THEN Empty ELSE IF file = Empty THEN Torn ELSE Legacy

CopiesAudit ==
  /\ at = "copying audit"
  /\ audit' = Copied(audit)
  /\ IF audit = Torn THEN Goes("creating cache") ELSE UNCHANGED <<at, step>>
  /\ Smooth /\ UNCHANGED <<bridge, cache>>

\* O_EXCL: there must not be a cache.db yet.
CreatesCache ==
  /\ at = "creating cache" /\ cache.kind = "none"
  /\ cache' = Empty
  /\ Goes("copying cache") /\ Smooth /\ UNCHANGED <<bridge, audit>>

CopiesCache ==
  /\ at = "copying cache"
  /\ cache' = Copied(cache)
  /\ IF cache = Torn THEN Goes("pruning audit") ELSE UNCHANGED <<at, step>>
  /\ Smooth /\ UNCHANGED <<bridge, audit>>

\* DROP TABLE IF EXISTS: the columns and the rows go with the table.
Dropped(file, table) ==
  [file EXCEPT !.has = @ \ ({table} \cup {o \in Columns : table \in Needs(o)}),
               !.rows = IF table = "checkins" THEN {} ELSE @]

\* The mistake of pruning a copy of what it should keep.
DropsFromAuditSwapped == <<"mappings", "checkins">>

\* What the prunes drop, in their order.
DropsFromAudit == <<"customers_fts", "members", "customers">>
DropsFromCache == <<"mappings", "checkins">>

\* Statement n of a prune: the drops, then the version is deleted and pinned.
Pruned(file, drops, pin, n) ==
  IF n <= Len(drops) THEN Dropped(file, drops[n])
  ELSE [file EXCEPT !.version = IF n = Len(drops) + 1 THEN 0 ELSE pin]

\* After the last one it goes on with the next phase.
PruneGoes(drops, to) ==
  IF step = Len(drops) + 2 THEN Goes(to) ELSE step' = step + 1 /\ UNCHANGED at

\* The mistake of pinning the copy at the head of the sequence.
AuditPinHead == Len(AuditScript)

AuditPin == AuditAtSplit

PrunesAudit ==
  /\ at = "pruning audit"
  /\ audit' = Pruned(audit, DropsFromAudit, AuditPin, step)
  /\ PruneGoes(DropsFromAudit, "pruning cache")
  /\ Smooth /\ UNCHANGED <<bridge, cache>>

PrunesCache ==
  /\ at = "pruning cache"
  /\ cache' = Pruned(cache, DropsFromCache, CacheAtSplit, step)
  /\ PruneGoes(DropsFromCache, "renaming")
  /\ Smooth /\ UNCHANGED <<bridge, audit>>

Renames ==
  /\ at = "renaming"
  /\ bridge' = "backup"
  /\ Goes("opening cache") /\ Smooth /\ UNCHANGED <<audit, cache>>

-----------------------------------------------------------------------------
(* The migrations.                                                          *)

\* sqlx.Open and the first statement: a missing file is created.
Opened(file) == IF file.kind = "none" THEN Empty ELSE file

\* runCacheMigrations opens the file; a torn one is no database.
OpensCache ==
  /\ at = "opening cache" /\ cache.kind # "torn"
  /\ cache' = Opened(cache)
  /\ Goes("migrating cache") /\ Smooth /\ UNCHANGED <<bridge, audit>>

\* The migrations migrateWith has still to run.
Ahead(file, script) == file.version < Len(script)

\* The next statement, unless all of the migration have run.
Statement(file, script) == script[file.version + 1][step]
Recording(file, script) == step > Len(script[file.version + 1])

\* Whether the database takes the statement.
Takes(file, o) == Needs(o) \subseteq file.has /\ ~(o \in Columns /\ o \in file.has)

\* migrateWith: a statement of the migration, or the record of its version.
Migrated(file, script) ==
  IF Recording(file, script) THEN [file EXCEPT !.version = @ + 1]
  ELSE [file EXCEPT !.has = @ \cup {Statement(file, script)}]

\* The next statement meets a schema it was not written for.
Blocked(file, script) ==
  Ahead(file, script) /\ ~Recording(file, script) /\ ~Takes(file, Statement(file, script))

CanMigrate(file, script) == Ahead(file, script) /\ ~Blocked(file, script)

MigrationGoes(file, script) ==
  /\ step' = IF Recording(file, script) THEN 1 ELSE step + 1
  /\ UNCHANGED at

MigratesCache ==
  /\ at = "migrating cache" /\ CanMigrate(cache, CacheScript)
  /\ cache' = Migrated(cache, CacheScript)
  /\ MigrationGoes(cache, CacheScript)
  /\ Smooth /\ UNCHANGED <<bridge, audit>>

CacheMigrated ==
  /\ at = "migrating cache" /\ ~Ahead(cache, CacheScript)
  /\ Goes("opening audit") /\ Smooth /\ UNCHANGED <<bridge, audit, cache>>

Least(a, b) == IF a < b THEN a ELSE b

\* selfHealAuditSchema: what the first four migrations create, as far as the
\* version says that they have run.
Healed(file) ==
  [file EXCEPT !.has = @ \cup Created(AuditScript, Least(4, file.version))]

\* audit.db is opened, cache.db attached, the schema healed.
OpensAudit ==
  /\ at = "opening audit" /\ audit.kind # "torn"
  /\ audit' = Healed(Opened(audit))
  /\ Goes("migrating audit") /\ Smooth /\ UNCHANGED <<bridge, cache>>

MigratesAudit ==
  /\ at = "migrating audit" /\ CanMigrate(audit, AuditScript)
  /\ audit' = Migrated(audit, AuditScript)
  /\ MigrationGoes(audit, AuditScript)
  /\ Smooth /\ UNCHANGED <<bridge, cache>>

Serves ==
  /\ at = "migrating audit" /\ ~Ahead(audit, AuditScript)
  /\ Goes("serving") /\ Smooth /\ UNCHANGED <<bridge, audit, cache>>

\* A statement that the database does not take, a file that is torn or in
\* the way: Open returns the error and the process ends.
Refused ==
  \/ at = "creating cache" /\ cache.kind # "none"
  \/ at = "opening cache" /\ cache.kind = "torn"
  \/ at = "opening audit" /\ audit.kind = "torn"
  \/ at = "migrating cache" /\ Blocked(cache, CacheScript)
  \/ at = "migrating audit" /\ Blocked(audit, AuditScript)

\* The cache.db in the way is not removed, the audit.db copied before is.
Refuses ==
  /\ Refused
  /\ audit' = IF at = "creating cache" THEN None ELSE audit
  /\ Goes("failed") /\ Smooth /\ UNCHANGED <<bridge, cache>>

-----------------------------------------------------------------------------
(* Faults.                                                                  *)

Fault == faults < MaxFaults /\ faults' = faults + 1 /\ clean' = FALSE /\ UNCHANGED indexed

\* Half a migration is on disk, and its version not recorded.
Halfway == at \in {"migrating cache", "migrating audit"} /\ step > 1

\* Half a split is on disk.
Splitting == at \in {"copying audit", "creating cache", "copying cache", "pruning audit", "pruning cache"}

\* The mistake of leaving the copies behind, and that of removing only the
\* copy that failed.
CleanUpNothing == {}
CleanUpOwn ==
  CASE at \in {"copying audit", "pruning audit"} -> {"audit"}
    [] at \in {"copying cache", "pruning cache"} -> {"cache"}
    [] OTHER -> {}

\* What the error path of a phase of the split removes: its own torn copy,
\* the copies made before it.
CleanUp ==
  CASE at = "copying audit" -> {"audit"}
    [] at = "creating cache" -> {"audit"}
    [] at \in {"copying cache", "pruning audit", "pruning cache"} -> {"audit", "cache"}
    [] OTHER -> {}

\* An operation fails, the clean-up removes what it can (its errors are
\* ignored), Open returns the error.
Fails ==
  /\ at \notin {"stopped", "failed", "serving", "renaming"} /\ ~Refused /\ Fault
  /\ \E gone \in SUBSET CleanUp :
       /\ audit' = IF "audit" \in gone THEN None ELSE audit
       /\ cache' = IF "cache" \in gone THEN None ELSE cache
       /\ cut' = (cut \/ Halfway \/ gone # CleanUp)
  /\ Goes("failed") /\ UNCHANGED bridge

\* copyFile writes everything and then fails to close: that file stays.
CloseFails ==
  /\ Fault /\ cut' = TRUE
  /\ \/ at = "copying audit" /\ audit = Torn /\ audit' = Legacy /\ UNCHANGED cache
     \/ at = "copying cache" /\ cache = Torn /\ cache' = Legacy /\ audit' = None
  /\ Goes("failed") /\ UNCHANGED bridge

\* The rename fails: a warning, and Open goes on.
RenameFails ==
  /\ at = "renaming" /\ Fault
  /\ Goes("opening cache") /\ UNCHANGED <<bridge, audit, cache, cut>>

\* The process is killed.
Crashes ==
  /\ at \notin {"stopped", "failed"} /\ Fault
  /\ cut' = (cut \/ Halfway \/ (Splitting /\ {audit, cache} # {None}))
  /\ Goes("stopped") /\ UNCHANGED <<bridge, audit, cache>>

-----------------------------------------------------------------------------
(* While it serves, and the operator.                                       *)

\* RecordCheckIn, a binding, a job.
Records ==
  /\ at = "serving"
  /\ audit' = [audit EXCEPT !.rows = @ \cup {"new"}]
  /\ Smooth /\ UNCHANGED <<bridge, cache, at, step>>

Stops ==
  /\ at = "serving"
  /\ Goes("stopped") /\ Smooth /\ UNCHANGED <<bridge, audit, cache>>

Idle == at \in {"stopped", "failed"}

\* "Safe to wipe": cache.db is removed.
WipesCache ==
  /\ Idle /\ cache.kind # "none"
  /\ cache' = None
  /\ Smooth /\ UNCHANGED <<bridge, audit, at, step>>

\* The backup is deleted, "when confident".
DeletesBackup ==
  /\ Idle /\ bridge = "backup"
  /\ bridge' = "deleted"
  /\ Smooth /\ UNCHANGED <<audit, cache, at, step>>

\* While there is a bridge.db "the operator can roll back by deleting
\* audit.db/cache.db", also if what was left of a split has served since.
RollsBack ==
  /\ Idle /\ bridge = "whole"
  /\ audit' = None /\ cache' = None /\ cut' = FALSE
  /\ UNCHANGED <<bridge, indexed, at, step, clean, faults>>

Opens ==
  \/ Boots \/ SkipsSplit \/ PutsAside \/ StartsSplit \/ CopiesAudit \/ CreatesCache \/ CopiesCache
  \/ PrunesAudit \/ PrunesCache \/ Renames \/ OpensCache \/ MigratesCache \/ CacheMigrated
  \/ OpensAudit \/ MigratesAudit \/ Serves \/ Refuses

Next ==
  \/ Opens
  \/ Fails \/ CloseFails \/ RenameFails \/ Crashes
  \/ Records \/ Stops \/ WipesCache \/ DeletesBackup \/ RollsBack

\* The supervisor restarts the process, and its statements return.
Spec == Init /\ [][Next]_vars /\ WF_vars(Opens)

-----------------------------------------------------------------------------
(* Properties.                                                              *)

Phases ==
  {"stopped", "failed", "looking", "copying audit", "creating cache", "copying cache",
   "pruning audit", "pruning cache", "renaming", "opening cache", "migrating cache",
   "opening audit", "migrating audit", "serving"}

Files ==
  [kind : {"none", "torn", "db"}, has : SUBSET (AuditObjects \cup CacheObjects),
   version : 0..Len(AuditScript), rows : SUBSET {"old", "new"}]

\* The types of the variables, and which files there are in which phase.
TypeOK ==
  /\ bridge \in {"none", "whole", "incomplete", "aside", "backup", "deleted"}
  /\ audit \in Files
  /\ audit.kind # "db" => audit \in {None, Torn}
  /\ cache \in Files
  /\ cache.kind # "db" => cache \in {None, Torn}
  /\ at \in Phases /\ step \in 1..Len(DropsFromAudit) + 2
  /\ indexed \in BOOLEAN /\ clean \in BOOLEAN /\ cut \in BOOLEAN /\ faults \in 0..MaxFaults
  /\ at = "creating cache" => audit = Legacy
  /\ at \in {"pruning audit", "migrating audit", "serving"} => audit.kind = "db"
  /\ at \in {"pruning audit", "pruning cache", "migrating cache"} => cache.kind = "db"

\* The history that is in some file: that of bridge.db as long as the file
\* exists under one of its names, and what audit.db holds.
Held == audit.rows \cup (IF bridge \in {"whole", "incomplete", "aside", "backup"} THEN {"old"} ELSE {})

\* The history of bridge.db is never lost, wherever a boot fails or is killed,
\* and also if the operator rolls back or deletes the backup at any moment:
\* the backup exists only when audit.db has everything (store.go:434-437).
\* What was recorded since is lost by no step but that rollback, which takes it
\* along when an interrupted split was served.
HistoryIsKept ==
  [][/\ "old" \in Held => "old" \in Held'
     /\ "new" \in Held => "new" \in Held' \/ RollsBack]_vars

\* Whenever Open has succeeded, audit.db has exactly its tables and columns:
\* none is missing, whatever the version said, and no table of the cache is
\* left in it to shadow the one of cache.db, whatever was interrupted.  If
\* nothing of a split or a migration was cut off, cache.db has all of its own
\* too, but for the search index when bridge.db never had one.
SchemaIsServed ==
  at = "serving" =>
    /\ audit.has = AuditObjects
    /\ cut \/ CacheObjects \ Lacking \subseteq cache.has

\* A boot fails because an operation of its own does, or because something
\* was cut off: what an earlier boot left behind in order, an error it went
\* through included, never stops a later one.
FailuresHaveCauses ==
  [][at # "failed" /\ at' = "failed" => ~clean' \/ cut']_vars

\* However boots fail, one ends up serving the history of bridge.db, unless
\* a change was cut off (or bridge.db was put aside as incomplete).
OpensInTheEnd ==
  at = "looking" ~>
    \/ cut
    \/ at = "serving" /\ (bridge \in {"whole", "backup", "deleted"} => "old" \in audit.rows)

-----------------------------------------------------------------------------
(* The inductive invariant, proved in StoreOpen_proofs.                     *)

\* A copy that was not pruned says 5 or 6, so that the fifth migration of
\* audit.db is skipped, and the seventh needs its columns: such a file is never
\* served.
Unpruned(file) == file.version \in {5, 6} /\ file.has \cap {"ua_name", "backfill"} = {}

\* Any other audit.db has no table of the cache, and what its version says
\* from the fifth migration on, where the self-heal stops.
Sound(file) ==
  /\ file.has \subseteq AuditObjects
  /\ file.version >= 5 => {"ua_name", "ua_email"} \subseteq file.has
  /\ file.version >= 6 => "ua_users" \in file.has
  /\ file.version >= 7 => "backfill" \in file.has

\* A database that is being migrated has what its version says, but for what
\* the install lacks, and what the next migration has created so far.
Migrating(file, script, lacking) ==
  /\ Created(script, file.version) \ lacking \subseteq file.has
  /\ Ahead(file, script) =>
       /\ step <= Len(script[file.version + 1]) + 1
       /\ \A i \in 1..(step - 1) : script[file.version + 1][i] \in file.has

\* What the prunes have done so far: in the last step but one the copy stops
\* being a copy of bridge.db.
AuditPruning ==
  /\ step <= 4 => Unpruned(audit)
  /\ step = 5 => Sound(audit) /\ audit.version = 0
  /\ \A i \in 1..3 : i < step => DropsFromAudit[i] \notin audit.has
  /\ step >= 4 => "badges" \notin audit.has

CachePruning ==
  /\ step <= 4
  /\ step = 4 => cache.version = 0
  /\ Created(CacheScript, CacheAtSplit) \ Lacking \subseteq cache.has

AuditInv ==
  /\ audit.kind = "db" => Unpruned(audit) \/ Sound(audit)
  /\ at = "copying audit" => audit \in {None, Empty, Torn}
  /\ at = "copying cache" => audit = Legacy
  /\ at = "pruning audit" => AuditPruning
  /\ at = "migrating audit" =>
       \/ Unpruned(audit) /\ step <= (IF audit.version = 5 THEN 2 ELSE 1)
       \/ Sound(audit) /\ Migrating(audit, AuditScript, {})
  /\ at = "serving" => audit.has = AuditObjects

\* Unless something was cut off, cache.db has what its version says once the
\* split is over.
CacheInv ==
  /\ cache.kind = "db" /\ at \notin {"copying cache", "pruning audit", "pruning cache"} /\ ~cut =>
       /\ cache.version <= Len(CacheScript)
       /\ Created(CacheScript, cache.version) \ Lacking \subseteq cache.has
  /\ at = "pruning audit" => Created(CacheScript, CacheAtSplit) \ Lacking \subseteq cache.has
  /\ at = "pruning cache" => CachePruning
  /\ at = "copying cache" => cache \in {Empty, Torn}
  /\ at = "migrating cache" /\ ~cut => Migrating(cache, CacheScript, Lacking)
  /\ at \in {"opening audit", "migrating audit", "serving"} =>
       cache.kind = "db" /\ cache.version >= Len(CacheScript)

\* bridge.db keeps its name and its rows until audit.db has them.
HistoryInv ==
  /\ bridge = "backup" => "old" \in audit.rows
  /\ Splitting => bridge = "whole" /\ "new" \notin audit.rows
  /\ at \in {"pruning audit", "pruning cache", "renaming"} => bridge = "whole" /\ "old" \in audit.rows

IInv == TypeOK /\ AuditInv /\ CacheInv /\ HistoryInv

\* A column is in a file only if the migration that adds it is recorded, or is
\* the next one and its statement is among those that have run.
Fresh(file, script, run) ==
  \A n \in 1..Len(script) : \A i \in 1..Len(script[n]) :
    script[n][i] \in Columns \cap file.has => file.version >= n \/ (file.version = n - 1 /\ i <= run)

\* How many statements of the next migration have run.
Run(phase) == IF at = phase THEN step - 1 ELSE 0

\* What every boot finds and leaves in order unless something was cut off: no
\* torn file, no cache.db in the way of a split, no copy that was not pruned
\* and no half of a migration.
OrderInv ==
  /\ at = "pruning audit" => audit.has \cap {"unifi_log_id", "ua_name", "ua_email"} = {}
  /\ at \in {"pruning audit", "pruning cache"} => "badges" \notin cache.has
  /\ at = "opening cache" => bridge # "whole" \/ audit.kind # "none"
  /\ ~cut =>
       /\ bridge = "whole" /\ (audit.kind = "none" \/ at \in {"copying audit", "creating cache"})
            => cache.kind = "none"
       /\ at # "copying audit" => audit.kind # "torn"
       /\ at # "copying cache" => cache.kind # "torn"
       /\ audit.kind = "db" /\ at \notin {"copying audit", "creating cache", "copying cache", "pruning audit"}
            => Sound(audit) /\ Fresh(audit, AuditScript, Run("migrating audit"))
       /\ at \notin {"copying cache", "pruning audit", "pruning cache"}
            => Fresh(cache, CacheScript, Run("migrating cache"))

=============================================================================
