-------------------------- MODULE StoreOpen_proofs --------------------------
(* Proofs about StoreOpen, for any number of faults.                        *)
EXTENDS StoreOpen, TLAPS

-----------------------------------------------------------------------------
(* The scripts, spelled out.                                                *)

\* A member of a tuple.
LEMMA InOne == ASSUME NEW a, NEW o PROVE o \in ToSet(<<a>>) <=> o = a
BY DEF ToSet

LEMMA InTwo == ASSUME NEW a, NEW b, NEW o PROVE o \in ToSet(<<a, b>>) <=> o \in {a, b}
BY DEF ToSet

\* What the migrations of either script create.
LEMMA AuditCreated ==
  ASSUME NEW n \in 0..7, NEW o
  PROVE  o \in Created(AuditScript, n) <=>
           \/ n >= 1 /\ o = "checkins"
           \/ n >= 2 /\ o = "unifi_result"
           \/ n >= 3 /\ o = "mappings"
           \/ n >= 4 /\ o = "unifi_log_id"
           \/ n >= 5 /\ o \in {"ua_name", "ua_email"}
           \/ n >= 6 /\ o = "ua_users"
           \/ n >= 7 /\ o = "backfill"
<1>1. o \in Created(AuditScript, n) <=> \E i \in 1..n : o \in ToSet(AuditScript[i])
  BY DEF Created
<1>2. \A i \in 1..7 : o \in ToSet(AuditScript[i]) <=>
        \/ i = 1 /\ o = "checkins"
        \/ i = 2 /\ o = "unifi_result"
        \/ i = 3 /\ o = "mappings"
        \/ i = 4 /\ o = "unifi_log_id"
        \/ i = 5 /\ o \in {"ua_name", "ua_email"}
        \/ i = 6 /\ o = "ua_users"
        \/ i = 7 /\ o = "backfill"
  BY InOne, InTwo DEF AuditScript
<1> QED
  BY <1>1, <1>2

LEMMA CacheCreated ==
  ASSUME NEW n \in 0..4, NEW o
  PROVE  o \in Created(CacheScript, n) <=>
           \/ n >= 1 /\ o = "customers"
           \/ n >= 2 /\ o = "members"
           \/ n >= 3 /\ o = "customers_fts"
           \/ n >= 4 /\ o = "badges"
<1>1. o \in Created(CacheScript, n) <=> \E i \in 1..n : o \in ToSet(CacheScript[i])
  BY DEF Created
<1>2. \A i \in 1..4 : o \in ToSet(CacheScript[i]) <=>
        \/ i = 1 /\ o = "customers"
        \/ i = 2 /\ o = "members"
        \/ i = 3 /\ o = "customers_fts"
        \/ i = 4 /\ o = "badges"
  BY InOne DEF CacheScript
<1> QED
  BY <1>1, <1>2

LEMMA Objects ==
  /\ Len(AuditScript) = 7 /\ Len(CacheScript) = 4
  /\ AuditObjects = {"checkins", "unifi_result", "mappings", "unifi_log_id",
                     "ua_name", "ua_email", "ua_users", "backfill"}
  /\ CacheObjects = {"customers", "members", "customers_fts", "badges"}
<1>1. Len(AuditScript) = 7 /\ Len(CacheScript) = 4
  BY DEF AuditScript, CacheScript
<1>2. \A o : o \in AuditObjects <=> o \in {"checkins", "unifi_result", "mappings", "unifi_log_id",
                     "ua_name", "ua_email", "ua_users", "backfill"}
  BY <1>1, AuditCreated DEF AuditObjects
<1>3. \A o : o \in CacheObjects <=> o \in {"customers", "members", "customers_fts", "badges"}
  BY <1>1, CacheCreated DEF CacheObjects
<1> QED
  BY <1>1, <1>2, <1>3

\* The prunes and the constant files.
LEMMA Drops ==
  /\ Len(DropsFromAudit) = 3 /\ Len(DropsFromCache) = 2
  /\ DropsFromAudit[1] = "customers_fts" /\ DropsFromAudit[2] = "members"
  /\ DropsFromAudit[3] = "customers"
  /\ DropsFromCache[1] = "mappings" /\ DropsFromCache[2] = "checkins"
BY DEF DropsFromAudit, DropsFromCache

LEMMA Constants ==
  /\ None = [kind |-> "none", has |-> {}, version |-> 0, rows |-> {}]
  /\ Empty = [kind |-> "db", has |-> {}, version |-> 0, rows |-> {}]
  /\ Torn = [kind |-> "torn", has |-> {}, version |-> 0, rows |-> {}]
  /\ Legacy = [kind |-> "db", version |-> IF indexed THEN 6 ELSE 5, rows |-> {"old"},
               has |-> {"checkins", "unifi_result", "mappings", "customers", "members", "customers_fts"} \ Lacking]
  /\ None \in Files /\ Empty \in Files /\ Torn \in Files /\ Legacy \in Files
<1>1. /\ None = [kind |-> "none", has |-> {}, version |-> 0, rows |-> {}]
      /\ Empty = [kind |-> "db", has |-> {}, version |-> 0, rows |-> {}]
      /\ Torn = [kind |-> "torn", has |-> {}, version |-> 0, rows |-> {}]
  BY DEF None, Empty, Torn
<1>2. \A o : o \in Created(AuditScript, AuditAtSplit) \cup Created(CacheScript, CacheAtSplit)
        <=> o \in {"checkins", "unifi_result", "mappings", "customers", "members", "customers_fts"}
  BY AuditCreated, CacheCreated DEF AuditAtSplit, CacheAtSplit
<1>3. Legacy = [kind |-> "db", version |-> IF indexed THEN 6 ELSE 5, rows |-> {"old"},
               has |-> {"checkins", "unifi_result", "mappings", "customers", "members", "customers_fts"} \ Lacking]
  BY <1>2 DEF Legacy, Db
<1> QED
  BY <1>1, <1>3, Objects DEF Files

-----------------------------------------------------------------------------
(* What the operations on a file return.                                    *)

LEMMA DroppedFile ==
  ASSUME NEW file \in Files, NEW t
  PROVE  /\ Dropped(file, t) \in Files
         /\ Dropped(file, t).kind = file.kind /\ Dropped(file, t).version = file.version
         /\ Dropped(file, t).has = file.has \ ({t} \cup {o \in Columns : t \in Needs(o)})
         /\ Dropped(file, t).rows = IF t = "checkins" THEN {} ELSE file.rows
BY DEF Files, Dropped

LEMMA GrownFile ==
  ASSUME NEW file \in Files, NEW more \in SUBSET (AuditObjects \cup CacheObjects)
  PROVE  /\ [file EXCEPT !.has = @ \cup more] \in Files
         /\ [file EXCEPT !.has = @ \cup more].kind = file.kind
         /\ [file EXCEPT !.has = @ \cup more].version = file.version
         /\ [file EXCEPT !.has = @ \cup more].has = file.has \cup more
         /\ [file EXCEPT !.has = @ \cup more].rows = file.rows
BY DEF Files

LEMMA RecordedFile ==
  ASSUME NEW file \in Files
  PROVE  /\ [file EXCEPT !.rows = @ \cup {"new"}] \in Files
         /\ [file EXCEPT !.rows = @ \cup {"new"}].kind = file.kind
         /\ [file EXCEPT !.rows = @ \cup {"new"}].has = file.has
         /\ [file EXCEPT !.rows = @ \cup {"new"}].version = file.version
         /\ [file EXCEPT !.rows = @ \cup {"new"}].rows = file.rows \cup {"new"}
BY DEF Files

LEMMA FileFields ==
  ASSUME NEW file \in Files
  PROVE  file.version \in 0..7 /\ file.kind \in {"none", "torn", "db"}
BY Objects DEF Files

LEMMA Kinds ==
  /\ None.kind = "none" /\ None.rows = {}
  /\ Empty.kind = "db" /\ Empty.rows = {} /\ Empty.version = 0 /\ Empty.has = {}
  /\ Torn.kind = "torn" /\ Torn.rows = {}
  /\ Legacy.kind = "db" /\ Legacy.rows = {"old"} /\ Legacy.version \in {5, 6}
  /\ None \in Files /\ Empty \in Files /\ Torn \in Files /\ Legacy \in Files
BY Constants

\* A copy of bridge.db, and a new file.
LEMMA LegacyFile ==
  /\ Unpruned(Legacy) /\ Sound(Empty)
  /\ Created(CacheScript, CacheAtSplit) \ Lacking \subseteq Legacy.has
  /\ Created(CacheScript, 0) = {} /\ Created(AuditScript, 0) = {}
BY Constants, Objects, CacheCreated, AuditCreated DEF Unpruned, Sound, CacheAtSplit, Lacking

LEMMA CopiedFile ==
  /\ Copied(None) = Empty /\ Copied(Empty) = Torn /\ Copied(Torn) = Legacy
BY Constants DEF Copied

\* The statements of a migration.
LEMMA Statements ==
  /\ \A i \in 1..7 : Len(AuditScript[i]) = IF i = 5 THEN 2 ELSE 1
  /\ \A i \in 1..4 : Len(CacheScript[i]) = 1
  /\ AuditScript[1][1] = "checkins" /\ AuditScript[2][1] = "unifi_result"
  /\ AuditScript[3][1] = "mappings" /\ AuditScript[4][1] = "unifi_log_id"
  /\ AuditScript[5][1] = "ua_name" /\ AuditScript[5][2] = "ua_email"
  /\ AuditScript[6][1] = "ua_users" /\ AuditScript[7][1] = "backfill"
  /\ CacheScript[1][1] = "customers" /\ CacheScript[2][1] = "members"
  /\ CacheScript[3][1] = "customers_fts" /\ CacheScript[4][1] = "badges"
BY DEF AuditScript, CacheScript

\* What goes with a table.
LEMMA ColumnsOf ==
  /\ {o \in Columns : "customers_fts" \in Needs(o)} = {}
  /\ {o \in Columns : "members" \in Needs(o)} = {}
  /\ {o \in Columns : "customers" \in Needs(o)} = {"badges"}
  /\ {o \in Columns : "mappings" \in Needs(o)} = {"ua_name", "ua_email"}
  /\ {o \in Columns : "checkins" \in Needs(o)} = {"unifi_result", "unifi_log_id"}
BY DEF Columns, Needs

\* One migration more.
LEMMA CreatedNext ==
  ASSUME NEW script, NEW n \in Nat
  PROVE  Created(script, n + 1) = Created(script, n) \cup ToSet(script[n + 1])
<1>1. 1..(n + 1) = 1..n \cup {n + 1}
  OBVIOUS
<1> QED
  BY <1>1 DEF Created

LEMMA AuditStatement ==
  ASSUME NEW n \in 0..6
  PROVE  /\ ToSet(AuditScript[n + 1]) = {AuditScript[n + 1][i] : i \in 1..Len(AuditScript[n + 1])}
         /\ Len(AuditScript[n + 1]) \in 1..2
         /\ \A i \in 1..Len(AuditScript[n + 1]) : AuditScript[n + 1][i] \in AuditObjects
<1>1. \A m \in 1..7 : Len(AuditScript[m]) \in 1..2
  BY Statements
<1>2. \A m \in 1..7 : \A i \in 1..Len(AuditScript[m]) : AuditScript[m][i] \in AuditObjects
  BY Statements, Objects
<1>3. \A m \in 1..7 : \A o :
        o \in ToSet(AuditScript[m]) <=> \E i \in 1..Len(AuditScript[m]) : o = AuditScript[m][i]
  <2>1. \A m \in 1..7 : m # 5 => \A o : o \in ToSet(AuditScript[m]) <=> o = AuditScript[m][1]
    BY InOne DEF AuditScript
  <2>2. \A o : o \in ToSet(AuditScript[5]) <=> o \in {AuditScript[5][1], AuditScript[5][2]}
    BY InTwo DEF AuditScript
  <2> QED
    BY <2>1, <2>2, Statements
<1>4. n + 1 \in 1..7
  OBVIOUS
<1> QED
  BY <1>1, <1>2, <1>3, <1>4

LEMMA CacheStatement ==
  ASSUME NEW n \in 0..3
  PROVE  /\ ToSet(CacheScript[n + 1]) = {CacheScript[n + 1][1]}
         /\ Len(CacheScript[n + 1]) = 1
         /\ CacheScript[n + 1][1] \in CacheObjects
<1>1. \A m \in 1..4 : \A o : o \in ToSet(CacheScript[m]) <=> o = CacheScript[m][1]
  BY InOne DEF CacheScript
<1>2. n + 1 \in 1..4
  OBVIOUS
<1> QED
  BY <1>1, <1>2, Statements, Objects

-----------------------------------------------------------------------------
(* TypeOK in three parts.                                                   *)

Scalars ==
  /\ bridge \in {"none", "whole", "incomplete", "aside", "backup", "deleted"}
  /\ at \in Phases /\ step \in 1..5 /\ faults \in 0..MaxFaults

Flags == indexed \in BOOLEAN /\ clean \in BOOLEAN /\ cut \in BOOLEAN

FilesOK ==
  /\ audit \in Files
  /\ audit.kind # "db" => audit \in {None, Torn}
  /\ cache \in Files
  /\ cache.kind # "db" => cache \in {None, Torn}
  /\ at = "creating cache" => audit = Legacy
  /\ at \in {"pruning audit", "migrating audit", "serving"} => audit.kind = "db"
  /\ at \in {"pruning audit", "pruning cache", "migrating cache"} => cache.kind = "db"

LEMMA TypeParts == TypeOK <=> Scalars /\ Flags /\ FilesOK
<1>1. 1..Len(DropsFromAudit) + 2 = 1..5
  BY Drops
<1> QED
  BY <1>1, Zenon DEF TypeOK, Scalars, Flags, FilesOK

-----------------------------------------------------------------------------
(* The initial states.                                                      *)

LEMMA InitIInv == Init => IInv
<1> SUFFICES ASSUME Init PROVE IInv
  OBVIOUS
<1>2. CASE Untouched
  <2>1. audit = None /\ cache = None /\ bridge \in {"none", "whole", "incomplete"}
    BY <1>2 DEF Untouched
  <2>8. Scalars
    BY <2>1, Constants, Objects, Drops, FaultsAssumption DEF Init, Scalars, Phases, FaultsAssumption
  <2>12. Flags
    BY DEF Init, Flags
  <2>13. FilesOK
    BY <2>1, Constants, Objects, Drops, FaultsAssumption DEF Init, FilesOK
  <2>9. AuditInv
    BY <2>1, Constants, Objects, Drops, FaultsAssumption DEF Init, AuditInv
  <2>10. CacheInv
    BY <2>1, Constants, Objects, Drops, FaultsAssumption DEF Init, CacheInv
  <2>11. HistoryInv
    BY <2>1, Constants, Objects, Drops, FaultsAssumption DEF Init, HistoryInv, Splitting
  <2> QED
    BY <2>8, <2>9, <2>10, <2>11, <2>12, <2>13, TypeParts DEF IInv
<1>3. CASE PinnedEmpty
  <2>1. audit = [kind |-> "db", has |-> {}, version |-> 3, rows |-> {}] /\ cache = None /\ bridge = "none"
    BY <1>3 DEF PinnedEmpty, Db, AuditAtSplit
  <2>2. audit \in Files /\ Sound(audit)
    BY <2>1, Objects DEF Files, Sound
  <2>8. Scalars
    BY <2>1, <2>2, Constants, Objects, Drops, FaultsAssumption DEF Init, Scalars, Phases, FaultsAssumption
  <2>12. Flags
    BY DEF Init, Flags
  <2>13. FilesOK
    BY <2>1, <2>2, Constants, Objects, Drops, FaultsAssumption DEF Init, FilesOK
  <2>9. AuditInv
    BY <2>1, <2>2, Constants, Objects, Drops, FaultsAssumption DEF Init, AuditInv
  <2>10. CacheInv
    BY <2>1, <2>2, Constants, Objects, Drops, FaultsAssumption DEF Init, CacheInv
  <2>11. HistoryInv
    BY <2>1, <2>2, Constants, Objects, Drops, FaultsAssumption DEF Init, HistoryInv, Splitting
  <2> QED
    BY <2>8, <2>9, <2>10, <2>11, <2>12, <2>13, TypeParts DEF IInv
<1>4. CASE Served
  <2>1. bridge \in {"none", "backup", "whole"}
    BY <1>4 DEF Served
  <2>2. PICK v \in 3..7 : audit = Db(Created(AuditScript, v), v, {"old", "new"})
    BY <1>4, Objects DEF Served, AuditAtSplit
  <2>3. PICK w \in 3..4 : cache = Db(Created(CacheScript, w) \ Lacking, w, {})
    BY <1>4, Objects DEF Served, CacheAtSplit
  <2>4. /\ audit.kind = "db" /\ audit.has = Created(AuditScript, v) /\ audit.version = v /\ audit.rows = {"old", "new"}
        /\ cache.kind = "db" /\ cache.has = Created(CacheScript, w) \ Lacking /\ cache.version = w /\ cache.rows = {}
    BY <2>2, <2>3 DEF Db
  <2>5. Created(AuditScript, v) \subseteq AuditObjects /\ Created(CacheScript, w) \subseteq CacheObjects
    BY <2>2, AuditCreated, CacheCreated, Objects
  <2>6. audit \in Files /\ cache \in Files
    BY <2>2, <2>3, <2>5, Objects DEF Db, Files
  <2>7. Sound(audit)
    BY <2>2, <2>4, <2>5, AuditCreated DEF Sound
  <2>8. Scalars
    BY <2>1, <2>2, <2>3, <2>4, <2>5, <2>6, <2>7, Objects, Drops, FaultsAssumption DEF Init, Scalars, Phases, FaultsAssumption
  <2>12. Flags
    BY DEF Init, Flags
  <2>13. FilesOK
    BY <2>1, <2>2, <2>3, <2>4, <2>5, <2>6, <2>7, Objects, Drops, FaultsAssumption DEF Init, FilesOK
  <2>9. AuditInv
    BY <2>1, <2>2, <2>3, <2>4, <2>5, <2>6, <2>7, Objects, Drops, FaultsAssumption DEF Init, AuditInv
  <2>10. CacheInv
    BY <2>1, <2>2, <2>3, <2>4, <2>5, <2>6, <2>7, Objects, Drops, FaultsAssumption DEF Init, CacheInv
  <2>11. HistoryInv
    BY <2>1, <2>2, <2>3, <2>4, <2>5, <2>6, <2>7, Objects, Drops, FaultsAssumption DEF Init, HistoryInv, Splitting
  <2> QED
    BY <2>8, <2>9, <2>10, <2>11, <2>12, <2>13, TypeParts DEF IInv
<1> QED
  BY <1>2, <1>3, <1>4, Zenon DEF Init

-----------------------------------------------------------------------------
(* The steps.                                                               *)

Parts == Scalars /\ Flags /\ FilesOK /\ AuditInv /\ CacheInv /\ HistoryInv

\* A phase begins with its first statement.
LEMMA Restarts == ASSUME NEW to PROVE Goes(to) => step' \in 1..5 /\ step' = 1 /\ at' = to
<1>1. Goes(to) => step' = 1 /\ at' = to
  BY Zenon DEF Goes
<1> QED
  BY <1>1

\* The counter of faults, in a step that succeeds and in one that does not.
LEMMA Unhurt == Scalars /\ Smooth => faults' \in 0..MaxFaults
<1>1. Smooth => faults' = faults
  BY Zenon DEF Smooth
<1> QED
  BY <1>1, Zenon DEF Scalars

LEMMA Hurt == Scalars /\ Fault => faults' \in 0..MaxFaults
<1>1. Fault => faults < MaxFaults /\ faults' = faults + 1
  BY Zenon DEF Fault
<1>2. Scalars => faults \in 0..MaxFaults
  BY Zenon DEF Scalars
<1> QED
  BY <1>1, <1>2, FaultsAssumption DEF FaultsAssumption

\* What bridge.db was is not changed.
LEMMA SameBridge ==
  [Next]_vars => indexed' = indexed /\ Legacy' = Legacy /\ Lacking' = Lacking
<1>1. ASSUME Smooth PROVE indexed' = indexed
  BY <1>1, Zenon DEF Smooth
<1>2. ASSUME Fault PROVE indexed' = indexed
  BY <1>2, Zenon DEF Fault
<1>3. ASSUME [Next]_vars PROVE indexed' = indexed
  <2>1. CASE Boots \/ RollsBack \/ UNCHANGED vars
    BY <2>1, Zenon DEF Boots, RollsBack, vars
  <2>2. CASE SkipsSplit \/ PutsAside \/ StartsSplit \/ CopiesAudit \/ CreatesCache \/ CopiesCache
    BY <1>1, <2>2, Zenon DEF SkipsSplit, PutsAside, StartsSplit, CopiesAudit, CreatesCache, CopiesCache
  <2>3. CASE PrunesAudit \/ PrunesCache \/ Renames \/ OpensCache \/ MigratesCache \/ CacheMigrated
    BY <1>1, <2>3, Zenon DEF PrunesAudit, PrunesCache, Renames, OpensCache, MigratesCache, CacheMigrated
  <2>4. CASE OpensAudit \/ MigratesAudit \/ Serves \/ Refuses
    BY <1>1, <2>4, Zenon DEF OpensAudit, MigratesAudit, Serves, Refuses
  <2>5. CASE Fails \/ CloseFails \/ RenameFails \/ Crashes
    BY <1>2, <2>5, Zenon DEF Fails, CloseFails, RenameFails, Crashes
  <2>6. CASE Records \/ Stops \/ WipesCache \/ DeletesBackup
    BY <1>1, <2>6, Zenon DEF Records, Stops, WipesCache, DeletesBackup
  <2> QED
    BY <1>3, <2>1, <2>2, <2>3, <2>4, <2>5, <2>6, Zenon DEF Next, Opens
<1> QED
  BY <1>3 DEF Legacy, Lacking

LEMMA KeepBoots == Parts /\ Boots => Parts'
<1>0. SUFFICES ASSUME Parts, Boots PROVE Parts'
  OBVIOUS
<1>l. indexed' = indexed /\ Legacy' = Legacy /\ Lacking' = Lacking
  BY <1>0, SameBridge, Zenon DEF Next, Opens
<1>1. Scalars'
  <2>1. bridge' \in {"none", "whole", "incomplete", "aside", "backup", "deleted"}
    BY <1>0 DEF Parts, Scalars, Boots, Smooth, Goes
  <2>2. at' \in Phases
    BY <1>0 DEF Parts, Scalars, Phases, Boots, Smooth, Goes
  <2>3. step' \in 1..5
    BY <1>0, Restarts, Zenon DEF Parts, Scalars, Boots
  <2>4. faults' \in 0..MaxFaults
    BY <1>0, Unhurt, Hurt, Zenon DEF Parts, Scalars, Boots
  <2> QED
    BY <2>1, <2>2, <2>3, <2>4 DEF Scalars
<1>2. Flags'
  BY <1>l, <1>0, Zenon DEF Parts, Flags, Boots, Smooth, Goes
<1>3. FilesOK'
  BY <1>l, <1>0 DEF Parts, FilesOK, Boots, Smooth, Goes
<1>4. AuditInv'
  BY <1>l, <1>0 DEF Parts, AuditInv, FilesOK, Boots, Smooth, Goes
<1>5. CacheInv'
  BY <1>l, <1>0 DEF Parts, CacheInv, FilesOK, Boots, Smooth, Goes
<1>6. HistoryInv'
  BY <1>0 DEF Parts, HistoryInv, Splitting, Boots, Smooth, Goes
<1> QED
  BY <1>1, <1>2, <1>3, <1>4, <1>5, <1>6 DEF Parts

LEMMA KeepSkipsSplit == Parts /\ SkipsSplit => Parts'
<1>0. SUFFICES ASSUME Parts, SkipsSplit PROVE Parts'
  OBVIOUS
<1>l. indexed' = indexed /\ Legacy' = Legacy /\ Lacking' = Lacking
  BY <1>0, SameBridge, Zenon DEF Next, Opens
<1>1. Scalars'
  <2>1. bridge' \in {"none", "whole", "incomplete", "aside", "backup", "deleted"}
    BY <1>0 DEF Parts, Scalars, SkipsSplit, Smooth, Goes
  <2>2. at' \in Phases
    BY <1>0 DEF Parts, Scalars, Phases, SkipsSplit, Smooth, Goes
  <2>3. step' \in 1..5
    BY <1>0, Restarts, Zenon DEF Parts, Scalars, SkipsSplit
  <2>4. faults' \in 0..MaxFaults
    BY <1>0, Unhurt, Hurt, Zenon DEF Parts, Scalars, SkipsSplit
  <2> QED
    BY <2>1, <2>2, <2>3, <2>4 DEF Scalars
<1>2. Flags'
  BY <1>l, <1>0, Zenon DEF Parts, Flags, SkipsSplit, Smooth, Goes
<1>3. FilesOK'
  BY <1>l, <1>0 DEF Parts, FilesOK, SkipsSplit, Smooth, Goes
<1>4. AuditInv'
  BY <1>l, <1>0 DEF Parts, AuditInv, FilesOK, SkipsSplit, Smooth, Goes
<1>5. CacheInv'
  BY <1>l, <1>0 DEF Parts, CacheInv, FilesOK, SkipsSplit, Smooth, Goes
<1>6. HistoryInv'
  BY <1>0 DEF Parts, HistoryInv, Splitting, SkipsSplit, Smooth, Goes
<1> QED
  BY <1>1, <1>2, <1>3, <1>4, <1>5, <1>6 DEF Parts

LEMMA KeepPutsAside == Parts /\ PutsAside => Parts'
<1>0. SUFFICES ASSUME Parts, PutsAside PROVE Parts'
  OBVIOUS
<1>l. indexed' = indexed /\ Legacy' = Legacy /\ Lacking' = Lacking
  BY <1>0, SameBridge, Zenon DEF Next, Opens
<1>1. Scalars'
  <2>1. bridge' \in {"none", "whole", "incomplete", "aside", "backup", "deleted"}
    BY <1>0 DEF Parts, Scalars, PutsAside, Smooth, Goes
  <2>2. at' \in Phases
    BY <1>0 DEF Parts, Scalars, Phases, PutsAside, Smooth, Goes
  <2>3. step' \in 1..5
    BY <1>0, Restarts, Zenon DEF Parts, Scalars, PutsAside
  <2>4. faults' \in 0..MaxFaults
    BY <1>0, Unhurt, Hurt, Zenon DEF Parts, Scalars, PutsAside
  <2> QED
    BY <2>1, <2>2, <2>3, <2>4 DEF Scalars
<1>2. Flags'
  BY <1>l, <1>0, Zenon DEF Parts, Flags, PutsAside, Smooth, Goes
<1>3. FilesOK'
  BY <1>l, <1>0 DEF Parts, FilesOK, PutsAside, Smooth, Goes
<1>4. AuditInv'
  BY <1>l, <1>0 DEF Parts, AuditInv, FilesOK, PutsAside, Smooth, Goes
<1>5. CacheInv'
  BY <1>l, <1>0 DEF Parts, CacheInv, FilesOK, PutsAside, Smooth, Goes
<1>6. HistoryInv'
  BY <1>0 DEF Parts, HistoryInv, Splitting, PutsAside, Smooth, Goes
<1> QED
  BY <1>1, <1>2, <1>3, <1>4, <1>5, <1>6 DEF Parts

LEMMA KeepStartsSplit == Parts /\ StartsSplit => Parts'
<1>0. SUFFICES ASSUME Parts, StartsSplit PROVE Parts'
  OBVIOUS
<1>l. indexed' = indexed /\ Legacy' = Legacy /\ Lacking' = Lacking
  BY <1>0, SameBridge, Zenon DEF Next, Opens
<1>1. Scalars'
  <2>1. bridge' \in {"none", "whole", "incomplete", "aside", "backup", "deleted"}
    BY <1>0 DEF Parts, Scalars, StartsSplit, Smooth, Goes
  <2>2. at' \in Phases
    BY <1>0 DEF Parts, Scalars, Phases, StartsSplit, Smooth, Goes
  <2>3. step' \in 1..5
    BY <1>0, Restarts, Zenon DEF Parts, Scalars, StartsSplit
  <2>4. faults' \in 0..MaxFaults
    BY <1>0, Unhurt, Hurt, Zenon DEF Parts, Scalars, StartsSplit
  <2> QED
    BY <2>1, <2>2, <2>3, <2>4 DEF Scalars
<1>2. Flags'
  BY <1>l, <1>0, Zenon DEF Parts, Flags, StartsSplit, Smooth, Goes
<1>3. FilesOK'
  BY <1>l, <1>0 DEF Parts, FilesOK, StartsSplit, Smooth, Goes
<1>4. AuditInv'
  BY <1>l, <1>0 DEF Parts, AuditInv, FilesOK, StartsSplit, Smooth, Goes
<1>5. CacheInv'
  BY <1>l, <1>0 DEF Parts, CacheInv, FilesOK, StartsSplit, Smooth, Goes
<1>6. HistoryInv'
  BY <1>0, Kinds DEF Parts, FilesOK, HistoryInv, Splitting, StartsSplit, Goes
<1> QED
  BY <1>1, <1>2, <1>3, <1>4, <1>5, <1>6 DEF Parts

LEMMA KeepCopiesAudit == Parts /\ CopiesAudit => Parts'
<1>0. SUFFICES ASSUME Parts, CopiesAudit PROVE Parts'
  OBVIOUS
<1>l. indexed' = indexed /\ Legacy' = Legacy /\ Lacking' = Lacking
  BY <1>0, SameBridge, Zenon DEF Next, Opens
<1>a. bridge' = bridge /\ cache' = cache /\ audit \in {None, Empty, Torn}
  BY <1>0 DEF Parts, AuditInv, CopiesAudit
<1>b. \/ audit' \in {Empty, Torn} /\ at' = "copying audit"
      \/ audit' = Legacy /\ at' = "creating cache"
  BY <1>0, <1>a, CopiedFile, Kinds DEF CopiesAudit, Goes
<1>c. cut' = cut
  BY <1>0, Zenon DEF CopiesAudit, Smooth
<1>1. Scalars'
  <2>1. bridge' \in {"none", "whole", "incomplete", "aside", "backup", "deleted"}
    BY <1>0 DEF Parts, Scalars, CopiesAudit, Smooth, Goes
  <2>2. at' \in Phases
    BY <1>0, CopiedFile, Kinds DEF Parts, Scalars, Phases, CopiesAudit, Smooth, Goes
  <2>3. step' \in 1..5
    BY <1>0, Restarts, Zenon DEF Parts, Scalars, CopiesAudit
  <2>4. faults' \in 0..MaxFaults
    BY <1>0, Unhurt, Hurt, Zenon DEF Parts, Scalars, CopiesAudit
  <2> QED
    BY <2>1, <2>2, <2>3, <2>4 DEF Scalars
<1>2. Flags'
  BY <1>l, <1>0, Zenon DEF Parts, Flags, CopiesAudit, Smooth, Goes
<1>3. FilesOK'
  BY <1>l, <1>0, <1>a, <1>b, Kinds DEF Parts, FilesOK
<1>4. AuditInv'
  BY <1>l, <1>a, <1>b, Kinds, LegacyFile DEF AuditInv
<1>5. CacheInv'
  BY <1>l, <1>0, <1>a, <1>b, <1>c DEF Parts, CacheInv, CopiesAudit
<1>6. HistoryInv'
  <2>1. bridge = "whole"
    BY <1>0 DEF Parts, HistoryInv, Splitting, CopiesAudit
  <2>2. "new" \notin audit'.rows
    <3>1. "new" \notin {} /\ "new" \notin {"old"}
      OBVIOUS
    <3> QED
      BY <1>b, <3>1, Kinds, Zenon
  <2> QED
    BY <1>a, <1>b, <2>1, <2>2 DEF HistoryInv, Splitting
<1> QED
  BY <1>1, <1>2, <1>3, <1>4, <1>5, <1>6 DEF Parts

LEMMA KeepCreatesCache == Parts /\ CreatesCache => Parts'
<1>0. SUFFICES ASSUME Parts, CreatesCache PROVE Parts'
  OBVIOUS
<1>l. indexed' = indexed /\ Legacy' = Legacy /\ Lacking' = Lacking
  BY <1>0, SameBridge, Zenon DEF Next, Opens
<1>1. Scalars'
  <2>1. bridge' \in {"none", "whole", "incomplete", "aside", "backup", "deleted"}
    BY <1>0 DEF Parts, Scalars, CreatesCache, Smooth, Goes
  <2>2. at' \in Phases
    BY <1>0, Kinds DEF Parts, Scalars, Phases, CreatesCache, Smooth, Goes
  <2>3. step' \in 1..5
    BY <1>0, Restarts, Zenon DEF Parts, Scalars, CreatesCache
  <2>4. faults' \in 0..MaxFaults
    BY <1>0, Unhurt, Hurt, Zenon DEF Parts, Scalars, CreatesCache
  <2> QED
    BY <2>1, <2>2, <2>3, <2>4 DEF Scalars
<1>2. Flags'
  BY <1>l, <1>0, Zenon DEF Parts, Flags, CreatesCache, Smooth, Goes
<1>3. FilesOK'
  BY <1>l, <1>0, Kinds DEF Parts, FilesOK, CreatesCache, Smooth, Goes
<1>4. AuditInv'
  BY <1>l, <1>0, Kinds DEF Parts, AuditInv, FilesOK, CreatesCache, Smooth, Goes
<1>5. CacheInv'
  BY <1>l, <1>0, Kinds DEF Parts, CacheInv, FilesOK, CreatesCache, Smooth, Goes
<1>6. HistoryInv'
  BY <1>0, Kinds DEF Parts, HistoryInv, Splitting, CreatesCache, Smooth, Goes
<1> QED
  BY <1>1, <1>2, <1>3, <1>4, <1>5, <1>6 DEF Parts

LEMMA KeepCopiesCache == Parts /\ CopiesCache => Parts'
<1>0. SUFFICES ASSUME Parts, CopiesCache PROVE Parts'
  OBVIOUS
<1>l. indexed' = indexed /\ Legacy' = Legacy /\ Lacking' = Lacking
  BY <1>0, SameBridge, Zenon DEF Next, Opens
<1>a. bridge' = bridge /\ audit' = audit /\ audit = Legacy /\ cache \in {Empty, Torn}
  BY <1>0 DEF Parts, AuditInv, CacheInv, CopiesCache
<1>b. \/ cache' = Torn /\ at' = "copying cache"
      \/ cache' = Legacy /\ at' = "pruning audit"
  BY <1>0, <1>a, CopiedFile, Kinds DEF CopiesCache, Goes
<1>c. at' = "pruning audit" => step' = 1
  BY <1>0, <1>a, Restarts, Zenon DEF CopiesCache
<1>1. Scalars'
  <2>1. bridge' \in {"none", "whole", "incomplete", "aside", "backup", "deleted"}
    BY <1>0 DEF Parts, Scalars, CopiesCache, Smooth, Goes
  <2>2. at' \in Phases
    BY <1>0, CopiedFile, Kinds DEF Parts, Scalars, Phases, CopiesCache, Smooth, Goes
  <2>3. step' \in 1..5
    BY <1>0, Restarts, Zenon DEF Parts, Scalars, CopiesCache
  <2>4. faults' \in 0..MaxFaults
    BY <1>0, Unhurt, Hurt, Zenon DEF Parts, Scalars, CopiesCache
  <2> QED
    BY <2>1, <2>2, <2>3, <2>4 DEF Scalars
<1>2. Flags'
  BY <1>l, <1>0, Zenon DEF Parts, Flags, CopiesCache, Smooth, Goes
<1>3. FilesOK'
  BY <1>l, <1>0, <1>a, <1>b, Kinds DEF Parts, FilesOK
<1>4. AuditInv'
  <2>1. audit' = Legacy /\ Unpruned(audit)'
    BY <1>l, <1>a, LegacyFile
  <2>2. CASE at' = "pruning audit"
    <3>1. step' = 1
      BY <1>l, <1>c, <2>2, Zenon
    <3>2. AuditPruning'
      BY <1>l, <2>1, <3>1 DEF AuditPruning
    <3> QED
      BY <1>l, <2>1, <2>2, <3>2 DEF AuditInv
  <2>3. CASE at' = "copying cache"
    BY <1>l, <2>1, <2>3 DEF AuditInv
  <2> QED
    BY <1>l, <1>b, <2>2, <2>3
<1>5. CacheInv'
  BY <1>l, <1>a, <1>b, LegacyFile, Kinds DEF CacheInv
<1>6. HistoryInv'
  BY <1>0, <1>a, <1>b, Kinds DEF Parts, HistoryInv, Splitting, CopiesCache
<1> QED
  BY <1>1, <1>2, <1>3, <1>4, <1>5, <1>6 DEF Parts

LEMMA KeepRenames == Parts /\ Renames => Parts'
<1>0. SUFFICES ASSUME Parts, Renames PROVE Parts'
  OBVIOUS
<1>l. indexed' = indexed /\ Legacy' = Legacy /\ Lacking' = Lacking
  BY <1>0, SameBridge, Zenon DEF Next, Opens
<1>1. Scalars'
  <2>1. bridge' \in {"none", "whole", "incomplete", "aside", "backup", "deleted"}
    BY <1>0 DEF Parts, Scalars, Renames, Smooth, Goes
  <2>2. at' \in Phases
    BY <1>0 DEF Parts, Scalars, Phases, Renames, Smooth, Goes
  <2>3. step' \in 1..5
    BY <1>0, Restarts, Zenon DEF Parts, Scalars, Renames
  <2>4. faults' \in 0..MaxFaults
    BY <1>0, Unhurt, Hurt, Zenon DEF Parts, Scalars, Renames
  <2> QED
    BY <2>1, <2>2, <2>3, <2>4 DEF Scalars
<1>2. Flags'
  BY <1>l, <1>0, Zenon DEF Parts, Flags, Renames, Smooth, Goes
<1>3. FilesOK'
  BY <1>l, <1>0 DEF Parts, FilesOK, Renames, Smooth, Goes
<1>4. AuditInv'
  BY <1>l, <1>0 DEF Parts, AuditInv, FilesOK, Renames, Smooth, Goes
<1>5. CacheInv'
  BY <1>l, <1>0 DEF Parts, CacheInv, FilesOK, Renames, Smooth, Goes
<1>6. HistoryInv'
  BY <1>0 DEF Parts, HistoryInv, Splitting, Renames, Smooth, Goes
<1> QED
  BY <1>1, <1>2, <1>3, <1>4, <1>5, <1>6 DEF Parts

LEMMA KeepOpensCache == Parts /\ OpensCache => Parts'
<1>0. SUFFICES ASSUME Parts, OpensCache PROVE Parts'
  OBVIOUS
<1>l. indexed' = indexed /\ Legacy' = Legacy /\ Lacking' = Lacking
  BY <1>0, SameBridge, Zenon DEF Next, Opens
<1>a. bridge' = bridge /\ audit' = audit /\ at' = "migrating cache"
  BY <1>0 DEF OpensCache, Goes
<1>b. cache' = (IF cache.kind = "none" THEN Empty ELSE cache) /\ cache.kind \in {"none", "db"}
  BY <1>0 DEF Parts, FilesOK, Files, OpensCache, Opened
<1>c. cut' = cut /\ step' = 1
  BY <1>0, Restarts, Zenon DEF OpensCache, Smooth
<1>1. Scalars'
  <2>1. bridge' \in {"none", "whole", "incomplete", "aside", "backup", "deleted"}
    BY <1>0 DEF Parts, Scalars, OpensCache, Smooth, Goes, Opened
  <2>2. at' \in Phases
    BY <1>0, Kinds DEF Parts, Scalars, Phases, OpensCache, Smooth, Goes, Opened
  <2>3. step' \in 1..5
    BY <1>0, Restarts, Zenon DEF Parts, Scalars, OpensCache
  <2>4. faults' \in 0..MaxFaults
    BY <1>0, Unhurt, Hurt, Zenon DEF Parts, Scalars, OpensCache
  <2> QED
    BY <2>1, <2>2, <2>3, <2>4 DEF Scalars
<1>2. Flags'
  BY <1>l, <1>0, Zenon DEF Parts, Flags, OpensCache, Smooth, Goes, Opened
<1>3. FilesOK'
  BY <1>l, <1>0, <1>a, <1>b, Kinds DEF Parts, FilesOK
<1>4. AuditInv'
  BY <1>l, <1>0, Kinds DEF Parts, AuditInv, FilesOK, OpensCache, Smooth, Goes, Opened
<1>5. CacheInv'
  <2>1. CASE cache.kind = "none"
    <3>1. cache' = Empty
      BY <1>l, <1>b, <2>1
    <3>2. Migrating(cache, CacheScript, Lacking)'
      BY <1>l, <1>c, <3>1, LegacyFile, Kinds, Objects, Statements DEF Migrating, Ahead
    <3>3. cache'.version <= 4 /\ Created(CacheScript, cache'.version) \ Lacking \subseteq cache'.has
      BY <1>l, <3>1, LegacyFile, Kinds
    <3> QED
      BY <1>l, <1>a, <3>1, <3>2, <3>3, Objects DEF CacheInv
  <2>2. CASE cache.kind = "db"
    <3>1. cache' = cache
      BY <1>l, <1>b, <2>2
    <3>2. ~cut => cache.version <= 4 /\ Created(CacheScript, cache.version) \ Lacking \subseteq cache.has
      BY <1>l, <1>0, <2>2, Objects DEF Parts, CacheInv, OpensCache
    <3>3. cache.version \in 0..7
      BY <1>l, <1>0, FileFields DEF Parts, FilesOK
    <3>4. ~cut => Migrating(cache, CacheScript, Lacking)'
      BY <1>l, <1>c, <3>1, <3>2, <3>3, Objects, Statements DEF Migrating, Ahead
    <3> QED
      BY <1>l, <1>a, <1>c, <3>1, <3>2, <3>4, Objects DEF CacheInv
  <2> QED
    BY <1>l, <1>b, <2>1, <2>2
<1>6. HistoryInv'
  BY <1>0, Kinds DEF Parts, HistoryInv, Splitting, OpensCache, Smooth, Goes, Opened
<1> QED
  BY <1>1, <1>2, <1>3, <1>4, <1>5, <1>6 DEF Parts

LEMMA KeepCacheMigrated == Parts /\ CacheMigrated => Parts'
<1>0. SUFFICES ASSUME Parts, CacheMigrated PROVE Parts'
  OBVIOUS
<1>l. indexed' = indexed /\ Legacy' = Legacy /\ Lacking' = Lacking
  BY <1>0, SameBridge, Zenon DEF Next, Opens
<1>1. Scalars'
  <2>1. bridge' \in {"none", "whole", "incomplete", "aside", "backup", "deleted"}
    BY <1>0 DEF Parts, Scalars, CacheMigrated, Smooth, Goes, Ahead
  <2>2. at' \in Phases
    BY <1>0, Objects DEF Parts, Scalars, Phases, CacheMigrated, Smooth, Goes, Ahead
  <2>3. step' \in 1..5
    BY <1>0, Restarts, Zenon DEF Parts, Scalars, CacheMigrated
  <2>4. faults' \in 0..MaxFaults
    BY <1>0, Unhurt, Hurt, Zenon DEF Parts, Scalars, CacheMigrated
  <2> QED
    BY <2>1, <2>2, <2>3, <2>4 DEF Scalars
<1>2. Flags'
  BY <1>l, <1>0, Zenon DEF Parts, Flags, CacheMigrated, Smooth, Goes, Ahead
<1>3. FilesOK'
  BY <1>l, <1>0, Objects DEF Parts, FilesOK, CacheMigrated, Smooth, Goes, Ahead
<1>4. AuditInv'
  BY <1>l, <1>0, Objects DEF Parts, AuditInv, FilesOK, CacheMigrated, Smooth, Goes, Ahead
<1>5. CacheInv'
  <2>1. cache' = cache /\ at = "migrating cache" /\ at' = "opening audit" /\ cache.kind = "db"
    BY <1>l, <1>0 DEF Parts, FilesOK, CacheMigrated, Goes
  <2>0. cache.version \in 0..7
    BY <1>l, <1>0, FileFields DEF Parts, FilesOK
  <2>2. cache.version >= 4
    <3>1. ~Ahead(cache, CacheScript)
      BY <1>l, <1>0, Zenon DEF CacheMigrated
    <3> QED
      BY <1>l, <2>0, <3>1, Objects DEF Ahead
  <2>3. cut' = cut
    BY <1>l, <1>0, Zenon DEF CacheMigrated, Smooth
  <2> QED
    BY <1>l, <1>0, <2>1, <2>2, <2>3, Objects DEF Parts, CacheInv
<1>6. HistoryInv'
  BY <1>0, Objects DEF Parts, HistoryInv, Splitting, CacheMigrated, Smooth, Goes, Ahead
<1> QED
  BY <1>1, <1>2, <1>3, <1>4, <1>5, <1>6 DEF Parts

LEMMA KeepServes == Parts /\ Serves => Parts'
<1>0. SUFFICES ASSUME Parts, Serves PROVE Parts'
  OBVIOUS
<1>l. indexed' = indexed /\ Legacy' = Legacy /\ Lacking' = Lacking
  BY <1>0, SameBridge, Zenon DEF Next, Opens
<1>1. Scalars'
  <2>1. bridge' \in {"none", "whole", "incomplete", "aside", "backup", "deleted"}
    BY <1>0 DEF Parts, Scalars, Serves, Smooth, Goes, Ahead
  <2>2. at' \in Phases
    BY <1>0, Objects DEF Parts, Scalars, Phases, Serves, Smooth, Goes, Ahead
  <2>3. step' \in 1..5
    BY <1>0, Restarts, Zenon DEF Parts, Scalars, Serves
  <2>4. faults' \in 0..MaxFaults
    BY <1>0, Unhurt, Hurt, Zenon DEF Parts, Scalars, Serves
  <2> QED
    BY <2>1, <2>2, <2>3, <2>4 DEF Scalars
<1>2. Flags'
  BY <1>l, <1>0, Zenon DEF Parts, Flags, Serves, Smooth, Goes, Ahead
<1>3. FilesOK'
  BY <1>l, <1>0, Objects DEF Parts, FilesOK, Serves, Smooth, Goes, Ahead
<1>4. AuditInv'
  <2>1. audit' = audit /\ at' = "serving" /\ audit.kind = "db"
    BY <1>l, <1>0 DEF Parts, FilesOK, Serves, Goes
  <2>2. audit.version \in 0..7
    BY <1>l, <1>0, FileFields DEF Parts, FilesOK
  <2>4. audit.version = 7
    <3>1. ~Ahead(audit, AuditScript)
      BY <1>l, <1>0, Zenon DEF Serves
    <3> QED
      BY <1>l, <2>2, <3>1, Objects DEF Ahead
  <2>3. Sound(audit) /\ Migrating(audit, AuditScript, {})
    <3>1. ~Unpruned(audit)
      BY <1>l, <2>4 DEF Unpruned
    <3> QED
      BY <1>l, <1>0, <3>1, Zenon DEF Parts, AuditInv, Serves
  <2>5. audit.has = AuditObjects
    BY <1>l, <2>3, <2>4, Objects DEF Sound, Migrating, AuditObjects
  <2> QED
    BY <1>l, <2>1, <2>3, <2>5 DEF AuditInv
<1>5. CacheInv'
  BY <1>l, <1>0, Objects DEF Parts, CacheInv, FilesOK, Serves, Smooth, Goes, Ahead
<1>6. HistoryInv'
  BY <1>0, Objects DEF Parts, HistoryInv, Splitting, Serves, Smooth, Goes, Ahead
<1> QED
  BY <1>1, <1>2, <1>3, <1>4, <1>5, <1>6 DEF Parts

LEMMA KeepRenameFails == Parts /\ RenameFails => Parts'
<1>0. SUFFICES ASSUME Parts, RenameFails PROVE Parts'
  OBVIOUS
<1>l. indexed' = indexed /\ Legacy' = Legacy /\ Lacking' = Lacking
  BY <1>0, SameBridge, Zenon DEF Next, Opens
<1>1. Scalars'
  <2>1. bridge' \in {"none", "whole", "incomplete", "aside", "backup", "deleted"}
    BY <1>0 DEF Parts, Scalars, RenameFails, Smooth, Goes, Fault
  <2>2. at' \in Phases
    BY <1>0 DEF Parts, Scalars, Phases, RenameFails, Smooth, Goes, Fault
  <2>3. step' \in 1..5
    BY <1>0, Restarts, Zenon DEF Parts, Scalars, RenameFails
  <2>4. faults' \in 0..MaxFaults
    BY <1>0, Unhurt, Hurt, Zenon DEF Parts, Scalars, RenameFails
  <2> QED
    BY <2>1, <2>2, <2>3, <2>4 DEF Scalars
<1>2. Flags'
  BY <1>l, <1>0, Zenon DEF Parts, Flags, RenameFails, Smooth, Goes, Fault
<1>3. FilesOK'
  BY <1>l, <1>0 DEF Parts, FilesOK, RenameFails, Smooth, Goes, Fault
<1>4. AuditInv'
  BY <1>l, <1>0 DEF Parts, AuditInv, FilesOK, RenameFails, Smooth, Goes, Fault
<1>5. CacheInv'
  BY <1>l, <1>0 DEF Parts, CacheInv, FilesOK, RenameFails, Smooth, Goes, Fault
<1>6. HistoryInv'
  BY <1>0 DEF Parts, HistoryInv, Splitting, RenameFails, Smooth, Goes, Fault
<1> QED
  BY <1>1, <1>2, <1>3, <1>4, <1>5, <1>6 DEF Parts

LEMMA KeepCrashes == Parts /\ Crashes => Parts'
<1>0. SUFFICES ASSUME Parts, Crashes PROVE Parts'
  OBVIOUS
<1>l. indexed' = indexed /\ Legacy' = Legacy /\ Lacking' = Lacking
  BY <1>0, SameBridge, Zenon DEF Next, Opens
<1>1. Scalars'
  <2>1. bridge' \in {"none", "whole", "incomplete", "aside", "backup", "deleted"}
    BY <1>0 DEF Parts, Scalars, Crashes, Smooth, Goes, Fault, Halfway
  <2>2. at' \in Phases
    BY <1>0 DEF Parts, Scalars, Phases, Crashes, Smooth, Goes, Fault, Halfway
  <2>3. step' \in 1..5
    BY <1>0, Restarts, Zenon DEF Parts, Scalars, Crashes
  <2>4. faults' \in 0..MaxFaults
    BY <1>0, Unhurt, Hurt, Zenon DEF Parts, Scalars, Crashes
  <2> QED
    BY <2>1, <2>2, <2>3, <2>4 DEF Scalars
<1>2. Flags'
  BY <1>l, <1>0, Zenon DEF Parts, Flags, Crashes, Smooth, Goes, Fault, Halfway
<1>3. FilesOK'
  BY <1>l, <1>0 DEF Parts, FilesOK, Crashes, Smooth, Goes, Fault, Halfway
<1>4. AuditInv'
  BY <1>l, <1>0 DEF Parts, AuditInv, FilesOK, Crashes, Smooth, Goes, Fault, Halfway
<1>5. CacheInv'
  BY <1>l, <1>0, Kinds DEF Parts, CacheInv, FilesOK, Crashes, Goes, Splitting
<1>6. HistoryInv'
  BY <1>0 DEF Parts, HistoryInv, Splitting, Crashes, Smooth, Goes, Fault, Halfway
<1> QED
  BY <1>1, <1>2, <1>3, <1>4, <1>5, <1>6 DEF Parts

LEMMA KeepRefuses == Parts /\ Refuses => Parts'
<1>0. SUFFICES ASSUME Parts, Refuses PROVE Parts'
  OBVIOUS
<1>l. indexed' = indexed /\ Legacy' = Legacy /\ Lacking' = Lacking
  BY <1>0, SameBridge, Zenon DEF Next, Opens
<1>1. Scalars'
  <2>1. bridge' \in {"none", "whole", "incomplete", "aside", "backup", "deleted"}
    BY <1>0 DEF Parts, Scalars, Refuses, Smooth, Goes, Refused
  <2>2. at' \in Phases
    BY <1>0, Kinds DEF Parts, Scalars, Phases, Refuses, Smooth, Goes, Refused
  <2>3. step' \in 1..5
    BY <1>0, Restarts, Zenon DEF Parts, Scalars, Refuses
  <2>4. faults' \in 0..MaxFaults
    BY <1>0, Unhurt, Hurt, Zenon DEF Parts, Scalars, Refuses
  <2> QED
    BY <2>1, <2>2, <2>3, <2>4 DEF Scalars
<1>2. Flags'
  BY <1>l, <1>0, Zenon DEF Parts, Flags, Refuses, Smooth, Goes, Refused
<1>3. FilesOK'
  BY <1>l, <1>0, Kinds DEF Parts, FilesOK, Refuses, Smooth, Goes, Refused
<1>4. AuditInv'
  BY <1>l, <1>0, Kinds DEF Parts, AuditInv, FilesOK, Refuses, Smooth, Goes, Refused
<1>5. CacheInv'
  BY <1>l, <1>0, Kinds DEF Parts, CacheInv, FilesOK, Refuses, Smooth, Goes, Refused
<1>6. HistoryInv'
  BY <1>0, Kinds DEF Parts, HistoryInv, Splitting, Refuses, Smooth, Goes, Refused
<1> QED
  BY <1>1, <1>2, <1>3, <1>4, <1>5, <1>6 DEF Parts

LEMMA KeepFails == Parts /\ Fails => Parts'
<1>0. SUFFICES ASSUME Parts, Fails PROVE Parts'
  OBVIOUS
<1>l. indexed' = indexed /\ Legacy' = Legacy /\ Lacking' = Lacking
  BY <1>0, SameBridge, Zenon DEF Next, Opens
<1>p. PICK gone \in SUBSET CleanUp :
        /\ audit' = IF "audit" \in gone THEN None ELSE audit
        /\ cache' = IF "cache" \in gone THEN None ELSE cache
        /\ cut' = (cut \/ Halfway \/ gone # CleanUp)
  BY <1>0 DEF Fails
<1>a. bridge' = bridge /\ at' = "failed" /\ audit' \in {None, audit} /\ cache' \in {None, cache}
  BY <1>0, <1>p DEF Fails, Goes
<1>b. (cache' # None /\ ~cut') => cache' = cache /\ ~cut /\ "cache" \notin CleanUp
  BY <1>p
<1>1. Scalars'
  <2>1. bridge' \in {"none", "whole", "incomplete", "aside", "backup", "deleted"}
    BY <1>0 DEF Parts, Scalars, Fails, Smooth, Goes, Fault, Halfway, CleanUp, Refused
  <2>2. at' \in Phases
    BY <1>0, Kinds DEF Parts, Scalars, Phases, Fails, Smooth, Goes, Fault, Halfway, CleanUp, Refused
  <2>3. step' \in 1..5
    BY <1>0, Restarts, Zenon DEF Parts, Scalars, Fails
  <2>4. faults' \in 0..MaxFaults
    BY <1>0, Unhurt, Hurt, Zenon DEF Parts, Scalars, Fails
  <2> QED
    BY <2>1, <2>2, <2>3, <2>4 DEF Scalars
<1>2. Flags'
  BY <1>l, <1>0, Zenon DEF Parts, Flags, Fails, Smooth, Goes, Fault, Halfway, CleanUp, Refused
<1>3. FilesOK'
  BY <1>l, <1>0, <1>a, Kinds DEF Parts, FilesOK
<1>4. AuditInv'
  BY <1>l, <1>0, <1>a, Kinds DEF Parts, AuditInv
<1>5. CacheInv'
  <2>1. (cache' # None /\ ~cut') => at \notin {"copying cache", "pruning audit", "pruning cache"}
    BY <1>l, <1>b DEF CleanUp
  <2> QED
    BY <1>l, <1>0, <1>a, <1>b, <2>1, Kinds DEF Parts, CacheInv
<1>6. HistoryInv'
  BY <1>0, Kinds DEF Parts, HistoryInv, Splitting, Fails, Smooth, Goes, Fault, Halfway, CleanUp, Refused
<1> QED
  BY <1>1, <1>2, <1>3, <1>4, <1>5, <1>6 DEF Parts

LEMMA KeepCloseFails == Parts /\ CloseFails => Parts'
<1>0. SUFFICES ASSUME Parts, CloseFails PROVE Parts'
  OBVIOUS
<1>l. indexed' = indexed /\ Legacy' = Legacy /\ Lacking' = Lacking
  BY <1>0, SameBridge, Zenon DEF Next, Opens
<1>a. bridge' = bridge /\ at' = "failed"
  BY <1>0 DEF CloseFails, Goes
<1>b. \/ audit' = Legacy /\ cache' = cache
      \/ audit' = None /\ cache' = Legacy
  BY <1>0 DEF CloseFails
<1>c. cut'
  BY <1>0, Zenon DEF CloseFails
<1>1. Scalars'
  <2>1. bridge' \in {"none", "whole", "incomplete", "aside", "backup", "deleted"}
    BY <1>0 DEF Parts, Scalars, CloseFails, Smooth, Goes, Fault
  <2>2. at' \in Phases
    BY <1>0, Kinds DEF Parts, Scalars, Phases, CloseFails, Smooth, Goes, Fault
  <2>3. step' \in 1..5
    BY <1>0, Restarts, Zenon DEF Parts, Scalars, CloseFails
  <2>4. faults' \in 0..MaxFaults
    BY <1>0, Unhurt, Hurt, Zenon DEF Parts, Scalars, CloseFails
  <2> QED
    BY <2>1, <2>2, <2>3, <2>4 DEF Scalars
<1>2. Flags'
  BY <1>l, <1>0, Zenon DEF Parts, Flags, CloseFails, Smooth, Goes, Fault
<1>3. FilesOK'
  BY <1>l, <1>0, <1>a, <1>b, Kinds DEF Parts, FilesOK
<1>4. AuditInv'
  BY <1>l, <1>a, <1>b, LegacyFile, Kinds DEF AuditInv
<1>5. CacheInv'
  BY <1>l, <1>a, <1>b, <1>c DEF CacheInv
<1>6. HistoryInv'
  BY <1>0, Kinds DEF Parts, HistoryInv, Splitting, CloseFails, Smooth, Goes, Fault
<1> QED
  BY <1>1, <1>2, <1>3, <1>4, <1>5, <1>6 DEF Parts

LEMMA KeepRecords == Parts /\ Records => Parts'
<1>0. SUFFICES ASSUME Parts, Records PROVE Parts'
  OBVIOUS
<1>l. indexed' = indexed /\ Legacy' = Legacy /\ Lacking' = Lacking
  BY <1>0, SameBridge, Zenon DEF Next, Opens
<1>a. /\ audit' \in Files /\ audit'.kind = audit.kind /\ audit'.has = audit.has
      /\ audit'.version = audit.version /\ audit'.rows = audit.rows \cup {"new"}
  BY <1>0, RecordedFile DEF Parts, FilesOK, Records
<1>b. at' = at /\ at = "serving" /\ bridge' = bridge /\ cache' = cache /\ audit.kind = "db"
  BY <1>0 DEF Parts, FilesOK, Records
<1>1. Scalars'
  <2>1. bridge' \in {"none", "whole", "incomplete", "aside", "backup", "deleted"}
    BY <1>0 DEF Parts, Scalars, Records, Smooth, Goes
  <2>2. at' \in Phases
    BY <1>0 DEF Parts, Scalars, Phases, Records, Smooth, Goes
  <2>3. step' \in 1..5
    BY <1>0, Restarts, Zenon DEF Parts, Scalars, Records
  <2>4. faults' \in 0..MaxFaults
    BY <1>0, Unhurt, Hurt, Zenon DEF Parts, Scalars, Records
  <2> QED
    BY <2>1, <2>2, <2>3, <2>4 DEF Scalars
<1>2. Flags'
  BY <1>l, <1>0, Zenon DEF Parts, Flags, Records, Smooth, Goes
<1>3. FilesOK'
  BY <1>l, <1>0, <1>a, <1>b DEF Parts, FilesOK
<1>4. AuditInv'
  BY <1>l, <1>0, <1>a, <1>b DEF Parts, AuditInv, Sound, Unpruned
<1>5. CacheInv'
  BY <1>l, <1>0 DEF Parts, CacheInv, FilesOK, Records, Smooth, Goes
<1>6. HistoryInv'
  BY <1>0, <1>a, <1>b DEF Parts, HistoryInv, Splitting
<1> QED
  BY <1>1, <1>2, <1>3, <1>4, <1>5, <1>6 DEF Parts

LEMMA KeepStops == Parts /\ Stops => Parts'
<1>0. SUFFICES ASSUME Parts, Stops PROVE Parts'
  OBVIOUS
<1>l. indexed' = indexed /\ Legacy' = Legacy /\ Lacking' = Lacking
  BY <1>0, SameBridge, Zenon DEF Next, Opens
<1>1. Scalars'
  <2>1. bridge' \in {"none", "whole", "incomplete", "aside", "backup", "deleted"}
    BY <1>0 DEF Parts, Scalars, Stops, Smooth, Goes
  <2>2. at' \in Phases
    BY <1>0 DEF Parts, Scalars, Phases, Stops, Smooth, Goes
  <2>3. step' \in 1..5
    BY <1>0, Restarts, Zenon DEF Parts, Scalars, Stops
  <2>4. faults' \in 0..MaxFaults
    BY <1>0, Unhurt, Hurt, Zenon DEF Parts, Scalars, Stops
  <2> QED
    BY <2>1, <2>2, <2>3, <2>4 DEF Scalars
<1>2. Flags'
  BY <1>l, <1>0, Zenon DEF Parts, Flags, Stops, Smooth, Goes
<1>3. FilesOK'
  BY <1>l, <1>0 DEF Parts, FilesOK, Stops, Smooth, Goes
<1>4. AuditInv'
  BY <1>l, <1>0 DEF Parts, AuditInv, FilesOK, Stops, Smooth, Goes
<1>5. CacheInv'
  BY <1>l, <1>0 DEF Parts, CacheInv, FilesOK, Stops, Smooth, Goes
<1>6. HistoryInv'
  BY <1>0 DEF Parts, HistoryInv, Splitting, Stops, Smooth, Goes
<1> QED
  BY <1>1, <1>2, <1>3, <1>4, <1>5, <1>6 DEF Parts

LEMMA KeepWipesCache == Parts /\ WipesCache => Parts'
<1>0. SUFFICES ASSUME Parts, WipesCache PROVE Parts'
  OBVIOUS
<1>l. indexed' = indexed /\ Legacy' = Legacy /\ Lacking' = Lacking
  BY <1>0, SameBridge, Zenon DEF Next, Opens
<1>1. Scalars'
  <2>1. bridge' \in {"none", "whole", "incomplete", "aside", "backup", "deleted"}
    BY <1>0 DEF Parts, Scalars, WipesCache, Smooth, Goes, Idle
  <2>2. at' \in Phases
    BY <1>0, Kinds DEF Parts, Scalars, Phases, WipesCache, Smooth, Goes, Idle
  <2>3. step' \in 1..5
    BY <1>0, Restarts, Zenon DEF Parts, Scalars, WipesCache
  <2>4. faults' \in 0..MaxFaults
    BY <1>0, Unhurt, Hurt, Zenon DEF Parts, Scalars, WipesCache
  <2> QED
    BY <2>1, <2>2, <2>3, <2>4 DEF Scalars
<1>2. Flags'
  BY <1>l, <1>0, Zenon DEF Parts, Flags, WipesCache, Smooth, Goes, Idle
<1>3. FilesOK'
  BY <1>l, <1>0, Kinds DEF Parts, FilesOK, WipesCache, Smooth, Goes, Idle
<1>4. AuditInv'
  BY <1>l, <1>0, Kinds DEF Parts, AuditInv, FilesOK, WipesCache, Smooth, Goes, Idle
<1>5. CacheInv'
  BY <1>l, <1>0, Kinds DEF Parts, CacheInv, FilesOK, WipesCache, Smooth, Goes, Idle
<1>6. HistoryInv'
  BY <1>0, Kinds DEF Parts, HistoryInv, Splitting, WipesCache, Smooth, Goes, Idle
<1> QED
  BY <1>1, <1>2, <1>3, <1>4, <1>5, <1>6 DEF Parts

LEMMA KeepDeletesBackup == Parts /\ DeletesBackup => Parts'
<1>0. SUFFICES ASSUME Parts, DeletesBackup PROVE Parts'
  OBVIOUS
<1>l. indexed' = indexed /\ Legacy' = Legacy /\ Lacking' = Lacking
  BY <1>0, SameBridge, Zenon DEF Next, Opens
<1>1. Scalars'
  <2>1. bridge' \in {"none", "whole", "incomplete", "aside", "backup", "deleted"}
    BY <1>0 DEF Parts, Scalars, DeletesBackup, Smooth, Goes, Idle
  <2>2. at' \in Phases
    BY <1>0 DEF Parts, Scalars, Phases, DeletesBackup, Smooth, Goes, Idle
  <2>3. step' \in 1..5
    BY <1>0, Restarts, Zenon DEF Parts, Scalars, DeletesBackup
  <2>4. faults' \in 0..MaxFaults
    BY <1>0, Unhurt, Hurt, Zenon DEF Parts, Scalars, DeletesBackup
  <2> QED
    BY <2>1, <2>2, <2>3, <2>4 DEF Scalars
<1>2. Flags'
  BY <1>l, <1>0, Zenon DEF Parts, Flags, DeletesBackup, Smooth, Goes, Idle
<1>3. FilesOK'
  BY <1>l, <1>0 DEF Parts, FilesOK, DeletesBackup, Smooth, Goes, Idle
<1>4. AuditInv'
  BY <1>l, <1>0 DEF Parts, AuditInv, FilesOK, DeletesBackup, Smooth, Goes, Idle
<1>5. CacheInv'
  BY <1>l, <1>0 DEF Parts, CacheInv, FilesOK, DeletesBackup, Smooth, Goes, Idle
<1>6. HistoryInv'
  BY <1>0 DEF Parts, HistoryInv, Splitting, DeletesBackup, Smooth, Goes, Idle
<1> QED
  BY <1>1, <1>2, <1>3, <1>4, <1>5, <1>6 DEF Parts

LEMMA KeepRollsBack == Parts /\ RollsBack => Parts'
<1>0. SUFFICES ASSUME Parts, RollsBack PROVE Parts'
  OBVIOUS
<1>l. indexed' = indexed /\ Legacy' = Legacy /\ Lacking' = Lacking
  BY <1>0, SameBridge, Zenon DEF Next, Opens
<1>1. Scalars'
  <2>1. bridge' \in {"none", "whole", "incomplete", "aside", "backup", "deleted"}
    BY <1>0 DEF Parts, Scalars, RollsBack, Smooth, Goes, Idle
  <2>2. at' \in Phases
    BY <1>0, Kinds DEF Parts, Scalars, Phases, RollsBack, Smooth, Goes, Idle
  <2>3. step' \in 1..5
    BY <1>0, Restarts, Zenon DEF Parts, Scalars, RollsBack
  <2>4. faults' \in 0..MaxFaults
    BY <1>0, Unhurt, Hurt, Zenon DEF Parts, Scalars, RollsBack
  <2> QED
    BY <2>1, <2>2, <2>3, <2>4 DEF Scalars
<1>2. Flags'
  BY <1>l, <1>0, Zenon DEF Parts, Flags, RollsBack, Smooth, Goes, Idle
<1>3. FilesOK'
  BY <1>l, <1>0, Kinds DEF Parts, FilesOK, RollsBack, Smooth, Goes, Idle
<1>4. AuditInv'
  BY <1>l, <1>0, Kinds DEF Parts, AuditInv, FilesOK, RollsBack, Smooth, Goes, Idle
<1>5. CacheInv'
  BY <1>l, <1>0, Kinds DEF Parts, CacheInv, FilesOK, RollsBack, Smooth, Goes, Idle
<1>6. HistoryInv'
  BY <1>0, Kinds DEF Parts, HistoryInv, Splitting, RollsBack, Smooth, Goes, Idle
<1> QED
  BY <1>1, <1>2, <1>3, <1>4, <1>5, <1>6 DEF Parts

-----------------------------------------------------------------------------
(* The prunes.                                                              *)

\* The next statement of a prune, and the phase after the last one.
LEMMA PruneCounts ==
  ASSUME NEW drops, NEW to, PruneGoes(drops, to)
  PROVE  /\ step = Len(drops) + 2 => step' = 1
         /\ step # Len(drops) + 2 => step' = step + 1
BY Zenon DEF PruneGoes, Goes

LEMMA PrunePhase ==
  ASSUME NEW drops, NEW to, PruneGoes(drops, to)
  PROVE  /\ step = Len(drops) + 2 => at' = to
         /\ step # Len(drops) + 2 => at' = at
BY Zenon DEF PruneGoes, Goes

LEMMA KeepPrunesAudit == Parts /\ PrunesAudit => Parts'
<1>0. SUFFICES ASSUME Parts, PrunesAudit PROVE Parts'
  OBVIOUS
<1>l. indexed' = indexed /\ Legacy' = Legacy /\ Lacking' = Lacking
  BY <1>0, SameBridge, Zenon DEF Next, Opens
<1>z. at = "pruning audit" /\ bridge' = bridge /\ cache' = cache /\ cache.kind = "db"
  BY <1>0 DEF Parts, FilesOK, PrunesAudit
<1>a. /\ audit.kind = "db" /\ audit \in Files
      /\ audit' = Pruned(audit, DropsFromAudit, AuditPin, step)
  BY <1>0 DEF Parts, FilesOK, PrunesAudit
<1>b. step \in 1..5 /\ (step = 5 => step' = 1) /\ (step # 5 => step' = step + 1)
  <2>1. step \in 1..5
    BY <1>0, Zenon DEF Parts, Scalars
  <2>2. PruneGoes(DropsFromAudit, "pruning cache")
    BY <1>0, Zenon DEF PrunesAudit
  <2>3. (step = 5 => step' = 1) /\ (step # 5 => step' = step + 1)
    <3>1. Len(DropsFromAudit) + 2 = 5
      BY Drops
    <3> QED
      BY <2>2, <3>1, PruneCounts, Zenon
  <2> QED
    BY <2>1, <2>3, Zenon
<1>i. (step = 5 => at' = "pruning cache") /\ (step # 5 => at' = "pruning audit")
  <2>1. PruneGoes(DropsFromAudit, "pruning cache")
    BY <1>0, Zenon DEF PrunesAudit
  <2>2. Len(DropsFromAudit) + 2 = 5
    BY Drops
  <2>3. at = "pruning audit"
    BY <1>z
  <2> QED
    BY <2>1, <2>2, <2>3, PrunePhase, Zenon
<1>c. step <= 3 => audit' = Dropped(audit, DropsFromAudit[step])
  BY <1>a, <1>b, Drops DEF Pruned
<1>d. step = 4 => audit' = [audit EXCEPT !.version = 0]
  BY <1>a, Drops DEF Pruned
<1>e. step = 5 => audit' = [audit EXCEPT !.version = 3]
  BY <1>a, Drops DEF Pruned, AuditPin, AuditAtSplit
<1>f. /\ audit' \in Files /\ audit'.kind = "db" /\ audit'.rows = audit.rows
      /\ audit'.has \subseteq audit.has
  <2>1. CASE step <= 3
    <3>1. DropsFromAudit[step] # "checkins"
      BY <1>b, <2>1, Drops
    <3> QED
      BY <1>a, <1>c, <2>1, <3>1, DroppedFile
  <2>2. CASE step = 4
    BY <1>a, <1>d, <2>2, Objects DEF Files
  <2>3. CASE step = 5
    BY <1>a, <1>e, <2>3, Objects DEF Files
  <2> QED
    BY <1>b, <2>1, <2>2, <2>3
<1>h. at' \in {"pruning audit", "pruning cache"}
  BY <1>i, Zenon
<1>1. Scalars'
  <2>1. faults' \in 0..MaxFaults
    BY <1>0, Unhurt, Zenon DEF Parts, PrunesAudit
  <2>2. step' \in 1..5
    BY <1>b
  <2>3. at' \in Phases
    BY <1>h DEF Phases
  <2> QED
    BY <1>0, <1>z, <2>1, <2>2, <2>3, Zenon DEF Parts, Scalars
<1>2. Flags'
  BY <1>l, <1>0, Zenon DEF Parts, Flags, PrunesAudit, Smooth
<1>3. FilesOK'
  BY <1>l, <1>0, <1>z, <1>f, <1>h DEF Parts, FilesOK
<1>4. AuditInv'
  <2>0. AuditPruning
    BY <1>l, <1>0, <1>z DEF Parts, AuditInv
  <2>1. CASE step <= 3
    <3>1. /\ audit'.version = audit.version /\ DropsFromAudit[step] \notin audit'.has
          /\ DropsFromAudit[step] = "customers" => "badges" \notin audit'.has
      BY <1>l, <1>a, <1>c, <2>1, DroppedFile, ColumnsOf
    <3>2. Unpruned(audit) /\ \A i \in 1..3 : i < step => DropsFromAudit[i] \notin audit.has
      BY <1>l, <1>b, <2>0, <2>1 DEF AuditPruning
    <3>3. Unpruned(audit)'
      BY <1>l, <1>f, <3>1, <3>2 DEF Unpruned
    <3>4. step' = step + 1
      BY <1>l, <1>b, <2>1
    <3>5. AuditPruning'
      <4>1. \A i \in 1..3 : i < step' => DropsFromAudit[i] \notin audit'.has
        BY <1>l, <1>b, <1>f, <3>1, <3>2, <3>4
      <4>2. step' >= 4 => "badges" \notin audit'.has
        BY <1>l, <1>b, <2>1, <3>1, <3>4, Drops
      <4>3. step' # 5
        BY <1>l, <1>b, <2>1, <3>4
      <4> QED
        BY <1>l, <3>3, <4>1, <4>2, <4>3, Zenon DEF AuditPruning
    <3>6. step # 5
      BY <1>l, <2>1
    <3>7. at' = "pruning audit"
      BY <1>l, <1>i, <3>6, Zenon
    <3> QED
      BY <1>l, <3>3, <3>5, <3>7 DEF AuditInv
  <2>2. CASE step = 4
    <3>1. audit'.version = 0 /\ audit'.has = audit.has
      BY <1>l, <1>a, <1>d, <2>2, Objects DEF Files
    <3>2. /\ "badges" \notin audit.has /\ DropsFromAudit[1] \notin audit.has
          /\ DropsFromAudit[2] \notin audit.has /\ DropsFromAudit[3] \notin audit.has
      BY <1>l, <2>0, <2>2 DEF AuditPruning
    <3>3. audit.has \subseteq AuditObjects \cup CacheObjects
      BY <1>l, <1>a DEF Files
    <3>4. Sound(audit)'
      BY <1>l, <3>1, <3>2, <3>3, Drops, Objects DEF Sound
    <3>5. step' = 5
      BY <1>l, <1>b, <2>2
    <3>6. AuditPruning'
      BY <1>l, <3>1, <3>2, <3>4, <3>5, Drops DEF AuditPruning
    <3>7. step # 5
      BY <1>l, <2>2
    <3>8. at' = "pruning audit"
      BY <1>l, <1>i, <3>7, Zenon
    <3> QED
      BY <1>l, <3>4, <3>6, <3>8 DEF AuditInv
  <2>3. CASE step = 5
    <3>1. audit'.version = 3 /\ audit'.has = audit.has
      BY <1>l, <1>a, <1>e, <2>3, Objects DEF Files
    <3>2. Sound(audit)
      BY <1>l, <2>0, <2>3 DEF AuditPruning
    <3>3. Sound(audit)'
      BY <1>l, <3>1, <3>2 DEF Sound
    <3>4. at' = "pruning cache"
      BY <1>l, <1>i, <2>3
    <3> QED
      BY <1>l, <3>3, <3>4 DEF AuditInv
  <2> QED
    BY <1>l, <1>b, <2>1, <2>2, <2>3
<1>5. CacheInv'
  <2>1. Created(CacheScript, CacheAtSplit) \ Lacking \subseteq cache.has
    BY <1>l, <1>0, <1>z DEF Parts, CacheInv
  <2>2. CASE step = 5
    <3>1. cache' = cache
      BY <1>l, <1>z
    <3>2. CachePruning'
      BY <1>l, <1>b, <2>1, <2>2, <3>1 DEF CachePruning
    <3> QED
      BY <1>l, <1>i, <2>2, <3>2 DEF CacheInv
  <2>3. CASE step # 5
    BY <1>l, <1>z, <1>i, <2>1, <2>3 DEF CacheInv
  <2> QED
    BY <1>l, <2>2, <2>3
<1>6. HistoryInv'
  BY <1>0, <1>z, <1>f, <1>h DEF Parts, HistoryInv, Splitting
<1> QED
  BY <1>1, <1>2, <1>3, <1>4, <1>5, <1>6 DEF Parts

LEMMA KeepPrunesCache == Parts /\ PrunesCache => Parts'
<1>0. SUFFICES ASSUME Parts, PrunesCache PROVE Parts'
  OBVIOUS
<1>l. indexed' = indexed /\ Legacy' = Legacy /\ Lacking' = Lacking
  BY <1>0, SameBridge, Zenon DEF Next, Opens
<1>z. at = "pruning cache" /\ bridge' = bridge /\ audit' = audit
  BY <1>0 DEF Parts, FilesOK, PrunesCache
<1>a. /\ cache.kind = "db" /\ cache \in Files
      /\ cache' = Pruned(cache, DropsFromCache, CacheAtSplit, step)
  BY <1>0 DEF Parts, FilesOK, PrunesCache
<1>b. step \in 1..4 /\ (step = 4 => step' = 1) /\ (step # 4 => step' = step + 1)
  <2>0. step \in 1..5
    BY <1>0, Zenon DEF Parts, Scalars
  <2>1. CachePruning
    BY <1>0, <1>z DEF Parts, CacheInv
  <2>2. step \in 1..4
    BY <2>0, <2>1 DEF CachePruning
  <2>3. PruneGoes(DropsFromCache, "renaming")
    BY <1>0, Zenon DEF PrunesCache
  <2>4. (step = 4 => step' = 1) /\ (step # 4 => step' = step + 1)
    <3>1. Len(DropsFromCache) + 2 = 4
      BY Drops
    <3> QED
      BY <2>3, <3>1, PruneCounts, Zenon
  <2> QED
    BY <2>2, <2>4, Zenon
<1>j. (step = 4 => at' = "renaming") /\ (step # 4 => at' = "pruning cache")
  <2>1. PruneGoes(DropsFromCache, "renaming")
    BY <1>0, Zenon DEF PrunesCache
  <2>2. Len(DropsFromCache) + 2 = 4
    BY Drops
  <2>3. at = "pruning cache"
    BY <1>z
  <2> QED
    BY <2>1, <2>2, <2>3, PrunePhase, Zenon
<1>c. step <= 2 => cache' = Dropped(cache, DropsFromCache[step])
  BY <1>a, <1>b, Drops DEF Pruned
<1>d. step = 3 => cache' = [cache EXCEPT !.version = 0]
  BY <1>a, Drops DEF Pruned
<1>e. step = 4 => cache' = [cache EXCEPT !.version = 3]
  BY <1>a, Drops DEF Pruned, CacheAtSplit
<1>f. Created(CacheScript, CacheAtSplit) = {"customers", "members", "customers_fts"}
  <2>1. \A o : o \in Created(CacheScript, CacheAtSplit) <=> o \in {"customers", "members", "customers_fts"}
    BY CacheCreated DEF CacheAtSplit
  <2> QED
    BY <2>1
<1>g. {"customers", "members", "customers_fts"} \ Lacking \subseteq cache.has
  <2>1. CachePruning
    BY <1>0, <1>z DEF Parts, CacheInv
  <2> QED
    BY <1>f, <2>1 DEF CachePruning
<1>i. /\ cache' \in Files /\ cache'.kind = "db"
      /\ {"customers", "members", "customers_fts"} \ Lacking \subseteq cache'.has
  <2>1. CASE step <= 2
    <3>1. DropsFromCache[step] \in {"mappings", "checkins"}
      BY <1>b, <2>1, Drops
    <3> QED
      BY <1>a, <1>c, <1>g, <2>1, <3>1, DroppedFile, ColumnsOf
  <2>2. CASE step = 3
    BY <1>a, <1>d, <1>g, <2>2, Objects DEF Files
  <2>3. CASE step = 4
    BY <1>a, <1>e, <1>g, <2>3, Objects DEF Files
  <2> QED
    BY <1>b, <2>1, <2>2, <2>3
<1>h. at' \in {"pruning cache", "renaming"}
  BY <1>j, Zenon
<1>1. Scalars'
  <2>1. faults' \in 0..MaxFaults
    BY <1>0, Unhurt, Zenon DEF Parts, PrunesCache
  <2>2. step' \in 1..5
    BY <1>b
  <2>3. at' \in Phases
    BY <1>h DEF Phases
  <2> QED
    BY <1>0, <1>z, <2>1, <2>2, <2>3, Zenon DEF Parts, Scalars
<1>2. Flags'
  BY <1>l, <1>0, Zenon DEF Parts, Flags, PrunesCache, Smooth
<1>3. FilesOK'
  BY <1>l, <1>0, <1>z, <1>h, <1>i DEF Parts, FilesOK
<1>4. AuditInv'
  BY <1>l, <1>0, <1>z, <1>h DEF Parts, AuditInv
<1>5. CacheInv'
  <2>1. CASE step # 4
    <3>1. step' <= 4
      BY <1>l, <1>b, <2>1
    <3>2. step' = 4 => cache'.version = 0
      <4>1. step' = 4 => step = 3
        BY <1>l, <1>b, <2>1
      <4> QED
        BY <1>l, <1>a, <1>d, <4>1, Objects DEF Files
    <3>3. CachePruning'
      BY <1>l, <1>f, <1>i, <3>1, <3>2 DEF CachePruning
    <3> QED
      BY <1>l, <1>j, <2>1, <3>3 DEF CacheInv
  <2>2. CASE step = 4
    <3>1. cache'.version = 3
      BY <1>l, <1>a, <1>e, <2>2, Objects DEF Files
    <3>2. Created(CacheScript, 3) \ Lacking \subseteq cache'.has
      BY <1>l, <1>f, <1>i DEF CacheAtSplit
    <3>3. 3 <= Len(CacheScript)
      BY <1>l, Objects
    <3> QED
      BY <1>l, <1>j, <2>2, <3>1, <3>2, <3>3 DEF CacheInv
  <2> QED
    BY <1>l, <2>1, <2>2
<1>6. HistoryInv'
  BY <1>0, <1>z, <1>h DEF Parts, HistoryInv, Splitting
<1> QED
  BY <1>1, <1>2, <1>3, <1>4, <1>5, <1>6 DEF Parts

-----------------------------------------------------------------------------
(* The migrations.                                                          *)

\* The self-heal creates what the version says and the prunes kept.
LEMMA KeepOpensAudit == Parts /\ OpensAudit => Parts'
<1>0. SUFFICES ASSUME Parts, OpensAudit PROVE Parts'
  OBVIOUS
<1>l. indexed' = indexed /\ Legacy' = Legacy /\ Lacking' = Lacking
  BY <1>0, SameBridge, Zenon DEF Next, Opens
<1>z. bridge' = bridge /\ cache' = cache /\ at = "opening audit" /\ at' = "migrating audit"
  BY <1>0 DEF OpensAudit, Goes
<1>s. step' = 1
  BY <1>0, Restarts, Zenon DEF OpensAudit
<1>a. PICK file \in Files : /\ file.kind = "db" /\ audit' = Healed(file) /\ file.rows = audit.rows
                            /\ Unpruned(file) \/ Sound(file)
  <2>1. audit \in Files /\ audit.kind \in {"none", "db"} /\ audit' = Healed(Opened(audit))
    BY <1>0, FileFields DEF Parts, FilesOK, OpensAudit
  <2>2. CASE audit.kind = "none"
    <3>1. audit = None
      BY <1>0, <2>2, Kinds DEF Parts, FilesOK
    <3> QED
      BY <2>1, <2>2, <3>1, Kinds, LegacyFile DEF Opened
  <2>3. CASE audit.kind = "db"
    <3>1. Unpruned(audit) \/ Sound(audit)
      BY <1>0, <2>3 DEF Parts, AuditInv
    <3> QED
      BY <2>1, <2>3, <3>1 DEF Opened
  <2> QED
    BY <2>1, <2>2, <2>3
<1> DEFINE n == Least(4, file.version)
           more == Created(AuditScript, n)
<1>b. file.version \in 0..7 /\ n \in 0..4 /\ (file.version >= 4 => n = 4) /\ (file.version <= 4 => n = file.version)
  BY <1>a, FileFields DEF Least
<1>c. more \in SUBSET AuditObjects
  BY <1>b, AuditCreated, Objects
<1>d. /\ audit' \in Files /\ audit'.kind = "db" /\ audit'.version = file.version
      /\ audit'.has = file.has \cup more /\ audit'.rows = audit.rows
  BY <1>a, <1>c, GrownFile DEF Healed
<1>1. Scalars'
  <2>1. faults' \in 0..MaxFaults
    BY <1>0, Unhurt, Zenon DEF Parts, OpensAudit
  <2>2. step' \in 1..5
    BY <1>s
  <2>3. at' \in Phases
    BY <1>z DEF Phases
  <2> QED
    BY <1>0, <1>z, <2>1, <2>2, <2>3, Zenon DEF Parts, Scalars
<1>2. Flags'
  BY <1>l, <1>0, Zenon DEF Parts, Flags, OpensAudit, Smooth
<1>3. FilesOK'
  BY <1>l, <1>0, <1>z, <1>d DEF Parts, FilesOK
<1>4. AuditInv'
  <2>1. CASE Unpruned(file)
    <3>1. more \cap {"ua_name", "backfill"} = {}
      BY <1>l, <1>b, AuditCreated
    <3>2. Unpruned(audit)'
      BY <1>l, <1>d, <2>1, <3>1 DEF Unpruned
    <3>3. step' = 1 /\ step' <= (IF audit'.version = 5 THEN 2 ELSE 1)
      BY <1>s
    <3> QED
      BY <1>l, <1>z, <3>2, <3>3, Zenon DEF AuditInv
  <2>2. CASE Sound(file)
    <3>1. Sound(audit)'
      BY <1>l, <1>c, <1>d, <2>2 DEF Sound
    <3>2. Created(AuditScript, audit'.version) \subseteq audit'.has
      <4>1. ASSUME NEW o \in Created(AuditScript, file.version) PROVE o \in audit'.has
        <5>1. CASE file.version <= 4
          BY <1>l, <1>b, <1>d, <4>1, <5>1
        <5>2. CASE file.version > 4
          BY <1>l, <1>b, <1>d, <2>2, <4>1, <5>2, AuditCreated DEF Sound
        <5> QED
          BY <1>l, <1>b, <5>1, <5>2
      <4> QED
        BY <1>l, <1>d, <4>1
    <3>3. Migrating(audit, AuditScript, {})'
      <4>1. Ahead(audit, AuditScript)' => Len(AuditScript[audit'.version + 1]) \in 1..2
        BY <1>l, <1>b, <1>d, AuditStatement, Objects DEF Ahead
      <4> QED
        BY <1>l, <1>s, <3>2, <4>1 DEF Migrating
    <3> QED
      BY <1>l, <1>z, <3>1, <3>3, Zenon DEF AuditInv
  <2> QED
    BY <1>l, <1>a, <2>1, <2>2
<1>5. CacheInv'
  BY <1>l, <1>0, <1>z DEF Parts, CacheInv, OpensAudit, Smooth
<1>6. HistoryInv'
  BY <1>0, <1>z, <1>d DEF Parts, HistoryInv, Splitting
<1> QED
  BY <1>1, <1>2, <1>3, <1>4, <1>5, <1>6 DEF Parts

\* One statement or one record of a migration of cache.db.
LEMMA MigrateCacheStep ==
  ASSUME NEW file \in Files, CanMigrate(file, CacheScript), step \in 1..5
  PROVE  /\ Migrated(file, CacheScript) \in Files
         /\ Migrated(file, CacheScript).kind = file.kind
         /\ Recording(file, CacheScript) =>
              /\ Migrated(file, CacheScript).version = file.version + 1
              /\ Migrated(file, CacheScript).has = file.has
         /\ ~Recording(file, CacheScript) =>
              /\ Migrated(file, CacheScript).version = file.version
              /\ Migrated(file, CacheScript).has = file.has \cup {CacheScript[file.version + 1][1]}
              /\ step = 1
         /\ file.version \in 0..3
<1>1. file.version \in 0..3
  BY FileFields, Objects DEF CanMigrate, Ahead
<1>2. CASE Recording(file, CacheScript)
  BY <1>1, <1>2, Objects DEF Migrated, Files
<1>3. CASE ~Recording(file, CacheScript)
  <2>0. Len(CacheScript[file.version + 1]) = 1
    BY <1>1, CacheStatement
  <2>1. step = 1
    BY <1>3, <2>0 DEF Recording
  <2>2. CacheScript[file.version + 1][1] \in CacheObjects
    BY <1>1, CacheStatement
  <2>3. Migrated(file, CacheScript) = [file EXCEPT !.has = @ \cup {CacheScript[file.version + 1][1]}]
    BY <1>3, <2>1 DEF Migrated, Statement
  <2>4. {CacheScript[file.version + 1][1]} \in SUBSET (AuditObjects \cup CacheObjects)
    BY <2>2
  <2>5. /\ Migrated(file, CacheScript) \in Files
        /\ Migrated(file, CacheScript).kind = file.kind
        /\ Migrated(file, CacheScript).version = file.version
        /\ Migrated(file, CacheScript).has = file.has \cup {CacheScript[file.version + 1][1]}
    BY <2>3, <2>4 DEF Files
  <2> QED
    BY <1>1, <1>3, <2>1, <2>5
<1> QED
  BY <1>1, <1>2, <1>3

LEMMA KeepMigratesCache == Parts /\ MigratesCache => Parts'
<1>0. SUFFICES ASSUME Parts, MigratesCache PROVE Parts'
  OBVIOUS
<1>l. indexed' = indexed /\ Legacy' = Legacy /\ Lacking' = Lacking
  BY <1>0, SameBridge, Zenon DEF Next, Opens
<1>z. bridge' = bridge /\ audit' = audit /\ at = "migrating cache" /\ at' = "migrating cache"
  BY <1>0 DEF MigratesCache, MigrationGoes
<1>a. /\ cache \in Files /\ cache.kind = "db" /\ CanMigrate(cache, CacheScript)
      /\ cache' = Migrated(cache, CacheScript)
  BY <1>0 DEF Parts, FilesOK, MigratesCache
<1>s. step \in 1..5 /\ step' = IF Recording(cache, CacheScript) THEN 1 ELSE step + 1
  BY <1>0, Zenon DEF Parts, Scalars, MigratesCache, MigrationGoes
<1>c. cut' = cut
  BY <1>0, Zenon DEF MigratesCache, Smooth
<1>d. /\ cache' \in Files /\ cache'.kind = "db" /\ cache.version \in 0..3
      /\ Recording(cache, CacheScript) => cache'.version = cache.version + 1 /\ cache'.has = cache.has
      /\ ~Recording(cache, CacheScript) =>
           /\ cache'.version = cache.version
           /\ cache'.has = cache.has \cup {CacheScript[cache.version + 1][1]}
           /\ step = 1
  BY <1>a, <1>s, MigrateCacheStep
<1>1. Scalars'
  <2>1. faults' \in 0..MaxFaults
    BY <1>0, Unhurt, Zenon DEF Parts, MigratesCache
  <2>2. step' \in 1..5
    BY <1>s, <1>d
  <2> QED
    BY <1>0, <1>z, <2>1, <2>2, Zenon DEF Parts, Scalars
<1>2. Flags'
  BY <1>l, <1>0, Zenon DEF Parts, Flags, MigratesCache, Smooth
<1>3. FilesOK'
  BY <1>l, <1>0, <1>z, <1>d DEF Parts, FilesOK
<1>4. AuditInv'
  BY <1>l, <1>0, <1>z DEF Parts, AuditInv
<1>5. CacheInv'
  <2>1. ASSUME ~cut PROVE /\ cache'.version <= Len(CacheScript)
                          /\ Created(CacheScript, cache'.version) \ Lacking \subseteq cache'.has
                          /\ Migrating(cache, CacheScript, Lacking)'
    <3>1. /\ Created(CacheScript, cache.version) \ Lacking \subseteq cache.has
          /\ step <= Len(CacheScript[cache.version + 1]) + 1
          /\ \A i \in 1..(step - 1) : CacheScript[cache.version + 1][i] \in cache.has
      <4>1. Migrating(cache, CacheScript, Lacking)
        BY <1>l, <1>0, <1>z, <2>1 DEF Parts, CacheInv
      <4>2. Ahead(cache, CacheScript)
        BY <1>l, <1>a DEF CanMigrate
      <4> QED
        BY <1>l, <4>1, <4>2 DEF Migrating
    <3>2. Len(CacheScript[cache.version + 1]) = 1
      BY <1>l, <1>d, CacheStatement
    <3>3. Len(CacheScript) = 4
      BY <1>l, Objects
    <3>4. CASE Recording(cache, CacheScript)
      <4>1. step = 2
        BY <1>l, <1>s, <3>1, <3>2, <3>4 DEF Recording
      <4>2. CacheScript[cache.version + 1][1] \in cache.has
        BY <1>l, <3>1, <4>1
      <4>3. Created(CacheScript, cache.version + 1) \ Lacking \subseteq cache.has
        BY <1>l, <1>d, <3>1, <4>2, CreatedNext, CacheStatement
      <4>4. step' = 1
        BY <1>l, <1>s, <3>4
      <4>5. Ahead(cache, CacheScript)' => Len(CacheScript[cache'.version + 1]) = 1
        BY <1>l, <1>d, <3>3, <3>4, CacheStatement DEF Ahead
      <4> QED
        BY <1>l, <1>d, <3>3, <3>4, <4>3, <4>4, <4>5 DEF Migrating
    <3>5. CASE ~Recording(cache, CacheScript)
      <4>1. step' = 2
        BY <1>l, <1>s, <1>d, <3>5
      <4>2. /\ cache'.version = cache.version
            /\ cache'.has = cache.has \cup {CacheScript[cache.version + 1][1]}
        BY <1>l, <1>d, <3>5
      <4>3. \A i \in 1..(step' - 1) : CacheScript[cache'.version + 1][i] \in cache'.has
        BY <1>l, <4>1, <4>2
      <4>4. Created(CacheScript, cache'.version) \ Lacking \subseteq cache'.has
        BY <1>l, <3>1, <4>2
      <4>5. cache'.version <= Len(CacheScript)
        BY <1>l, <1>d, <3>3, <4>2
      <4> QED
        BY <1>l, <3>2, <4>1, <4>2, <4>3, <4>4, <4>5 DEF Migrating
    <3> QED
      BY <1>l, <3>4, <3>5
  <2> QED
    BY <1>l, <1>z, <1>c, <2>1 DEF CacheInv
<1>6. HistoryInv'
  BY <1>0, <1>z DEF Parts, HistoryInv, Splitting
<1> QED
  BY <1>1, <1>2, <1>3, <1>4, <1>5, <1>6 DEF Parts

\* The same of audit.db; a copy that was not pruned is not migrated.
LEMMA MigrateAuditStep ==
  ASSUME NEW file \in Files, CanMigrate(file, AuditScript), step \in 1..5
  PROVE  /\ Migrated(file, AuditScript) \in Files
         /\ Migrated(file, AuditScript).kind = file.kind
         /\ Migrated(file, AuditScript).rows = file.rows
         /\ Recording(file, AuditScript) =>
              /\ Migrated(file, AuditScript).version = file.version + 1
              /\ Migrated(file, AuditScript).has = file.has
         /\ ~Recording(file, AuditScript) =>
              /\ Migrated(file, AuditScript).version = file.version
              /\ Migrated(file, AuditScript).has = file.has \cup {AuditScript[file.version + 1][step]}
              /\ step \in 1..Len(AuditScript[file.version + 1])
              /\ AuditScript[file.version + 1][step] \in AuditObjects
         /\ file.version \in 0..6
<1>1. file.version \in 0..6
  BY FileFields, Objects DEF CanMigrate, Ahead
<1>2. CASE Recording(file, AuditScript)
  BY <1>1, <1>2, Objects DEF Migrated, Files
<1>3. CASE ~Recording(file, AuditScript)
  <2>0. Len(AuditScript[file.version + 1]) \in 1..2
    BY <1>1, AuditStatement
  <2>1. step \in 1..Len(AuditScript[file.version + 1])
    BY <1>3, <2>0 DEF Recording
  <2>2. AuditScript[file.version + 1][step] \in AuditObjects
    BY <1>1, <2>1, AuditStatement
  <2>3. Migrated(file, AuditScript) = [file EXCEPT !.has = @ \cup {AuditScript[file.version + 1][step]}]
    BY <1>3 DEF Migrated, Statement
  <2>4. {AuditScript[file.version + 1][step]} \in SUBSET (AuditObjects \cup CacheObjects)
    BY <2>2
  <2>5. /\ Migrated(file, AuditScript) \in Files
        /\ Migrated(file, AuditScript).kind = file.kind
        /\ Migrated(file, AuditScript).rows = file.rows
        /\ Migrated(file, AuditScript).version = file.version
        /\ Migrated(file, AuditScript).has = file.has \cup {AuditScript[file.version + 1][step]}
    BY <2>3, <2>4 DEF Files
  <2> QED
    BY <1>1, <1>3, <2>1, <2>2, <2>5, Zenon
<1> QED
  BY <1>1, <1>2, <1>3, Zenon

LEMMA UnprunedMoves ==
  ASSUME NEW file \in Files, CanMigrate(file, AuditScript), Unpruned(file),
         step \in 1..5, step <= (IF file.version = 5 THEN 2 ELSE 1)
  PROVE  /\ Unpruned(Migrated(file, AuditScript))
         /\ Recording(file, AuditScript) => Migrated(file, AuditScript).version = 6
         /\ ~Recording(file, AuditScript) => step = 1 /\ Migrated(file, AuditScript).version = 5
<1>1. /\ Len(AuditScript) = 7 /\ Len(AuditScript[6]) = 1 /\ AuditScript[6][1] = "ua_users"
      /\ Len(AuditScript[7]) = 1 /\ AuditScript[7][1] = "backfill"
  BY Statements, Objects
<1>2. file.version = 5
  <2>1. SUFFICES ASSUME file.version = 6 PROVE FALSE
    BY DEF Unpruned
  <2>2. ~Recording(file, AuditScript) /\ Statement(file, AuditScript) = "backfill"
    BY <1>1, <2>1 DEF Recording, Statement
  <2>3. "ua_name" \in Needs("backfill") /\ "ua_name" \notin file.has
    BY DEF Needs, Unpruned
  <2>4. ~Takes(file, Statement(file, AuditScript))
    BY <2>2, <2>3 DEF Takes
  <2> QED
    BY <2>2, <2>4, Zenon DEF CanMigrate, Blocked
<1>3. CASE Recording(file, AuditScript)
  <2>1. Migrated(file, AuditScript) = [file EXCEPT !.version = @ + 1]
    BY <1>3, Zenon DEF Migrated
  <2>2. Migrated(file, AuditScript).version = 6 /\ Migrated(file, AuditScript).has = file.has
    BY <1>2, <2>1 DEF Files
  <2> QED
    BY <1>3, <2>2 DEF Unpruned
<1>4. CASE ~Recording(file, AuditScript)
  <2>1. step = 1
    <3>1. file.version + 1 = 6
      BY <1>2
    <3>2. Len(AuditScript[file.version + 1]) = 1
      BY <1>1, <3>1, Zenon
    <3>3. ~(step > 1)
      BY <1>4, <3>2, Zenon DEF Recording
    <3> QED
      BY <3>3
  <2>2. Migrated(file, AuditScript) = [file EXCEPT !.has = @ \cup {"ua_users"}]
    BY <1>1, <1>2, <1>4, <2>1 DEF Migrated, Statement
  <2>3. Migrated(file, AuditScript).version = 5 /\ Migrated(file, AuditScript).has = file.has \cup {"ua_users"}
    BY <1>2, <2>2 DEF Files
  <2> QED
    BY <1>4, <2>1, <2>3 DEF Unpruned
<1> QED
  BY <1>3, <1>4, Zenon

LEMMA KeepMigratesAudit == Parts /\ MigratesAudit => Parts'
<1>0. SUFFICES ASSUME Parts, MigratesAudit PROVE Parts'
  OBVIOUS
<1>l. indexed' = indexed /\ Legacy' = Legacy /\ Lacking' = Lacking
  BY <1>0, SameBridge, Zenon DEF Next, Opens
<1>z. bridge' = bridge /\ cache' = cache /\ at = "migrating audit" /\ at' = "migrating audit"
  BY <1>0 DEF MigratesAudit, MigrationGoes
<1>a. /\ audit \in Files /\ audit.kind = "db" /\ CanMigrate(audit, AuditScript)
      /\ audit' = Migrated(audit, AuditScript)
  BY <1>0 DEF Parts, FilesOK, MigratesAudit
<1>s. step \in 1..5 /\ step' = IF Recording(audit, AuditScript) THEN 1 ELSE step + 1
  BY <1>0, Zenon DEF Parts, Scalars, MigratesAudit, MigrationGoes
<1>d. /\ audit' \in Files /\ audit'.kind = "db" /\ audit'.rows = audit.rows /\ audit.version \in 0..6
      /\ Recording(audit, AuditScript) => audit'.version = audit.version + 1 /\ audit'.has = audit.has
      /\ ~Recording(audit, AuditScript) =>
           /\ audit'.version = audit.version
           /\ audit'.has = audit.has \cup {AuditScript[audit.version + 1][step]}
           /\ step \in 1..Len(AuditScript[audit.version + 1])
           /\ AuditScript[audit.version + 1][step] \in AuditObjects
  BY <1>a, <1>s, MigrateAuditStep, Zenon
<1>e. \/ Unpruned(audit) /\ step <= (IF audit.version = 5 THEN 2 ELSE 1)
      \/ Sound(audit) /\ Migrating(audit, AuditScript, {})
  BY <1>0, <1>z, Zenon DEF Parts, AuditInv
<1>f. Len(AuditScript[audit.version + 1]) \in 1..2
  BY <1>d, AuditStatement
<1>1. Scalars'
  <2>1. faults' \in 0..MaxFaults
    BY <1>0, Unhurt, Zenon DEF Parts, MigratesAudit
  <2>2. step' \in 1..5
    BY <1>s, <1>d, <1>f
  <2> QED
    BY <1>0, <1>z, <2>1, <2>2, Zenon DEF Parts, Scalars
<1>2. Flags'
  BY <1>l, <1>0, Zenon DEF Parts, Flags, MigratesAudit, Smooth
<1>3. FilesOK'
  BY <1>l, <1>0, <1>z, <1>d DEF Parts, FilesOK
<1>4. ASSUME Unpruned(audit), step <= (IF audit.version = 5 THEN 2 ELSE 1) PROVE AuditInv'
  <2>1. /\ Unpruned(Migrated(audit, AuditScript))
        /\ Recording(audit, AuditScript) => Migrated(audit, AuditScript).version = 6
        /\ ~Recording(audit, AuditScript) => step = 1 /\ Migrated(audit, AuditScript).version = 5
    BY <1>4, <1>a, <1>s, UnprunedMoves
  <2>2. Unpruned(audit)' /\ step' <= (IF audit'.version = 5 THEN 2 ELSE 1)
    BY <1>a, <1>s, <2>1 DEF Unpruned
  <2> QED
    BY <1>z, <2>2, Zenon DEF AuditInv
<1>7. ASSUME Sound(audit), Migrating(audit, AuditScript, {}) PROVE AuditInv'
  <2>1. /\ Created(AuditScript, audit.version) \subseteq audit.has
        /\ step <= Len(AuditScript[audit.version + 1]) + 1
        /\ \A i \in 1..(step - 1) : AuditScript[audit.version + 1][i] \in audit.has
    <3>1. Ahead(audit, AuditScript)
      BY <1>l, <1>a DEF CanMigrate
    <3> QED
      BY <1>7, <3>1 DEF Migrating
  <2>2. Len(AuditScript) = 7
    BY <1>l, Objects
  <2>3. audit'.has \subseteq AuditObjects
    BY <1>7, <1>d DEF Sound
  <2>4. Created(AuditScript, audit'.version) \subseteq audit'.has
    <3>1. CASE Recording(audit, AuditScript)
      <4>1. step = Len(AuditScript[audit.version + 1]) + 1
        BY <1>l, <1>s, <1>f, <2>1, <3>1 DEF Recording
      <4>2. \A i \in 1..Len(AuditScript[audit.version + 1]) : AuditScript[audit.version + 1][i] \in audit.has
        BY <1>l, <1>f, <2>1, <4>1
      <4>3. ToSet(AuditScript[audit.version + 1]) \subseteq audit.has
        <5>1. ToSet(AuditScript[audit.version + 1]) =
                {AuditScript[audit.version + 1][i] : i \in 1..Len(AuditScript[audit.version + 1])}
          BY <1>l, <1>d, AuditStatement
        <5> QED
          BY <1>l, <4>2, <5>1
      <4>4. Created(AuditScript, audit.version + 1) \subseteq audit.has
        BY <1>l, <1>d, <2>1, <4>3, CreatedNext
      <4> QED
        BY <1>l, <1>d, <3>1, <4>4
    <3>2. CASE ~Recording(audit, AuditScript)
      BY <1>l, <1>d, <2>1, <3>2
    <3> QED
      BY <1>l, <3>1, <3>2
  <2>5. audit'.version \in 0..7
    BY <1>l, <1>d, FileFields
  <2>6. Sound(audit)'
    BY <1>l, <2>3, <2>4, <2>5, AuditCreated DEF Sound
  <2>7. Migrating(audit, AuditScript, {})'
    <3>1. CASE Recording(audit, AuditScript)
      <4>1. step' = 1
        BY <1>l, <1>s, <3>1
      <4>2. Ahead(audit, AuditScript)' => Len(AuditScript[audit'.version + 1]) \in 1..2
        BY <1>l, <2>2, <2>5, AuditStatement DEF Ahead
      <4> QED
        BY <1>l, <2>4, <4>1, <4>2 DEF Migrating
    <3>2. CASE ~Recording(audit, AuditScript)
      <4>1. /\ step' = step + 1 /\ audit'.version = audit.version
            /\ step \in 1..Len(AuditScript[audit.version + 1])
        BY <1>l, <1>s, <1>d, <3>2
      <4>2. \A i \in 1..(step' - 1) : AuditScript[audit'.version + 1][i] \in audit'.has
        BY <1>l, <1>d, <2>1, <3>2, <4>1
      <4>3. step' <= Len(AuditScript[audit'.version + 1]) + 1
        BY <1>l, <1>f, <4>1
      <4> QED
        BY <1>l, <2>4, <4>2, <4>3, Zenon DEF Migrating
    <3> QED
      BY <1>l, <3>1, <3>2
  <2> QED
    BY <1>z, <2>6, <2>7, Zenon DEF AuditInv
<1>8. AuditInv'
  BY <1>e, <1>4, <1>7, Zenon
<1>5. CacheInv'
  BY <1>l, <1>0, <1>z DEF Parts, CacheInv, MigratesAudit, Smooth
<1>6. HistoryInv'
  BY <1>0, <1>z, <1>d DEF Parts, HistoryInv, Splitting
<1> QED
  BY <1>1, <1>2, <1>3, <1>8, <1>5, <1>6 DEF Parts

\* The operations of the operator and a step in which nothing happens.
LEMMA KeepStutter == Parts /\ UNCHANGED vars => Parts'
<1>0. SUFFICES ASSUME Parts, UNCHANGED vars PROVE Parts'
  OBVIOUS
<1>l. indexed' = indexed /\ Legacy' = Legacy /\ Lacking' = Lacking
  BY <1>0, SameBridge, Zenon
<1>1. /\ bridge' = bridge /\ audit' = audit /\ cache' = cache /\ at' = at
      /\ step' = step /\ clean' = clean /\ cut' = cut /\ faults' = faults
  BY <1>0, Zenon DEF vars
<1>2. Scalars' /\ Flags'
  BY <1>l, <1>0, <1>1, Zenon DEF Parts, Scalars, Flags
<1>3. FilesOK'
  BY <1>l, <1>0, <1>1, Zenon DEF Parts, FilesOK
<1>4. AuditInv'
  BY <1>l, <1>0, <1>1, Zenon DEF Parts, AuditInv, AuditPruning, Migrating
<1>5. CacheInv'
  BY <1>l, <1>0, <1>1, Zenon DEF Parts, CacheInv, CachePruning, Migrating
<1>6. HistoryInv'
  BY <1>0, <1>1, Zenon DEF Parts, HistoryInv, Splitting
<1> QED
  BY <1>2, <1>3, <1>4, <1>5, <1>6, Zenon DEF Parts

-----------------------------------------------------------------------------
(* The theorems.                                                            *)

\* Parts is IInv with TypeOK taken apart.
LEMMA PartsNow == IInv <=> Parts
BY TypeParts, Zenon DEF IInv, Parts

LEMMA PartsNext == Parts' => IInv'
<1>1. 1..Len(DropsFromAudit) + 2 = 1..5
  BY Drops
<1>2. Scalars' /\ Flags' /\ FilesOK' => TypeOK'
  BY <1>1, Zenon DEF TypeOK, Scalars, Flags, FilesOK
<1> QED
  BY <1>2, Zenon DEF Parts, IInv

LEMMA PartsSteps == Parts /\ [Next]_vars => Parts'
BY KeepBoots, KeepSkipsSplit, KeepPutsAside, KeepStartsSplit, KeepCopiesAudit, KeepCreatesCache,
   KeepCopiesCache, KeepPrunesAudit, KeepPrunesCache, KeepRenames, KeepOpensCache,
   KeepMigratesCache, KeepCacheMigrated, KeepOpensAudit, KeepMigratesAudit, KeepServes,
   KeepRefuses, KeepFails, KeepCloseFails, KeepRenameFails, KeepCrashes, KeepRecords,
   KeepStops, KeepWipesCache, KeepDeletesBackup, KeepRollsBack, KeepStutter, Zenon
DEF Next, Opens

LEMMA IInvStep == IInv /\ [Next]_vars => IInv'
BY PartsSteps, PartsNow, PartsNext, Zenon

LEMMA Invariance == Spec => []IInv
<1> QED
  BY InitIInv, IInvStep, PTL DEF Spec

\* The variables have their types, and a file is there in the phases that
\* work on it.
THEOREM TypesOK == Spec => []TypeOK
<1>1. IInv => TypeOK
  BY Zenon DEF IInv
<1> QED
  BY <1>1, Invariance, PTL

\* Whatever failed or was killed before: an Open that succeeds has brought
\* audit.db to exactly its schema.  Unless something was cut off it has brought
\* cache.db to all of its own, but for the index that bridge.db never had.
THEOREM ServesItsSchema == Spec => []SchemaIsServed
<1>1. Parts => SchemaIsServed
  <2> SUFFICES ASSUME Parts, at = "serving"
               PROVE  audit.has = AuditObjects /\ (~cut => CacheObjects \ Lacking \subseteq cache.has)
    BY Zenon DEF SchemaIsServed
  <2>1. audit.has = AuditObjects
    BY DEF Parts, AuditInv
  <2>2. ASSUME ~cut PROVE CacheObjects \ Lacking \subseteq cache.has
    <3>1. /\ cache.kind = "db" /\ cache.version >= 4 /\ cache.version <= 4
          /\ Created(CacheScript, cache.version) \ Lacking \subseteq cache.has
      BY <2>2, Objects DEF Parts, CacheInv
    <3>2. cache.version = 4
      BY <3>1, FileFields DEF Parts, FilesOK
    <3>3. CacheObjects = Created(CacheScript, 4)
      BY Objects DEF CacheObjects
    <3> QED
      BY <3>1, <3>2, <3>3
  <2> QED
    BY <2>1, <2>2
<1>2. IInv => SchemaIsServed
  BY <1>1, PartsNow, Zenon
<1> QED
  BY <1>2, Invariance, PTL

\* What a step may do to the history: bridge.db still has everything that
\* audit.db loses, or audit.db loses nothing and has what bridge.db takes along.
FromBridge == bridge = "whole" /\ bridge' = "whole" /\ "new" \notin audit.rows

Stays ==
  /\ audit.rows \subseteq audit'.rows
  /\ \/ bridge' = bridge
     \/ bridge' \in {"aside", "backup"}
     \/ "old" \in audit.rows

LEMMA HeldStays == ASSUME Parts, FromBridge \/ Stays PROVE \A r \in Held : r \in Held'
<1>1. CASE FromBridge
  <2>1. audit.rows \subseteq {"old", "new"}
    BY DEF Parts, FilesOK, Files
  <2> QED
    BY <1>1, <2>1 DEF FromBridge, Held
<1>2. CASE Stays
  BY <1>2 DEF Stays, Held
<1> QED
  BY <1>1, <1>2

LEMMA SplittingKeeps == Parts /\ Splitting /\ bridge' = bridge => FromBridge
BY DEF Parts, HistoryInv, FromBridge

LEMMA RowsStay ==
  ASSUME Parts, OpensAudit \/ MigratesAudit PROVE audit.rows \subseteq audit'.rows /\ bridge' = bridge
<1>1. audit \in Files /\ (audit.kind # "db" => audit \in {None, Torn})
  BY DEF Parts, FilesOK
<1>2. CASE OpensAudit
  <2>1. Opened(audit) \in Files /\ audit.rows \subseteq Opened(audit).rows
    <3>1. CASE audit.kind = "none"
      <4>1. audit.rows = {}
        BY <1>1, <3>1, Kinds
      <4> QED
        BY <3>1, <4>1, Kinds DEF Opened
    <3>2. CASE audit.kind # "none"
      BY <1>1, <3>2 DEF Opened
    <3> QED
      BY <3>1, <3>2
  <2>2. Healed(Opened(audit)).rows = Opened(audit).rows
    BY <2>1 DEF Healed, Files
  <2> QED
    BY <1>2, <2>1, <2>2 DEF OpensAudit
<1>3. CASE MigratesAudit
  <2>1. Migrated(audit, AuditScript).rows = audit.rows
    <3>1. CASE Recording(audit, AuditScript)
      BY <1>1, <3>1 DEF Migrated, Files
    <3>2. CASE ~Recording(audit, AuditScript)
      BY <1>1, <3>2 DEF Migrated, Files
    <3> QED
      BY <3>1, <3>2
  <2> QED
    BY <1>3, <2>1 DEF MigratesAudit
<1> QED
  BY <1>2, <1>3

\* Deleting audit.db leaves the rows of bridge.db, and no others.
LEMMA RolledBack == RollsBack => "old" \in Held'
BY DEF RollsBack, Held

LEMMA HistoryStep ==
  Parts /\ [Next]_vars =>
    /\ "old" \in Held => "old" \in Held'
    /\ "new" \in Held => "new" \in Held' \/ RollsBack
<1>1. ASSUME Parts, [Next]_vars PROVE FromBridge \/ Stays \/ RollsBack
  <2>1. ASSUME audit' = audit, bridge' = bridge PROVE Stays
    BY <2>1 DEF Stays
  <2>2. CASE UNCHANGED vars \/ Boots \/ SkipsSplit \/ StartsSplit \/ CreatesCache \/ CopiesCache \/ PrunesCache
    BY <2>1, <2>2 DEF vars, Boots, SkipsSplit, StartsSplit, CreatesCache, CopiesCache, PrunesCache
  <2>3. CASE OpensCache \/ MigratesCache \/ CacheMigrated \/ Serves \/ RenameFails \/ Crashes \/ Stops \/ WipesCache
    BY <2>1, <2>3 DEF OpensCache, MigratesCache, CacheMigrated, Serves, RenameFails, Crashes, Stops, WipesCache
  <2>4. CASE PutsAside \/ Renames \/ DeletesBackup
    BY <1>1, <2>4 DEF Parts, HistoryInv, PutsAside, Renames, DeletesBackup, Stays
  <2>5. CASE CopiesAudit \/ PrunesAudit \/ CloseFails
    <3>1. Splitting /\ bridge' = bridge
      BY <2>5 DEF CopiesAudit, PrunesAudit, CloseFails, Splitting
    <3> QED
      BY <1>1, <3>1, SplittingKeeps, Zenon
  <2>6. CASE OpensAudit \/ MigratesAudit
    BY <1>1, <2>6, RowsStay, Zenon DEF Stays
  <2>7. CASE Records
    BY <1>1, <2>7 DEF Parts, FilesOK, Files, Records, Stays
  <2>8. CASE Refuses
    <3>1. at = "creating cache" => Splitting
      BY DEF Splitting
    <3> QED
      BY <1>1, <2>1, <2>8, <3>1, SplittingKeeps DEF Refuses
  <2>9. CASE Fails
    <3>1. CASE Splitting
      BY <1>1, <2>9, <3>1, SplittingKeeps DEF Fails
    <3>2. CASE ~Splitting
      <4>1. CleanUp = {}
        BY <3>2 DEF CleanUp, Splitting
      <4>2. audit' = audit /\ bridge' = bridge
        BY <2>9, <4>1 DEF Fails
      <4> QED
        BY <2>1, <4>2
    <3> QED
      BY <3>1, <3>2
  <2> QED
    BY <1>1, <2>2, <2>3, <2>4, <2>5, <2>6, <2>7, <2>8, <2>9, Zenon DEF Next, Opens
<1> QED
  BY <1>1, HeldStays, RolledBack, Zenon

\* No step of a boot, no fault and nothing the operator does loses a row of
\* bridge.db's history, and only a rollback loses what was recorded since.
THEOREM KeepsTheHistory == Spec => HistoryIsKept
<1>1. IInv /\ [Next]_vars =>
       [/\ "old" \in Held => "old" \in Held'
        /\ "new" \in Held => "new" \in Held' \/ RollsBack]_vars
  BY PartsNow, HistoryStep, Zenon
<1> QED
  BY <1>1, Invariance, PTL DEF Spec, HistoryIsKept

-----------------------------------------------------------------------------
(* What every boot leaves in order.                                         *)

LEMMA FreshAudit ==
  ASSUME NEW file \in Files, NEW run \in Nat
  PROVE  Fresh(file, AuditScript, run) <=>
           /\ "unifi_result" \in file.has => file.version >= 2 \/ (file.version = 1 /\ 1 <= run)
           /\ "unifi_log_id" \in file.has => file.version >= 4 \/ (file.version = 3 /\ 1 <= run)
           /\ "ua_name" \in file.has => file.version >= 5 \/ (file.version = 4 /\ 1 <= run)
           /\ "ua_email" \in file.has => file.version >= 5 \/ (file.version = 4 /\ 2 <= run)
<1> DEFINE P(n, i) == AuditScript[n][i] \in Columns \cap file.has =>
                        file.version >= n \/ (file.version = n - 1 /\ i <= run)
<1>1. Fresh(file, AuditScript, run) <=> \A n \in 1..7 : \A i \in 1..Len(AuditScript[n]) : P(n, i)
  BY Objects DEF Fresh
<1>2. \A n \in 1..7 : n # 5 => (\A i \in 1..Len(AuditScript[n]) : P(n, i)) <=> P(n, 1)
  <2>1. \A n \in 1..7 : n # 5 => Len(AuditScript[n]) = 1
    BY Statements
  <2>2. 1..1 = {1}
    OBVIOUS
  <2> HIDE DEF P
  <2> QED
    BY <2>1, <2>2
<1>3. (\A i \in 1..Len(AuditScript[5]) : P(5, i)) <=> P(5, 1) /\ P(5, 2)
  <2>1. Len(AuditScript[5]) = 2 /\ 1..2 = {1, 2}
    BY Statements
  <2> HIDE DEF P
  <2> QED
    BY <2>1
<1>4. 1..7 = {1, 2, 3, 4, 5, 6, 7}
  OBVIOUS
<1>5. Fresh(file, AuditScript, run) <=>
        P(1, 1) /\ P(2, 1) /\ P(3, 1) /\ P(4, 1) /\ P(5, 1) /\ P(5, 2) /\ P(6, 1) /\ P(7, 1)
  <2> HIDE DEF P
  <2> QED
    BY <1>1, <1>2, <1>3, <1>4
<1>6. P(1, 1) /\ P(3, 1) /\ P(6, 1) /\ P(7, 1)
  BY Statements DEF Columns
<1>7. /\ P(2, 1) <=> ("unifi_result" \in file.has => file.version >= 2 \/ (file.version = 1 /\ 1 <= run))
      /\ P(4, 1) <=> ("unifi_log_id" \in file.has => file.version >= 4 \/ (file.version = 3 /\ 1 <= run))
      /\ P(5, 1) <=> ("ua_name" \in file.has => file.version >= 5 \/ (file.version = 4 /\ 1 <= run))
      /\ P(5, 2) <=> ("ua_email" \in file.has => file.version >= 5 \/ (file.version = 4 /\ 2 <= run))
  BY Statements DEF Columns
<1> HIDE DEF P
<1> QED
  BY <1>5, <1>6, <1>7, Zenon

LEMMA FreshCache ==
  ASSUME NEW file \in Files, NEW run \in Nat
  PROVE  Fresh(file, CacheScript, run) <=>
           ("badges" \in file.has => file.version >= 4 \/ (file.version = 3 /\ 1 <= run))
<1> DEFINE P(n, i) == CacheScript[n][i] \in Columns \cap file.has =>
                        file.version >= n \/ (file.version = n - 1 /\ i <= run)
<1>1. Fresh(file, CacheScript, run) <=> \A n \in 1..4 : \A i \in 1..Len(CacheScript[n]) : P(n, i)
  BY Objects DEF Fresh
<1>2. \A n \in 1..4 : (\A i \in 1..Len(CacheScript[n]) : P(n, i)) <=> P(n, 1)
  <2>1. \A n \in 1..4 : Len(CacheScript[n]) = 1
    BY Statements
  <2>2. 1..1 = {1}
    OBVIOUS
  <2> HIDE DEF P
  <2> QED
    BY <2>1, <2>2
<1>4. 1..4 = {1, 2, 3, 4}
  OBVIOUS
<1>5. Fresh(file, CacheScript, run) <=> P(1, 1) /\ P(2, 1) /\ P(3, 1) /\ P(4, 1)
  <2> HIDE DEF P
  <2> QED
    BY <1>1, <1>2, <1>4
<1>6. P(1, 1) /\ P(2, 1) /\ P(3, 1)
  BY Statements DEF Columns
<1>7. P(4, 1) <=> ("badges" \in file.has => file.version >= 4 \/ (file.version = 3 /\ 1 <= run))
  BY Statements DEF Columns
<1> HIDE DEF P
<1> QED
  BY <1>5, <1>6, <1>7, Zenon

LEMMA RunOf ==
  ASSUME NEW phase, Scalars
  PROVE  Run(phase) \in Nat /\ 0 <= Run(phase) /\ (at # phase \/ step = 1 => Run(phase) = 0)
BY DEF Run, Scalars

LEMMA RunNext ==
  ASSUME NEW phase, Scalars'
  PROVE  Run(phase)' \in Nat /\ 0 <= Run(phase)' /\ (at' # phase \/ step' = 1 => Run(phase)' = 0)
<1>1. Run(phase)' = IF at' = phase THEN step' - 1 ELSE 0
  BY Zenon DEF Run
<1>2. step' \in 1..5
  BY Zenon DEF Scalars
<1>3. \A s \in 1..5 : s - 1 \in Nat /\ 0 <= s - 1
  OBVIOUS
<1>4. 0 \in Nat /\ 0 <= 0 /\ 1 - 1 = 0
  OBVIOUS
<1> QED
  BY <1>1, <1>2, <1>3, <1>4, Zenon

LEMMA ZeroIsNat == 0 \in Nat
OBVIOUS

\* A file without objects, and a file whose migrations have all run.
LEMMA FreshEnds ==
  ASSUME NEW file \in Files, NEW run \in Nat
  PROVE  /\ file.has = {} => Fresh(file, AuditScript, run) /\ Fresh(file, CacheScript, run)
         /\ ~Ahead(file, AuditScript) => Fresh(file, AuditScript, run)
         /\ ~Ahead(file, CacheScript) => Fresh(file, CacheScript, run)
<1>1. file.version \in 0..7
  BY FileFields
<1> QED
  BY <1>1, FreshAudit, FreshCache, Objects DEF Ahead

\* OrderInv, part by part.
LateColumns == at = "pruning audit" => audit.has \cap {"unifi_log_id", "ua_name", "ua_email"} = {}
NoBadges == at \in {"pruning audit", "pruning cache"} => "badges" \notin cache.has
SplitIsOver == at = "opening cache" => bridge # "whole" \/ audit.kind # "none"
WayIsFree ==
  ~cut /\ bridge = "whole" /\ (audit.kind = "none" \/ at \in {"copying audit", "creating cache"})
    => cache.kind = "none"
NoneTorn ==
  ~cut => /\ at # "copying audit" => audit.kind # "torn"
          /\ at # "copying cache" => cache.kind # "torn"
AuditOrder ==
  ~cut /\ audit.kind = "db" /\ at \notin {"copying audit", "creating cache", "copying cache", "pruning audit"}
    => Sound(audit) /\ Fresh(audit, AuditScript, Run("migrating audit"))
CacheOrder ==
  ~cut /\ at \notin {"copying cache", "pruning audit", "pruning cache"}
    => Fresh(cache, CacheScript, Run("migrating cache"))

Order == LateColumns /\ NoBadges /\ SplitIsOver /\ WayIsFree /\ NoneTorn /\ AuditOrder /\ CacheOrder

LEMMA OrderNow == OrderInv <=> Order
BY Zenon DEF OrderInv, Order, LateColumns, NoBadges, SplitIsOver, WayIsFree, NoneTorn, AuditOrder, CacheOrder

LEMMA OrderNext == OrderInv' <=> Order'
BY Zenon DEF OrderInv, Order, LateColumns, NoBadges, SplitIsOver, WayIsFree, NoneTorn, AuditOrder, CacheOrder

\* The database takes the next statement of a file that is in order.
LEMMA AuditTakes ==
  ASSUME NEW file \in Files, step \in 1..5, Migrating(file, AuditScript, {}),
         Fresh(file, AuditScript, step - 1)
  PROVE  ~Blocked(file, AuditScript)
<1> SUFFICES ASSUME Ahead(file, AuditScript), ~Recording(file, AuditScript)
             PROVE  Takes(file, Statement(file, AuditScript))
  BY Zenon DEF Blocked
<1>1. file.version \in 0..6
  BY FileFields, Objects DEF Ahead
<1>2. step \in 1..Len(AuditScript[file.version + 1])
  <2>1. Len(AuditScript[file.version + 1]) \in 1..2
    BY <1>1, AuditStatement
  <2> QED
    BY <2>1 DEF Recording
<1>3. Statement(file, AuditScript) = AuditScript[file.version + 1][step]
  BY DEF Statement
<1>4. /\ \A o : o \in Created(AuditScript, file.version) => o \in file.has
      /\ \A i \in 1..(step - 1) : AuditScript[file.version + 1][i] \in file.has
  BY DEF Migrating
<1>5. /\ file.version >= 1 => "checkins" \in file.has
      /\ file.version >= 3 => "mappings" \in file.has
      /\ file.version >= 5 => {"ua_name", "ua_email"} \subseteq file.has
      /\ file.version >= 6 => "ua_users" \in file.has
  BY <1>1, <1>4, AuditCreated
<1>6. /\ "unifi_result" \in file.has => file.version >= 2 \/ (file.version = 1 /\ 1 <= step - 1)
      /\ "unifi_log_id" \in file.has => file.version >= 4 \/ (file.version = 3 /\ 1 <= step - 1)
      /\ "ua_name" \in file.has => file.version >= 5 \/ (file.version = 4 /\ 1 <= step - 1)
      /\ "ua_email" \in file.has => file.version >= 5 \/ (file.version = 4 /\ 2 <= step - 1)
  <2>1. step - 1 \in Nat
    OBVIOUS
  <2> QED
    BY <2>1, FreshAudit, Zenon
<1>7. \/ file.version = 0 /\ Statement(file, AuditScript) = "checkins"
      \/ file.version = 1 /\ step = 1 /\ Statement(file, AuditScript) = "unifi_result"
      \/ file.version = 2 /\ Statement(file, AuditScript) = "mappings"
      \/ file.version = 3 /\ step = 1 /\ Statement(file, AuditScript) = "unifi_log_id"
      \/ file.version = 4 /\ step = 1 /\ Statement(file, AuditScript) = "ua_name"
      \/ file.version = 4 /\ step = 2 /\ Statement(file, AuditScript) = "ua_email"
      \/ file.version = 5 /\ Statement(file, AuditScript) = "ua_users"
      \/ file.version = 6 /\ Statement(file, AuditScript) = "backfill"
  <2>1. \A n \in 0..6 : n # 4 => Len(AuditScript[n + 1]) = 1
    BY Statements
  <2>2. Len(AuditScript[5]) = 2
    BY Statements
  <2>3. CASE file.version = 4
    <3>1. step \in {1, 2}
      <4>1. Len(AuditScript[file.version + 1]) = 2
        BY <2>2, <2>3
      <4> QED
        BY <1>2, <4>1
    <3> QED
      BY <1>3, <2>3, <3>1, Statements
  <2>4. CASE file.version # 4
    <3>1. step = 1
      <4>1. Len(AuditScript[file.version + 1]) = 1
        BY <1>1, <2>1, <2>4
      <4> QED
        BY <1>2, <4>1
    <3>2. Statement(file, AuditScript) = AuditScript[file.version + 1][1]
      BY <1>3, <3>1
    <3>3. file.version \in {0, 1, 2, 3, 5, 6}
      BY <1>1, <2>4
    <3> QED
      BY <3>1, <3>2, <3>3, Statements
  <2> QED
    BY <2>3, <2>4
<1>8. CASE file.version \in {1, 3}
  BY <1>5, <1>6, <1>7, <1>8 DEF Takes, Needs, Columns
<1>9. CASE file.version = 4
  BY <1>5, <1>6, <1>7, <1>9 DEF Takes, Needs, Columns
<1>10. CASE file.version \in {0, 2, 5, 6}
  BY <1>5, <1>7, <1>10 DEF Takes, Needs, Columns
<1> QED
  BY <1>1, <1>8, <1>9, <1>10

LEMMA CacheTakes ==
  ASSUME NEW file \in Files, step \in 1..5, Migrating(file, CacheScript, Lacking),
         Fresh(file, CacheScript, step - 1)
  PROVE  ~Blocked(file, CacheScript)
<1> SUFFICES ASSUME Ahead(file, CacheScript), ~Recording(file, CacheScript)
             PROVE  Takes(file, Statement(file, CacheScript))
  BY Zenon DEF Blocked
<1>1. file.version \in 0..3
  BY FileFields, Objects DEF Ahead
<1>2. step = 1
  <2>1. Len(CacheScript[file.version + 1]) = 1
    BY <1>1, CacheStatement
  <2> QED
    BY <2>1 DEF Recording
<1>3. Statement(file, CacheScript) = CacheScript[file.version + 1][1]
  BY <1>2 DEF Statement
<1>5. file.version >= 1 => "customers" \in file.has
  <2>1. \A o : o \in Created(CacheScript, file.version) => o \in file.has \/ o = "customers_fts"
    BY DEF Migrating, Lacking
  <2>2. file.version \in 0..4
    BY <1>1
  <2> QED
    BY <2>1, <2>2, CacheCreated
<1>6. "badges" \in file.has => file.version >= 4
  BY <1>2, FreshCache
<1>7. \/ file.version = 0 /\ Statement(file, CacheScript) = "customers"
      \/ file.version = 1 /\ Statement(file, CacheScript) = "members"
      \/ file.version = 2 /\ Statement(file, CacheScript) = "customers_fts"
      \/ file.version = 3 /\ Statement(file, CacheScript) = "badges"
  BY <1>1, <1>3, Statements
<1> QED
  BY <1>5, <1>6, <1>7 DEF Takes, Needs, Columns

\* Nothing that a boot finds in order refuses it: only what was cut off does.
LEMMA RefusedMeansCut == Parts /\ Order /\ Refused => cut
<1> SUFFICES ASSUME Parts, Order, ~cut PROVE ~Refused
  BY Zenon
<1>0. audit \in Files /\ cache \in Files /\ step \in 1..5 /\ step - 1 \in Nat
  <2>1. audit \in Files /\ cache \in Files /\ step \in 1..5
    BY Zenon DEF Parts, FilesOK, Scalars
  <2> QED
    BY <2>1
<1>1. at = "creating cache" => cache.kind = "none"
  <2>1. at = "creating cache" => bridge = "whole"
    BY Zenon DEF Parts, HistoryInv, Splitting
  <2> QED
    BY <2>1, Zenon DEF Order, WayIsFree
<1>2. ~(at = "opening cache" /\ cache.kind = "torn") /\ ~(at = "opening audit" /\ audit.kind = "torn")
  <2>1. "opening cache" # "copying cache" /\ "opening audit" # "copying audit"
    BY Zenon
  <2> QED
    BY <2>1, Zenon DEF Order, NoneTorn
<1>3. ASSUME at = "migrating cache" PROVE ~Blocked(cache, CacheScript)
  <2>1. Migrating(cache, CacheScript, Lacking)
    BY <1>3, Zenon DEF Parts, CacheInv
  <2>2. Fresh(cache, CacheScript, step - 1)
    <3>1. at \notin {"copying cache", "pruning audit", "pruning cache"}
      BY <1>3, Zenon
    <3>2. Run("migrating cache") = step - 1
      BY <1>3, Zenon DEF Run
    <3> QED
      BY <3>1, <3>2, Zenon DEF Order, CacheOrder
  <2> QED
    BY <1>0, <2>1, <2>2, CacheTakes, Zenon
<1>4. ASSUME at = "migrating audit" PROVE ~Blocked(audit, AuditScript)
  <2>1. Sound(audit) /\ Fresh(audit, AuditScript, step - 1)
    <3>1. at \notin {"copying audit", "creating cache", "copying cache", "pruning audit"}
      BY <1>4, Zenon
    <3>2. Run("migrating audit") = step - 1
      BY <1>4, Zenon DEF Run
    <3>3. audit.kind = "db"
      BY <1>4, Zenon DEF Parts, FilesOK
    <3> QED
      BY <3>1, <3>2, <3>3, Zenon DEF Order, AuditOrder
  <2>2. ~Unpruned(audit)
    BY <2>1 DEF Sound, Unpruned
  <2>3. Migrating(audit, AuditScript, {})
    BY <1>4, <2>2, Zenon DEF Parts, AuditInv
  <2> QED
    BY <1>0, <2>1, <2>3, AuditTakes, Zenon
<1> QED
  BY <1>1, <1>2, <1>3, <1>4, Zenon DEF Refused

LEMMA FreshGrows ==
  ASSUME NEW file \in Files, NEW r \in Nat, NEW q \in Nat, r <= q
  PROVE  /\ Fresh(file, AuditScript, r) => Fresh(file, AuditScript, q)
         /\ Fresh(file, CacheScript, r) => Fresh(file, CacheScript, q)
BY FreshAudit, FreshCache

\* A step that leaves half a change on disk is excused.
LEMMA OrderWhenCut ==
  ASSUME cut', at' \in {"failed", "stopped"} PROVE Order'
<1>1. at' \notin {"pruning audit", "pruning cache", "opening cache"}
  BY Zenon
<1> QED
  BY <1>1, Zenon DEF Order, LateColumns, NoBadges, SplitIsOver, WayIsFree, NoneTorn, AuditOrder, CacheOrder

\* A step after which there is neither of the two files.
LEMMA OrderWhenGone ==
  ASSUME Scalars', audit' = None, cache' = None, at' \in {"failed", "stopped"} PROVE Order'
<1>1. /\ at' \notin {"pruning audit", "pruning cache", "opening cache"}
      /\ None.kind = "none" /\ None.has = {} /\ None \in Files
      /\ None.kind # "torn" /\ None.kind # "db"
  BY Constants, Zenon
<1>2. Run("migrating cache")' \in Nat
  BY RunNext, Zenon
<1>3. Fresh(None, CacheScript, Run("migrating cache")')
  BY <1>1, <1>2, FreshEnds, Zenon
<1>4. CacheOrder'
  BY <1>3, Zenon DEF CacheOrder
<1>5. WayIsFree' /\ NoneTorn' /\ AuditOrder'
  BY <1>1, Zenon DEF WayIsFree, NoneTorn, AuditOrder
<1>6. LateColumns' /\ NoBadges' /\ SplitIsOver'
  BY <1>1, Zenon DEF LateColumns, NoBadges, SplitIsOver
<1> QED
  BY <1>4, <1>5, <1>6, Zenon DEF Order

\* Files that a step leaves alone, outside the migrations or at their end.
LEMMA AuditUntouched ==
  ASSUME Parts, Scalars', AuditOrder, audit' = audit, ~cut' => ~cut,
         at \notin {"copying audit", "creating cache", "copying cache", "pruning audit"},
         at # "migrating audit" \/ ~Ahead(audit, AuditScript) \/ step = 1 \/ cut'
  PROVE  AuditOrder'
<1> SUFFICES ASSUME ~cut', audit.kind = "db"
             PROVE  Sound(audit) /\ Fresh(audit, AuditScript, Run("migrating audit")')
  BY Zenon DEF AuditOrder, Sound
<1>1. Sound(audit) /\ Fresh(audit, AuditScript, Run("migrating audit"))
  BY Zenon DEF AuditOrder
<1>2. audit \in Files /\ Scalars
  BY Zenon DEF Parts, FilesOK
<1>3. Run("migrating audit")' \in Nat /\ Run("migrating audit") \in Nat
  BY <1>2, RunNext, RunOf, Zenon
<1>4. CASE ~Ahead(audit, AuditScript)
  BY <1>1, <1>2, <1>3, <1>4, FreshEnds, Zenon
<1>5. CASE at # "migrating audit" \/ step = 1
  <2>1. Run("migrating audit") = 0
    BY <1>2, <1>5, RunOf, Zenon
  <2>2. 0 <= Run("migrating audit")' /\ 0 \in Nat
    BY RunNext, ZeroIsNat, Zenon
  <2> QED
    BY <1>1, <1>2, <1>3, <2>1, <2>2, FreshGrows, Zenon
<1> QED
  BY <1>4, <1>5, Zenon

LEMMA CacheUntouched ==
  ASSUME Parts, Scalars', CacheOrder, cache' = cache, ~cut' => ~cut,
         at \notin {"copying cache", "pruning audit", "pruning cache"},
         at # "migrating cache" \/ ~Ahead(cache, CacheScript) \/ step = 1 \/ cut'
  PROVE  CacheOrder'
<1> SUFFICES ASSUME ~cut' PROVE Fresh(cache, CacheScript, Run("migrating cache")')
  BY Zenon DEF CacheOrder
<1>1. Fresh(cache, CacheScript, Run("migrating cache"))
  BY Zenon DEF CacheOrder
<1>2. cache \in Files /\ Scalars
  BY Zenon DEF Parts, FilesOK
<1>3. Run("migrating cache")' \in Nat /\ Run("migrating cache") \in Nat
  BY <1>2, RunNext, RunOf, Zenon
<1>4. CASE ~Ahead(cache, CacheScript)
  BY <1>1, <1>2, <1>3, <1>4, FreshEnds, Zenon
<1>5. CASE at # "migrating cache" \/ step = 1
  <2>1. Run("migrating cache") = 0
    BY <1>2, <1>5, RunOf, Zenon
  <2>2. 0 <= Run("migrating cache")' /\ 0 \in Nat
    BY RunNext, ZeroIsNat, Zenon
  <2> QED
    BY <1>1, <1>2, <1>3, <2>1, <2>2, FreshGrows, Zenon
<1> QED
  BY <1>4, <1>5, Zenon

\* A step between two phases that touches neither file.
LEMMA OrderStays ==
  ASSUME Parts, Scalars', Order, audit' = audit, cache' = cache, ~cut' => ~cut,
         bridge' = bridge \/ bridge' # "whole",
         at \notin {"copying audit", "creating cache", "copying cache", "pruning audit", "pruning cache"},
         at' \notin {"creating cache", "copying cache", "pruning audit", "pruning cache"},
         at' = "copying audit" => audit.kind = "none",
         at' = "opening cache" => bridge' # "whole" \/ audit.kind # "none",
         at # "migrating audit" \/ ~Ahead(audit, AuditScript) \/ step = 1 \/ cut',
         at # "migrating cache" \/ ~Ahead(cache, CacheScript) \/ step = 1 \/ cut'
  PROVE  Order'
<1>1. AuditOrder'
  <2>1. AuditOrder
    BY Zenon DEF Order
  <2>2. at \notin {"copying audit", "creating cache", "copying cache", "pruning audit"}
    BY Zenon
  <2> QED
    BY <2>1, <2>2, AuditUntouched, Zenon
<1>2. CacheOrder'
  <2>1. CacheOrder
    BY Zenon DEF Order
  <2>2. at \notin {"copying cache", "pruning audit", "pruning cache"}
    BY Zenon
  <2> QED
    BY <2>1, <2>2, CacheUntouched, Zenon
<1>3. WayIsFree'
  BY Zenon DEF Order, WayIsFree
<1>4. NoneTorn'
  BY Zenon DEF Order, NoneTorn
<1>5. LateColumns' /\ NoBadges' /\ SplitIsOver'
  BY Zenon DEF LateColumns, NoBadges, SplitIsOver
<1> QED
  BY <1>1, <1>2, <1>3, <1>4, <1>5, Zenon DEF Order

LEMMA SmoothKeeps == Smooth => cut' = cut
BY Zenon DEF Smooth

LEMMA PhaseSteps ==
  ASSUME \/ Boots \/ SkipsSplit \/ PutsAside \/ StartsSplit \/ Renames \/ CacheMigrated
         \/ Serves \/ RenameFails \/ Stops \/ DeletesBackup
  PROVE  audit' = audit /\ cache' = cache /\ cut' = cut
<1>1. ASSUME Boots PROVE audit' = audit /\ cache' = cache /\ cut' = cut
  BY <1>1, SmoothKeeps, Zenon DEF Boots
<1>2. ASSUME SkipsSplit PROVE audit' = audit /\ cache' = cache /\ cut' = cut
  BY <1>2, SmoothKeeps, Zenon DEF SkipsSplit
<1>3. ASSUME PutsAside PROVE audit' = audit /\ cache' = cache /\ cut' = cut
  BY <1>3, SmoothKeeps, Zenon DEF PutsAside
<1>4. ASSUME StartsSplit PROVE audit' = audit /\ cache' = cache /\ cut' = cut
  BY <1>4, SmoothKeeps, Zenon DEF StartsSplit
<1>5. ASSUME Renames PROVE audit' = audit /\ cache' = cache /\ cut' = cut
  BY <1>5, SmoothKeeps, Zenon DEF Renames
<1>6. ASSUME CacheMigrated PROVE audit' = audit /\ cache' = cache /\ cut' = cut
  BY <1>6, SmoothKeeps, Zenon DEF CacheMigrated
<1>7. ASSUME Serves PROVE audit' = audit /\ cache' = cache /\ cut' = cut
  BY <1>7, SmoothKeeps, Zenon DEF Serves
<1>8. ASSUME RenameFails PROVE audit' = audit /\ cache' = cache /\ cut' = cut
  BY <1>8, SmoothKeeps, Zenon DEF RenameFails
<1>9. ASSUME Stops PROVE audit' = audit /\ cache' = cache /\ cut' = cut
  BY <1>9, SmoothKeeps, Zenon DEF Stops
<1>10. ASSUME DeletesBackup PROVE audit' = audit /\ cache' = cache /\ cut' = cut
  BY <1>10, SmoothKeeps, Zenon DEF DeletesBackup
<1> QED
  BY <1>1, <1>2, <1>3, <1>4, <1>5, <1>6, <1>7, <1>8, <1>9, <1>10, Zenon

\* The steps between two phases that touch neither file.
LEMMA OrderOfPhases ==
  ASSUME Parts, Parts', Order,
         \/ Boots \/ SkipsSplit \/ PutsAside \/ StartsSplit \/ Renames \/ CacheMigrated
         \/ Serves \/ RenameFails \/ Stops \/ DeletesBackup
  PROVE  Order'
<1>0. Scalars'
  BY Zenon DEF Parts
<1>1. audit' = audit /\ cache' = cache /\ cut' = cut
  BY PhaseSteps, Zenon
<1>2. bridge' = bridge \/ bridge' # "whole"
  BY Zenon DEF Boots, SkipsSplit, PutsAside, StartsSplit, Renames, CacheMigrated,
     Serves, RenameFails, Stops, DeletesBackup
<1>3. at \notin {"copying audit", "creating cache", "copying cache", "pruning audit", "pruning cache"}
  BY Zenon DEF Boots, SkipsSplit, PutsAside, StartsSplit, Renames, CacheMigrated,
     Serves, RenameFails, Stops, DeletesBackup, Idle
<1>4. at' \notin {"creating cache", "copying cache", "pruning audit", "pruning cache"}
  <2>1. DeletesBackup => at' = at
    BY Zenon DEF DeletesBackup
  <2> QED
    BY <1>3, <2>1, Zenon DEF Boots, SkipsSplit, PutsAside, StartsSplit, Renames, CacheMigrated,
       Serves, RenameFails, Stops, Goes
<1>5. at' = "copying audit" => audit.kind = "none"
  <2>1. DeletesBackup => at' = at
    BY Zenon DEF DeletesBackup
  <2> QED
    BY <1>3, <2>1, Zenon DEF Boots, SkipsSplit, PutsAside, StartsSplit, Renames, CacheMigrated,
       Serves, RenameFails, Stops, Goes
<1>6. at' = "opening cache" => bridge' # "whole" \/ audit.kind # "none"
  <2>1. CASE SkipsSplit \/ PutsAside \/ Renames
    BY <2>1, Zenon DEF SkipsSplit, PutsAside, Renames
  <2>2. CASE RenameFails
    <3>1. "old" \in audit.rows
      BY <2>2, Zenon DEF RenameFails, Parts, HistoryInv
    <3>2. None.rows = {} /\ Torn.rows = {} /\ (audit.kind # "db" => audit \in {None, Torn})
      BY Constants, Zenon DEF Parts, FilesOK
    <3>3. audit.kind = "db"
      BY <3>1, <3>2, Zenon
    <3> QED
      BY <3>3, Zenon
  <2>3. CASE DeletesBackup
    BY <2>3, Zenon DEF DeletesBackup, Idle
  <2>4. CASE Boots \/ StartsSplit \/ CacheMigrated \/ Serves \/ Stops
    BY <2>4, Zenon DEF Boots, StartsSplit, CacheMigrated, Serves, Stops, Goes
  <2> QED
    BY <2>1, <2>2, <2>3, <2>4, Zenon
<1>7. at # "migrating audit" \/ ~Ahead(audit, AuditScript)
  BY Zenon DEF Boots, SkipsSplit, PutsAside, StartsSplit, Renames, CacheMigrated,
     Serves, RenameFails, Stops, DeletesBackup, Idle
<1>8. at # "migrating cache" \/ ~Ahead(cache, CacheScript)
  BY Zenon DEF Boots, SkipsSplit, PutsAside, StartsSplit, Renames, CacheMigrated,
     Serves, RenameFails, Stops, DeletesBackup, Idle
<1> QED
  BY <1>0, <1>1, <1>2, <1>3, <1>4, <1>5, <1>6, <1>7, <1>8, OrderStays, Zenon

\* A boot that ends in an error, a crash.
LEMMA OrderOfRefuses ==
  ASSUME Parts, Order, Refuses PROVE Order'
<1>1. cut' /\ at' = "failed"
  BY RefusedMeansCut, Zenon DEF Refuses, Smooth, Goes
<1> QED
  BY <1>1, OrderWhenCut, Zenon

LEMMA OrderOfCrashes ==
  ASSUME Parts, Parts', Order, Crashes PROVE Order'
<1>0. Scalars' /\ audit' = audit /\ cache' = cache /\ bridge' = bridge /\ at' = "stopped"
  BY Zenon DEF Parts, Crashes, Goes
<1>1. CASE cut'
  BY <1>0, <1>1, OrderWhenCut, Zenon
<1>2. CASE ~cut' /\ Splitting
  <2>1. {audit, cache} = {None}
    BY <1>2, Zenon DEF Crashes
  <2>2. audit = None /\ cache = None
    BY <2>1
  <2> QED
    BY <1>0, <2>2, OrderWhenGone, Zenon
<1>3. CASE ~cut' /\ ~Splitting
  <2>1. ~cut /\ ~Halfway
    BY <1>3, Zenon DEF Crashes
  <2>2. at \notin {"copying audit", "creating cache", "copying cache", "pruning audit", "pruning cache"}
    BY <1>3, Zenon DEF Splitting
  <2>3. at \notin {"migrating audit", "migrating cache"} \/ step = 1
    <3>1. step \in 1..5
      BY Zenon DEF Parts, Scalars
    <3>2. step > 1 \/ step = 1
      BY <3>1
    <3> QED
      BY <2>1, <3>2, Zenon DEF Halfway
  <2>4. /\ at' \notin {"creating cache", "copying cache", "pruning audit", "pruning cache"}
        /\ at' # "copying audit" /\ at' # "opening cache"
    BY <1>0, Zenon
  <2> QED
    BY <1>0, <2>1, <2>2, <2>3, <2>4, OrderStays, Zenon
<1> QED
  BY <1>1, <1>2, <1>3, Zenon

LEMMA OrderOfFails ==
  ASSUME Parts, Parts', Order, Fails PROVE Order'
<1>0. Scalars' /\ bridge' = bridge /\ at' = "failed" /\ ~Refused
  BY Zenon DEF Parts, Fails, Goes
<1>1. PICK gone \in SUBSET CleanUp :
         /\ audit' = IF "audit" \in gone THEN None ELSE audit
         /\ cache' = IF "cache" \in gone THEN None ELSE cache
         /\ cut' = (cut \/ Halfway \/ gone # CleanUp)
  BY Zenon DEF Fails
<1>2. CASE cut'
  BY <1>0, <1>2, OrderWhenCut, Zenon
<1>3. CASE ~cut'
  <2>1. ~cut /\ ~Halfway /\ gone = CleanUp
    BY <1>1, <1>3
  <2>2. CASE at \in {"copying cache", "pruning audit", "pruning cache"}
    <3>1. "audit" \in CleanUp /\ "cache" \in CleanUp
      BY <2>2, Zenon DEF CleanUp
    <3>2. audit' = None /\ cache' = None
      BY <1>1, <2>1, <3>1, Zenon
    <3> QED
      BY <1>0, <3>2, OrderWhenGone, Zenon
  <2>3. CASE at \in {"copying audit", "creating cache"}
    <3>1. "audit" \in CleanUp /\ "cache" \notin CleanUp
      <4>1. CleanUp = {"audit"}
        BY <2>3, Zenon DEF CleanUp
      <4> QED
        BY <4>1
    <3>2. audit' = None /\ cache' = cache
      BY <1>1, <2>1, <3>1, Zenon
    <3>3. bridge = "whole"
      BY <2>3, Zenon DEF Parts, HistoryInv, Splitting
    <3>4. cache.kind = "none"
      BY <2>1, <2>3, <3>3, Zenon DEF Order, WayIsFree
    <3>5. cache = None
      <4>1. Torn.kind = "torn" /\ (cache.kind # "db" => cache \in {None, Torn})
        BY Constants, Zenon DEF Parts, FilesOK
      <4> QED
        BY <3>4, <4>1, Zenon
    <3> QED
      BY <1>0, <3>2, <3>5, OrderWhenGone, Zenon
  <2>4. CASE at \notin {"copying audit", "creating cache", "copying cache", "pruning audit", "pruning cache"}
    <3>1. CleanUp = {}
      BY <2>4, Zenon DEF CleanUp
    <3>2. audit' = audit /\ cache' = cache
      BY <1>1, <3>1
    <3>3. at \notin {"migrating audit", "migrating cache"} \/ step = 1
      <4>1. step \in 1..5
        BY Zenon DEF Parts, Scalars
      <4>2. step > 1 \/ step = 1
        BY <4>1
      <4> QED
        BY <2>1, <4>2, Zenon DEF Halfway
    <3>4. /\ at' \notin {"creating cache", "copying cache", "pruning audit", "pruning cache"}
          /\ at' # "copying audit" /\ at' # "opening cache"
      BY <1>0, Zenon
    <3> QED
      BY <1>0, <2>1, <2>4, <3>2, <3>3, <3>4, OrderStays, Zenon
  <2> QED
    BY <2>2, <2>3, <2>4, Zenon
<1> QED
  BY <1>2, <1>3, Zenon

LEMMA OrderOfRest ==
  ASSUME Parts, Parts', Order, CloseFails \/ RollsBack PROVE Order'
<1>1. CASE CloseFails
  BY <1>1, OrderWhenCut, Zenon DEF CloseFails, Goes
<1>2. CASE RollsBack
  <2>1. audit' = None /\ cache' = None /\ at' \in {"failed", "stopped"} /\ Scalars'
    BY <1>2, Zenon DEF RollsBack, Idle, Parts
  <2> QED
    BY <2>1, OrderWhenGone, Zenon
<1> QED
  BY <1>1, <1>2, Zenon

\* The copies.
LEMMA OrderOfCopies ==
  ASSUME Parts, Parts', Order, CopiesAudit \/ CreatesCache \/ CopiesCache PROVE Order'
<1>c. cut' = cut /\ bridge' = bridge
  BY Zenon DEF CopiesAudit, CreatesCache, CopiesCache, Smooth
<1>1. CASE CopiesAudit
  <2>1. cache' = cache /\ at = "copying audit" /\ at' \in {"copying audit", "creating cache"}
    BY <1>1, Zenon DEF CopiesAudit, Goes
  <2>2. at' # "copying audit" => audit' = Legacy
    <3>1. at' # "copying audit" => audit = Torn
      BY <1>1, Zenon DEF CopiesAudit
    <3> QED
      BY <1>1, <3>1, CopiedFile, Zenon DEF CopiesAudit
  <2>3. WayIsFree'
    <3>1. bridge = "whole"
      BY <2>1, Zenon DEF Parts, HistoryInv, Splitting
    <3> QED
      BY <1>c, <2>1, <3>1, Zenon DEF Order, WayIsFree
  <2>4. NoneTorn'
    BY <1>c, <2>1, <2>2, Kinds, Zenon DEF Order, NoneTorn
  <2>5. CacheOrder'
    <3>1. CacheOrder /\ Scalars'
      BY Zenon DEF Order, Parts
    <3> QED
      BY <1>c, <2>1, <3>1, CacheUntouched, Zenon
  <2> QED
    BY <2>1, <2>3, <2>4, <2>5, Zenon DEF Order, LateColumns, NoBadges, SplitIsOver, AuditOrder
<1>2. CASE CreatesCache
  <2>1. cache' = Empty /\ audit' = audit /\ at = "creating cache" /\ at' = "copying cache"
    BY <1>2, Zenon DEF CreatesCache, Goes
  <2>2. audit = Legacy
    BY <2>1, Zenon DEF Parts, FilesOK
  <2> QED
    BY <1>c, <2>1, <2>2, Kinds, Zenon
    DEF Order, LateColumns, NoBadges, SplitIsOver, WayIsFree, NoneTorn, AuditOrder, CacheOrder
<1>3. CASE CopiesCache
  <2>1. audit' = audit /\ at = "copying cache" /\ at' \in {"copying cache", "pruning audit"}
    BY <1>3, Zenon DEF CopiesCache, Goes
  <2>2. audit = Legacy
    BY <2>1, Zenon DEF Parts, AuditInv
  <2>3. at' # "copying cache" => cache' = Legacy
    <3>1. at' # "copying cache" => cache = Torn
      BY <1>3, Zenon DEF CopiesCache
    <3> QED
      BY <1>3, <3>1, CopiedFile, Zenon DEF CopiesCache
  <2>4. Legacy.has \cap {"unifi_log_id", "ua_name", "ua_email"} = {} /\ "badges" \notin Legacy.has
    BY Constants
  <2>5. LateColumns' /\ NoBadges'
    BY <2>1, <2>2, <2>3, <2>4, Zenon DEF LateColumns, NoBadges
  <2> QED
    BY <1>c, <2>1, <2>2, <2>3, <2>5, Kinds, Zenon
    DEF Order, SplitIsOver, WayIsFree, NoneTorn, AuditOrder, CacheOrder
<1> QED
  BY <1>1, <1>2, <1>3, Zenon

\* A statement of a prune never adds anything.
LEMMA PrunedFile ==
  ASSUME NEW file \in Files, NEW drops, NEW pin, NEW n
  PROVE  /\ Pruned(file, drops, pin, n).kind = file.kind
         /\ Pruned(file, drops, pin, n).has \subseteq file.has
<1>1. CASE n <= Len(drops)
  <2>1. Pruned(file, drops, pin, n) = Dropped(file, drops[n])
    BY <1>1, Zenon DEF Pruned
  <2>2. /\ Dropped(file, drops[n]).kind = file.kind
        /\ Dropped(file, drops[n]).has = file.has \ ({drops[n]} \cup {o \in Columns : drops[n] \in Needs(o)})
    BY DroppedFile, Zenon
  <2>3. Dropped(file, drops[n]).has \subseteq file.has
    BY <2>2
  <2> QED
    BY <1>1, <2>1, <2>2, <2>3, Zenon
<1>2. CASE ~(n <= Len(drops))
  <2>1. Pruned(file, drops, pin, n) = [file EXCEPT !.version = IF n = Len(drops) + 1 THEN 0 ELSE pin]
    BY <1>2, Zenon DEF Pruned
  <2>2. \A v : /\ [file EXCEPT !.version = v].kind = file.kind
               /\ [file EXCEPT !.version = v].has = file.has
    BY DEF Files
  <2> QED
    BY <2>1, <2>2, Zenon
<1> QED
  BY <1>1, <1>2, Zenon

LEMMA OrderOfPrunesAudit ==
  ASSUME Parts, Parts', Order, PrunesAudit PROVE Order'
<1>1. /\ at = "pruning audit" /\ bridge' = bridge /\ cache' = cache /\ cut' = cut
      /\ audit' = Pruned(audit, DropsFromAudit, AuditPin, step)
      /\ PruneGoes(DropsFromAudit, "pruning cache")
  BY Zenon DEF PrunesAudit, Smooth
<1>2. audit \in Files /\ audit.kind = "db" /\ step \in 1..5 /\ audit' \in Files
  BY <1>1, Zenon DEF Parts, FilesOK, Scalars
<1>3. audit'.kind = "db" /\ audit'.has \subseteq audit.has
  <2>1. /\ Pruned(audit, DropsFromAudit, AuditPin, step).kind = audit.kind
        /\ Pruned(audit, DropsFromAudit, AuditPin, step).has \subseteq audit.has
    BY <1>2, PrunedFile
  <2> QED
    BY <1>1, <1>2, <2>1, Zenon
<1>4. Len(DropsFromAudit) + 2 = 5 /\ Len(DropsFromAudit) = 3
  BY Drops
<1>5. /\ step = 5 => at' = "pruning cache" /\ step' = 1
      /\ step # 5 => at' = "pruning audit"
  BY <1>1, <1>4, PrunePhase, PruneCounts, Zenon
<1>6. audit.has \cap {"unifi_log_id", "ua_name", "ua_email"} = {}
  BY <1>1, Zenon DEF Order, LateColumns
<1>7. audit'.has \cap {"unifi_log_id", "ua_name", "ua_email"} = {}
  BY <1>3, <1>6
<1>8. AuditOrder'
  <2> SUFFICES ASSUME step = 5 PROVE Sound(audit)' /\ Fresh(audit, AuditScript, Run("migrating audit"))'
    BY <1>5, Zenon DEF AuditOrder
  <2>1. 5 > 3 /\ 5 # 3 + 1 /\ ~(5 <= 3) /\ AuditPin = 3
    BY DEF AuditPin, AuditAtSplit
  <2>2. audit' = [audit EXCEPT !.version = 3]
    <3>1. Pruned(audit, DropsFromAudit, AuditPin, 5) = [audit EXCEPT !.version = AuditPin]
      BY <1>4, <2>1 DEF Pruned
    <3> QED
      BY <1>1, <2>1, <3>1, Zenon
  <2>3. Sound(audit)
    BY <1>1, Zenon DEF Parts, AuditInv, AuditPruning
  <2>4. audit'.has = audit.has /\ audit'.version = 3
    BY <1>2, <2>2 DEF Files
  <2>5. Sound(audit)'
    BY <2>3, <2>4 DEF Sound
  <2>6. Fresh(audit', AuditScript, 0)
    BY <1>2, <1>7, <2>4, FreshAudit
  <2>7. Run("migrating audit")' = 0
    BY <1>5, RunNext, Zenon DEF Parts
  <2> QED
    BY <2>5, <2>6, <2>7, Zenon
<1>9. LateColumns' /\ SplitIsOver'
  <2>1. at' # "opening cache"
    BY <1>5, Zenon
  <2> QED
    BY <1>7, <2>1, Zenon DEF LateColumns, SplitIsOver
<1>10. NoBadges'
  BY <1>1, Zenon DEF Order, NoBadges
<1>11. WayIsFree' /\ NoneTorn' /\ CacheOrder'
  <2>1. at' \in {"pruning audit", "pruning cache"}
    BY <1>5, Zenon
  <2>2. "db" # "none" /\ "db" # "torn" /\ cache.kind = "db"
    BY <1>1, Zenon DEF Parts, FilesOK
  <2> QED
    BY <1>1, <1>3, <2>1, <2>2, Zenon DEF WayIsFree, NoneTorn, CacheOrder
<1> QED
  BY <1>8, <1>9, <1>10, <1>11, Zenon DEF Order

LEMMA OrderOfPrunesCache ==
  ASSUME Parts, Parts', Order, PrunesCache PROVE Order'
<1>1. /\ at = "pruning cache" /\ bridge' = bridge /\ audit' = audit /\ cut' = cut
      /\ cache' = Pruned(cache, DropsFromCache, CacheAtSplit, step)
      /\ PruneGoes(DropsFromCache, "renaming")
  BY Zenon DEF PrunesCache, Smooth
<1>2. cache \in Files /\ cache.kind = "db" /\ step \in 1..5 /\ cache' \in Files
  BY <1>1, Zenon DEF Parts, FilesOK, Scalars
<1>3. cache'.kind = "db" /\ cache'.has \subseteq cache.has
  <2>1. /\ Pruned(cache, DropsFromCache, CacheAtSplit, step).kind = cache.kind
        /\ Pruned(cache, DropsFromCache, CacheAtSplit, step).has \subseteq cache.has
    BY <1>2, PrunedFile
  <2> QED
    BY <1>1, <1>2, <2>1, Zenon
<1>4. Len(DropsFromCache) + 2 = 4 /\ Len(DropsFromCache) = 2
  BY Drops
<1>5. /\ step = 4 => at' = "renaming" /\ step' = 1
      /\ step # 4 => at' = "pruning cache"
  BY <1>1, <1>4, PrunePhase, PruneCounts, Zenon
<1>6. "badges" \notin cache'.has
  <2>1. "badges" \notin cache.has
    BY <1>1, Zenon DEF Order, NoBadges
  <2> QED
    BY <1>3, <2>1
<1>7. CacheOrder'
  <2>1. Fresh(cache', CacheScript, 0)
    BY <1>2, <1>6, FreshCache
  <2>2. step = 4 => Run("migrating cache")' = 0
    BY <1>5, RunNext, Zenon DEF Parts
  <2> QED
    BY <1>5, <2>1, <2>2, Zenon DEF CacheOrder
<1>8. AuditOrder'
  <2>1. AuditOrder /\ Scalars'
    BY Zenon DEF Order, Parts
  <2> QED
    BY <1>1, <2>1, AuditUntouched, Zenon
<1>9. NoBadges' /\ LateColumns' /\ SplitIsOver'
  <2>1. at' \in {"pruning cache", "renaming"}
    BY <1>5, Zenon
  <2> QED
    BY <1>6, <2>1, Zenon DEF NoBadges, LateColumns, SplitIsOver
<1>10. NoneTorn'
  BY <1>1, <1>3, Zenon DEF Order, NoneTorn
<1>11. WayIsFree'
  <2>1. at' \in {"pruning cache", "renaming"}
    BY <1>5, Zenon
  <2>2. "old" \in audit.rows \/ audit.kind = "db"
    BY <1>1, Zenon DEF Parts, HistoryInv
  <2>3. audit.kind # "none"
    <3>1. None.rows = {} /\ Torn.rows = {} /\ (audit.kind # "db" => audit \in {None, Torn})
      BY Constants, Zenon DEF Parts, FilesOK
    <3>2. audit.kind = "db"
      BY <2>2, <3>1, Zenon
    <3> QED
      BY <3>2, Zenon
  <2> QED
    BY <1>1, <2>1, <2>3, Zenon DEF WayIsFree
<1> QED
  BY <1>7, <1>8, <1>9, <1>10, <1>11, Zenon DEF Order

LEMMA OrderOfOpensCache ==
  ASSUME Parts, Parts', Order, OpensCache PROVE Order'
<1>1. /\ at = "opening cache" /\ bridge' = bridge /\ audit' = audit /\ cut' = cut
      /\ cache' = Opened(cache) /\ at' = "migrating cache" /\ step' = 1
  BY Zenon DEF OpensCache, Smooth, Goes
<1>2. cache \in Files
  BY Zenon DEF Parts, FilesOK
<1>3. cache' = Empty \/ cache' = cache
  BY <1>1, Zenon DEF Opened
<1>4. CacheOrder'
  <2>1. Run("migrating cache")' = 0 /\ Run("migrating cache") = 0
    BY <1>1, RunNext, RunOf, Zenon DEF Parts
  <2>2. Fresh(Empty, CacheScript, 0)
    <3>1. Empty \in Files /\ Empty.has = {}
      BY Constants
    <3> QED
      BY <3>1, ZeroIsNat, FreshEnds, Zenon
  <2>3. ~cut => Fresh(cache, CacheScript, 0)
    BY <1>1, <2>1, Zenon DEF Order, CacheOrder
  <2> QED
    BY <1>1, <1>3, <2>1, <2>2, <2>3, Zenon DEF CacheOrder
<1>5. AuditOrder'
  <2>1. AuditOrder /\ Scalars'
    BY Zenon DEF Order, Parts
  <2> QED
    BY <1>1, <2>1, AuditUntouched, Zenon
<1>6. NoneTorn'
  BY <1>1, <1>3, Kinds, Zenon DEF Order, NoneTorn
<1>7. WayIsFree'
  BY <1>1, Zenon DEF Order, SplitIsOver, WayIsFree
<1>8. LateColumns' /\ NoBadges' /\ SplitIsOver'
  BY <1>1, Zenon DEF LateColumns, NoBadges, SplitIsOver
<1> QED
  BY <1>4, <1>5, <1>6, <1>7, <1>8, Zenon DEF Order

\* The files of which the process serves, while it serves or after.
LEMMA OrderOfUse ==
  ASSUME Parts, Parts', Order, Records \/ WipesCache PROVE Order'
<1>0. /\ bridge' = bridge /\ cut' = cut /\ at' = at /\ step' = step
      /\ at \in {"serving", "stopped", "failed"} /\ audit \in Files /\ cache \in Files
  BY Zenon DEF Records, WipesCache, Smooth, Idle, Parts, FilesOK
<1>1. LateColumns' /\ NoBadges' /\ SplitIsOver'
  BY <1>0, Zenon DEF LateColumns, NoBadges, SplitIsOver
<1>2. CASE Records
  <2>1. audit' = [audit EXCEPT !.rows = @ \cup {"new"}] /\ cache' = cache
    BY <1>2, Zenon DEF Records
  <2>2. audit' \in Files /\ audit'.kind = audit.kind /\ audit'.has = audit.has /\ audit'.version = audit.version
    BY <1>0, <2>1, RecordedFile, Zenon
  <2>3. Sound(audit) => Sound(audit)'
    BY <2>2, Zenon DEF Sound
  <2>4. Fresh(audit, AuditScript, Run("migrating audit")) => Fresh(audit, AuditScript, Run("migrating audit"))'
    BY <1>0, <2>2, Zenon DEF Fresh, Run
  <2>5. AuditOrder'
    BY <1>0, <2>2, <2>3, <2>4, Zenon DEF Order, AuditOrder
  <2>6. CacheOrder'
    <3>1. CacheOrder /\ Scalars'
      BY Zenon DEF Order, Parts
    <3> QED
      BY <1>0, <2>1, <3>1, CacheUntouched, Zenon
  <2>7. WayIsFree' /\ NoneTorn'
    BY <1>0, <2>1, <2>2, Zenon DEF Order, WayIsFree, NoneTorn
  <2> QED
    BY <1>1, <2>5, <2>6, <2>7, Zenon DEF Order
<1>3. CASE WipesCache
  <2>1. audit' = audit /\ cache' = None
    BY <1>3, Zenon DEF WipesCache
  <2>2. CacheOrder'
    <3>1. None \in Files /\ None.has = {}
      BY Constants
    <3>2. Run("migrating cache")' \in Nat
      BY RunNext, Zenon DEF Parts
    <3>3. Fresh(None, CacheScript, Run("migrating cache")')
      BY <3>1, <3>2, FreshEnds, Zenon
    <3> QED
      BY <2>1, <3>3, Zenon DEF CacheOrder
  <2>3. AuditOrder'
    <3>1. AuditOrder /\ Scalars'
      BY Zenon DEF Order, Parts
    <3> QED
      BY <1>0, <2>1, <3>1, AuditUntouched, Zenon
  <2>4. WayIsFree' /\ NoneTorn'
    BY <1>0, <2>1, Kinds, Zenon DEF Order, WayIsFree, NoneTorn
  <2> QED
    BY <1>1, <2>2, <2>3, <2>4, Zenon DEF Order
<1> QED
  BY <1>2, <1>3, Zenon

\* What the self-heal adds was created by migrations that are recorded.
LEMMA HealedIsOrdered ==
  ASSUME NEW file \in Files, Sound(file), Fresh(file, AuditScript, 0)
  PROVE  /\ Sound(Healed(file)) /\ Fresh(Healed(file), AuditScript, 0)
         /\ Healed(file) \in Files /\ Healed(file).kind = file.kind
<1> DEFINE n == Least(4, file.version)
           more == Created(AuditScript, n)
<1>b. file.version \in 0..7 /\ n \in 0..4 /\ (file.version >= 4 => n = 4) /\ (file.version <= 4 => n = file.version)
  BY FileFields DEF Least
<1>1. \A o : o \in more <=> \/ n >= 1 /\ o = "checkins"
                            \/ n >= 2 /\ o = "unifi_result"
                            \/ n >= 3 /\ o = "mappings"
                            \/ n >= 4 /\ o = "unifi_log_id"
  BY <1>b, AuditCreated
<1>2. more \in SUBSET AuditObjects
  BY <1>1, Objects
<1>3. Healed(file) = [file EXCEPT !.has = @ \cup more]
  BY DEF Healed
<1> HIDE DEF more, n
<1>4. /\ Healed(file) \in Files /\ Healed(file).kind = file.kind /\ Healed(file).version = file.version
      /\ Healed(file).has = file.has \cup more
  BY <1>2, <1>3, GrownFile
<1>5. Sound(Healed(file))
  BY <1>2, <1>4 DEF Sound
<1>6. Fresh(Healed(file), AuditScript, 0)
  <2>1. /\ "unifi_result" \in file.has => file.version >= 2
        /\ "unifi_log_id" \in file.has => file.version >= 4
        /\ "ua_name" \in file.has => file.version >= 5
        /\ "ua_email" \in file.has => file.version >= 5
    BY FreshAudit
  <2>2. /\ "unifi_result" \in more => file.version >= 2
        /\ "unifi_log_id" \in more => file.version >= 4
        /\ "ua_name" \notin more /\ "ua_email" \notin more
    BY <1>b, <1>1
  <2>3. /\ "unifi_result" \in Healed(file).has => file.version >= 2
        /\ "unifi_log_id" \in Healed(file).has => file.version >= 4
        /\ "ua_name" \in Healed(file).has => file.version >= 5
        /\ "ua_email" \in Healed(file).has => file.version >= 5
    BY <1>4, <2>1, <2>2
  <2> QED
    BY <1>4, <2>3, FreshAudit
<1> QED
  BY <1>4, <1>5, <1>6, Zenon

LEMMA OrderOfOpensAudit ==
  ASSUME Parts, Parts', Order, OpensAudit PROVE Order'
<1>1. /\ at = "opening audit" /\ bridge' = bridge /\ cache' = cache /\ cut' = cut
      /\ audit' = Healed(Opened(audit)) /\ at' = "migrating audit" /\ step' = 1
  BY SmoothKeeps, Zenon DEF OpensAudit, Goes
<1>2. audit \in Files
  BY Zenon DEF Parts, FilesOK
<1>3. Run("migrating audit")' = 0 /\ Run("migrating audit") = 0
  BY <1>1, RunNext, RunOf, Zenon DEF Parts
<1>k. audit'.kind = "db"
  BY <1>1, Zenon DEF Parts, FilesOK
<1>4. ASSUME ~cut PROVE Sound(audit)' /\ Fresh(audit', AuditScript, 0)
  <2>1. Opened(audit) \in Files /\ Sound(Opened(audit)) /\ Fresh(Opened(audit), AuditScript, 0)
    <3>1. CASE audit.kind = "none"
      <4>1. Opened(audit) = Empty
        BY <3>1, Zenon DEF Opened
      <4>2. Empty \in Files /\ Empty.has = {}
        BY Constants
      <4>3. Fresh(Empty, AuditScript, 0)
        BY <4>2, ZeroIsNat, FreshEnds, Zenon
      <4> QED
        BY <4>1, <4>2, <4>3, LegacyFile, Zenon
    <3>2. CASE audit.kind # "none"
      <4>1. Opened(audit) = audit
        BY <3>2, Zenon DEF Opened
      <4>2. audit.kind = "db"
        <5>1. audit.kind # "torn"
          BY <1>1, <1>4, Zenon DEF Order, NoneTorn
        <5>2. Torn.kind = "torn" /\ None.kind = "none" /\ (audit.kind # "db" => audit \in {None, Torn})
          BY Constants, Zenon DEF Parts, FilesOK
        <5> QED
          BY <3>2, <5>1, <5>2, Zenon
      <4>3. Sound(audit) /\ Fresh(audit, AuditScript, 0)
        BY <1>1, <1>3, <1>4, <4>2, Zenon DEF Order, AuditOrder
      <4> QED
        BY <1>2, <4>1, <4>3, Zenon
    <3> QED
      BY <3>1, <3>2, Zenon
  <2>2. Sound(Healed(Opened(audit))) /\ Fresh(Healed(Opened(audit)), AuditScript, 0)
    BY <2>1, HealedIsOrdered, Zenon
  <2>3. Sound(audit)' <=> Sound(audit')
    BY Zenon DEF Sound
  <2> QED
    BY <1>1, <2>2, <2>3, Zenon
<1>5. AuditOrder'
  BY <1>1, <1>3, <1>4, Zenon DEF AuditOrder
<1>6. CacheOrder'
  <2>1. CacheOrder /\ Scalars'
    BY Zenon DEF Order, Parts
  <2> QED
    BY <1>1, <2>1, CacheUntouched, Zenon
<1>7. WayIsFree' /\ NoneTorn'
  BY <1>1, <1>k, Zenon DEF Order, WayIsFree, NoneTorn
<1>8. LateColumns' /\ NoBadges' /\ SplitIsOver'
  BY <1>1, Zenon DEF LateColumns, NoBadges, SplitIsOver
<1> QED
  BY <1>5, <1>6, <1>7, <1>8, Zenon DEF Order

\* A column that a statement adds is the one of the migration under way.
LEMMA MigratedCacheIsFresh ==
  ASSUME NEW file \in Files, CanMigrate(file, CacheScript), step \in 1..5,
         Fresh(file, CacheScript, step - 1)
  PROVE  Fresh(Migrated(file, CacheScript), CacheScript, IF Recording(file, CacheScript) THEN 0 ELSE step)
<1>1. /\ Migrated(file, CacheScript) \in Files
      /\ Recording(file, CacheScript) =>
           /\ Migrated(file, CacheScript).version = file.version + 1
           /\ Migrated(file, CacheScript).has = file.has
      /\ ~Recording(file, CacheScript) =>
           /\ Migrated(file, CacheScript).version = file.version
           /\ Migrated(file, CacheScript).has = file.has \cup {CacheScript[file.version + 1][1]}
           /\ step = 1
  BY MigrateCacheStep, Zenon
<1>2. file.version \in 0..3
  BY FileFields, Objects DEF CanMigrate, Ahead
<1>3. "badges" \in file.has => file.version = 3
  BY <1>2, FreshCache
<1>4. CASE Recording(file, CacheScript)
  <2>1. "badges" \in Migrated(file, CacheScript).has => Migrated(file, CacheScript).version >= 4
    BY <1>1, <1>3, <1>4
  <2>2. Fresh(Migrated(file, CacheScript), CacheScript, 0)
    BY <1>1, <2>1, FreshCache
  <2> QED
    BY <1>4, <2>2, Zenon
<1>5. CASE ~Recording(file, CacheScript)
  <2>1. CacheScript[file.version + 1][1] = "badges" => file.version = 3
    <3>1. file.version \in {0, 1, 2, 3}
      BY <1>2
    <3> QED
      BY <3>1, Statements
  <2>2. "badges" \in Migrated(file, CacheScript).has => Migrated(file, CacheScript).version = 3
    BY <1>1, <1>3, <1>5, <2>1
  <2>3. Fresh(Migrated(file, CacheScript), CacheScript, 1)
    BY <1>1, <2>2, FreshCache
  <2> QED
    BY <1>1, <1>5, <2>3, Zenon
<1> QED
  BY <1>4, <1>5, Zenon

LEMMA OrderOfMigratesCache ==
  ASSUME Parts, Parts', Order, MigratesCache PROVE Order'
<1>1. /\ at = "migrating cache" /\ at' = at /\ bridge' = bridge /\ audit' = audit /\ cut' = cut
      /\ CanMigrate(cache, CacheScript) /\ cache' = Migrated(cache, CacheScript)
      /\ step' = IF Recording(cache, CacheScript) THEN 1 ELSE step + 1
  BY SmoothKeeps, Zenon DEF MigratesCache, MigrationGoes
<1>2. cache \in Files /\ cache.kind = "db" /\ cache'.kind = "db" /\ step \in 1..5
  BY <1>1, Zenon DEF Parts, FilesOK, Scalars
<1>3. CacheOrder'
  <2>1. Run("migrating cache") = step - 1 /\ Run("migrating cache")' = step' - 1
    BY <1>1, Zenon DEF Run
  <2>2. step' - 1 = IF Recording(cache, CacheScript) THEN 0 ELSE step
    <3>1. \A s \in 1..5 : 1 - 1 = 0 /\ (s + 1) - 1 = s
      OBVIOUS
    <3> QED
      BY <1>1, <1>2, <3>1, Zenon
  <2>3. ASSUME ~cut PROVE Fresh(cache', CacheScript, step' - 1)
    <3>1. Fresh(cache, CacheScript, step - 1)
      BY <1>1, <2>1, <2>3, Zenon DEF Order, CacheOrder
    <3>2. Fresh(Migrated(cache, CacheScript), CacheScript, IF Recording(cache, CacheScript) THEN 0 ELSE step)
      BY <1>1, <1>2, <3>1, MigratedCacheIsFresh, Zenon
    <3> QED
      BY <1>1, <2>2, <3>2, Zenon
  <2> QED
    BY <1>1, <2>1, <2>3, Zenon DEF CacheOrder
<1>4. AuditOrder'
  <2>1. AuditOrder /\ Scalars'
    BY Zenon DEF Order, Parts
  <2> QED
    BY <1>1, <2>1, AuditUntouched, Zenon
<1>5. WayIsFree' /\ NoneTorn'
  <2>1. "db" # "torn" /\ "db" # "none" /\ at # "copying audit" /\ at # "copying cache" /\ at # "creating cache"
    BY <1>1, Zenon
  <2>2. NoneTorn'
    BY <1>1, <1>2, <2>1, Zenon DEF Order, NoneTorn
  <2>3. WayIsFree'
    BY <1>1, <1>2, <2>1, Zenon DEF Order, WayIsFree
  <2> QED
    BY <2>2, <2>3
<1>6. LateColumns' /\ NoBadges' /\ SplitIsOver'
  BY <1>1, Zenon DEF LateColumns, NoBadges, SplitIsOver
<1> QED
  BY <1>3, <1>4, <1>5, <1>6, Zenon DEF Order

LEMMA MigratedAuditIsFresh ==
  ASSUME NEW file \in Files, CanMigrate(file, AuditScript), step \in 1..5,
         Fresh(file, AuditScript, step - 1), Sound(file), Migrating(file, AuditScript, {})
  PROVE  /\ Fresh(Migrated(file, AuditScript), AuditScript, IF Recording(file, AuditScript) THEN 0 ELSE step)
         /\ ~Unpruned(Migrated(file, AuditScript))
<1>1. /\ Migrated(file, AuditScript) \in Files
      /\ Recording(file, AuditScript) =>
           /\ Migrated(file, AuditScript).version = file.version + 1
           /\ Migrated(file, AuditScript).has = file.has
      /\ ~Recording(file, AuditScript) =>
           /\ Migrated(file, AuditScript).version = file.version
           /\ Migrated(file, AuditScript).has = file.has \cup {AuditScript[file.version + 1][step]}
           /\ step \in 1..Len(AuditScript[file.version + 1])
      /\ file.version \in 0..6
  BY MigrateAuditStep, Zenon
<1>2. step - 1 \in Nat
  OBVIOUS
<1>3. /\ "unifi_result" \in file.has => file.version >= 2 \/ (file.version = 1 /\ 1 <= step - 1)
      /\ "unifi_log_id" \in file.has => file.version >= 4 \/ (file.version = 3 /\ 1 <= step - 1)
      /\ "ua_name" \in file.has => file.version >= 5 \/ (file.version = 4 /\ 1 <= step - 1)
      /\ "ua_email" \in file.has => file.version >= 5 \/ (file.version = 4 /\ 2 <= step - 1)
  BY <1>2, FreshAudit, Zenon
<1>4. CASE Recording(file, AuditScript)
  <2>1. /\ "unifi_result" \in file.has => file.version + 1 >= 2
        /\ "unifi_log_id" \in file.has => file.version + 1 >= 4
        /\ "ua_name" \in file.has => file.version + 1 >= 5
        /\ "ua_email" \in file.has => file.version + 1 >= 5
    BY <1>1, <1>3
  <2>2. Fresh(Migrated(file, AuditScript), AuditScript, 0)
    BY <1>1, <1>4, <2>1, FreshAudit
  <2>3. ~Unpruned(Migrated(file, AuditScript))
    <3>1. SUFFICES ASSUME file.version + 1 \in {5, 6} PROVE "ua_name" \in file.has
      BY <1>1, <1>4 DEF Unpruned
    <3>2. CASE file.version = 5
      BY <3>2 DEF Sound
    <3>3. CASE file.version = 4
      <4>1. Ahead(file, AuditScript)
        BY DEF CanMigrate
      <4>2. \A i \in 1..(step - 1) : AuditScript[5][i] \in file.has
        BY <3>3, <4>1 DEF Migrating
      <4>3. step > 1
        BY <1>4, <3>3, Statements DEF Recording
      <4>4. 1 \in 1..(step - 1)
        BY <4>3
      <4> QED
        BY <4>2, <4>4, Statements
    <3> QED
      BY <1>1, <3>1, <3>2, <3>3
  <2> QED
    BY <1>4, <2>2, <2>3, Zenon
<1>5. CASE ~Recording(file, AuditScript)
  <2> DEFINE o == AuditScript[file.version + 1][step]
  <2>1. /\ o = "unifi_result" => file.version = 1
        /\ o = "unifi_log_id" => file.version = 3
        /\ o = "ua_name" => file.version = 4
        /\ o = "ua_email" => file.version = 4 /\ step = 2
    <3>1. CASE file.version = 4
      <4>1. Len(AuditScript[file.version + 1]) = 2
        BY <3>1, Statements
      <4>2. step \in {1, 2}
        BY <1>1, <1>5, <4>1
      <4> QED
        BY <3>1, <4>2, Statements
    <3>2. CASE file.version # 4
      <4>1. file.version \in {0, 1, 2, 3, 5, 6}
        BY <1>1, <3>2
      <4>2. Len(AuditScript[file.version + 1]) = 1
        BY <4>1, Statements
      <4>3. step = 1
        BY <1>1, <1>5, <4>2
      <4> QED
        BY <4>1, <4>3, Statements
    <3> QED
      BY <3>1, <3>2
  <2> HIDE DEF o
  <2>2. Migrated(file, AuditScript).version = file.version /\ Migrated(file, AuditScript).has = file.has \cup {o}
    BY <1>1, <1>5, Zenon DEF o
  <2>3. /\ "unifi_result" \in file.has \cup {o} => file.version >= 2 \/ (file.version = 1 /\ 1 <= step)
        /\ "unifi_log_id" \in file.has \cup {o} => file.version >= 4 \/ (file.version = 3 /\ 1 <= step)
        /\ "ua_name" \in file.has \cup {o} => file.version >= 5 \/ (file.version = 4 /\ 1 <= step)
        /\ "ua_email" \in file.has \cup {o} => file.version >= 5 \/ (file.version = 4 /\ 2 <= step)
    BY <1>3, <2>1
  <2>4. step \in Nat
    OBVIOUS
  <2>5. Fresh(Migrated(file, AuditScript), AuditScript, step)
    BY <1>1, <2>2, <2>3, <2>4, FreshAudit
  <2>6. ~Unpruned(Migrated(file, AuditScript))
    <3>1. file.version \in {5, 6} => "ua_name" \in file.has
      BY DEF Sound
    <3> QED
      BY <2>2, <3>1 DEF Unpruned
  <2> QED
    BY <1>5, <2>5, <2>6, Zenon
<1> QED
  BY <1>4, <1>5, Zenon

LEMMA OrderOfMigratesAudit ==
  ASSUME Parts, Parts', Order, MigratesAudit PROVE Order'
<1>1. /\ at = "migrating audit" /\ at' = at /\ bridge' = bridge /\ cache' = cache /\ cut' = cut
      /\ CanMigrate(audit, AuditScript) /\ audit' = Migrated(audit, AuditScript)
      /\ step' = IF Recording(audit, AuditScript) THEN 1 ELSE step + 1
  BY SmoothKeeps, Zenon DEF MigratesAudit, MigrationGoes
<1>2. audit \in Files /\ audit.kind = "db" /\ audit'.kind = "db" /\ step \in 1..5
  BY <1>1, Zenon DEF Parts, FilesOK, Scalars
<1>3. AuditOrder'
  <2>1. Run("migrating audit") = step - 1 /\ Run("migrating audit")' = step' - 1
    BY <1>1, Zenon DEF Run
  <2>2. step' - 1 = IF Recording(audit, AuditScript) THEN 0 ELSE step
    <3>1. \A s \in 1..5 : 1 - 1 = 0 /\ (s + 1) - 1 = s
      OBVIOUS
    <3> QED
      BY <1>1, <1>2, <3>1, Zenon
  <2>3. ASSUME ~cut PROVE Sound(audit)' /\ Fresh(audit', AuditScript, step' - 1)
    <3>1. Sound(audit) /\ Fresh(audit, AuditScript, step - 1)
      BY <1>1, <1>2, <2>1, <2>3, Zenon DEF Order, AuditOrder
    <3>2. ~Unpruned(audit)
      BY <3>1 DEF Sound, Unpruned
    <3>3. Migrating(audit, AuditScript, {})
      BY <1>1, <3>2, Zenon DEF Parts, AuditInv
    <3>4. /\ Fresh(Migrated(audit, AuditScript), AuditScript, IF Recording(audit, AuditScript) THEN 0 ELSE step)
          /\ ~Unpruned(Migrated(audit, AuditScript))
      BY <1>1, <1>2, <3>1, <3>3, MigratedAuditIsFresh, Zenon
    <3>5. ~Unpruned(audit)'
      BY <1>1, <3>4, Zenon DEF Unpruned
    <3>6. Sound(audit)'
      BY <1>2, <3>5, Zenon DEF Parts, AuditInv
    <3> QED
      BY <1>1, <2>2, <3>4, <3>6, Zenon
  <2> QED
    BY <1>1, <2>1, <2>3, Zenon DEF AuditOrder
<1>4. CacheOrder'
  <2>1. CacheOrder /\ Scalars'
    BY Zenon DEF Order, Parts
  <2> QED
    BY <1>1, <2>1, CacheUntouched, Zenon
<1>5. WayIsFree' /\ NoneTorn'
  <2>1. "db" # "torn" /\ "db" # "none" /\ at # "copying audit" /\ at # "copying cache" /\ at # "creating cache"
    BY <1>1, Zenon
  <2>2. NoneTorn'
    BY <1>1, <1>2, <2>1, Zenon DEF Order, NoneTorn
  <2>3. WayIsFree'
    BY <1>1, <1>2, <2>1, Zenon DEF Order, WayIsFree
  <2> QED
    BY <2>2, <2>3
<1>6. LateColumns' /\ NoBadges' /\ SplitIsOver'
  BY <1>1, Zenon DEF LateColumns, NoBadges, SplitIsOver
<1> QED
  BY <1>3, <1>4, <1>5, <1>6, Zenon DEF Order

-----------------------------------------------------------------------------
(* The causes of a failure.                                                 *)

LEMMA OrderStarts == Init => Order
<1> SUFFICES ASSUME Init PROVE Order
  OBVIOUS
<1>0. /\ Scalars /\ audit \in Files /\ cache \in Files /\ at = "stopped" /\ step = 1
      /\ audit.kind # "db" => audit \in {None, Torn}
  BY InitIInv, PartsNow, Zenon DEF Parts, FilesOK, Init
<1>1. Run("migrating audit") = 0 /\ Run("migrating cache") = 0
  BY <1>0, RunOf, Zenon
<1>n. None \in Files /\ None.has = {} /\ None.kind = "none"
  BY Constants
<1>3. /\ audit.kind \in {"none", "db"} /\ cache.kind \in {"none", "db"}
      /\ audit.kind = "none" => cache.kind = "none"
      /\ audit.kind = "db" => Sound(audit) /\ Fresh(audit, AuditScript, 0)
      /\ Fresh(cache, CacheScript, 0)
  <2>1. CASE Untouched
    <3>1. audit = None /\ cache = None
      BY <2>1 DEF Untouched
    <3>2. Fresh(None, CacheScript, 0)
      BY <1>n, ZeroIsNat, FreshEnds, Zenon
    <3> QED
      BY <1>n, <3>1, <3>2, Zenon
  <2>2. CASE PinnedEmpty
    <3>1. audit = Db({}, AuditAtSplit, {}) /\ cache = None
      BY <2>2 DEF PinnedEmpty
    <3>2. audit.has = {} /\ audit.version = 3 /\ audit.kind = "db"
      BY <3>1 DEF Db, AuditAtSplit
    <3>3. Sound(audit)
      BY <3>2 DEF Sound
    <3>4. Fresh(audit, AuditScript, 0) /\ Fresh(None, CacheScript, 0)
      BY <1>0, <1>n, <3>2, ZeroIsNat, FreshEnds, Zenon
    <3> QED
      BY <1>n, <3>1, <3>2, <3>3, <3>4, Zenon
  <2>3. CASE Served
    <3>2. PICK v \in 3..7 : audit = Db(Created(AuditScript, v), v, {"old", "new"})
      BY <2>3, Objects DEF Served, AuditAtSplit
    <3>3. PICK w \in 3..4 : cache = Db(Created(CacheScript, w) \ Lacking, w, {})
      BY <2>3, Objects DEF Served, CacheAtSplit
    <3>4. /\ audit.kind = "db" /\ audit.has = Created(AuditScript, v) /\ audit.version = v
          /\ cache.kind = "db" /\ cache.has = Created(CacheScript, w) \ Lacking /\ cache.version = w
      BY <3>2, <3>3 DEF Db
    <3>5. Sound(audit)
      BY <3>2, <3>4, AuditCreated, Objects DEF Sound
    <3>6. Fresh(audit, AuditScript, 0)
      <4>1. /\ "unifi_result" \in audit.has => audit.version >= 2
            /\ "unifi_log_id" \in audit.has => audit.version >= 4
            /\ "ua_name" \in audit.has => audit.version >= 5
            /\ "ua_email" \in audit.has => audit.version >= 5
        BY <3>2, <3>4, AuditCreated
      <4> QED
        BY <1>0, <4>1, FreshAudit
    <3>7. Fresh(cache, CacheScript, 0)
      <4>1. "badges" \in cache.has => cache.version >= 4
        BY <3>2, <3>4, CacheCreated
      <4> QED
        BY <1>0, <4>1, FreshCache
    <3> QED
      BY <3>4, <3>5, <3>6, <3>7, Zenon
  <2> QED
    BY <2>1, <2>2, <2>3, Zenon DEF Init
<1>4. LateColumns /\ NoBadges /\ SplitIsOver
  BY <1>0, Zenon DEF LateColumns, NoBadges, SplitIsOver
<1>5. WayIsFree /\ NoneTorn
  BY <1>0, <1>3, Zenon DEF WayIsFree, NoneTorn
<1>6. AuditOrder /\ CacheOrder
  BY <1>1, <1>3, Zenon DEF AuditOrder, CacheOrder
<1> QED
  BY <1>4, <1>5, <1>6, Zenon DEF Order

LEMMA OrderStutters == Order /\ UNCHANGED vars => Order'
<1> SUFFICES ASSUME Order, UNCHANGED vars PROVE Order'
  OBVIOUS
<1>1. /\ bridge' = bridge /\ audit' = audit /\ cache' = cache /\ at' = at
      /\ step' = step /\ cut' = cut
  BY Zenon DEF vars
<1>2. Run("migrating audit")' = Run("migrating audit") /\ Run("migrating cache")' = Run("migrating cache")
  BY <1>1, Zenon DEF Run
<1>3. Sound(audit)' <=> Sound(audit)
  BY <1>1, Zenon DEF Sound
<1>4. AuditOrder' /\ CacheOrder'
  BY <1>1, <1>2, <1>3, Zenon DEF Order, AuditOrder, CacheOrder
<1>5. LateColumns' /\ NoBadges' /\ SplitIsOver'
  BY <1>1, Zenon DEF Order, LateColumns, NoBadges, SplitIsOver
<1>6. WayIsFree' /\ NoneTorn'
  BY <1>1, Zenon DEF Order, WayIsFree, NoneTorn
<1> QED
  BY <1>4, <1>5, <1>6, Zenon DEF Order

LEMMA OrderSteps == Parts /\ Parts' /\ Order /\ [Next]_vars => Order'
BY OrderOfPhases, OrderOfRefuses, OrderOfCrashes, OrderOfFails, OrderOfRest, OrderOfCopies,
   OrderOfPrunesAudit, OrderOfPrunesCache, OrderOfOpensCache, OrderOfUse, OrderOfOpensAudit,
   OrderOfMigratesCache, OrderOfMigratesAudit, OrderStutters, Zenon
DEF Next, Opens

\* Unless something was cut off, every boot finds and leaves the files in
\* order: no torn file, no cache.db in the way of a split, no copy that was
\* not pruned, no half of a migration.
THEOREM LeavesOrder == Spec => []OrderInv
<1>1. Init => Parts /\ Order
  BY InitIInv, PartsNow, OrderStarts, Zenon
<1>2. Parts /\ Order /\ [Next]_vars => (Parts /\ Order)'
  BY PartsSteps, OrderSteps, Zenon
<1>3. Order => OrderInv
  BY OrderNow, Zenon
<1> QED
  BY <1>1, <1>2, <1>3, PTL DEF Spec

LEMMA FailureStep ==
  ASSUME Parts, Order, [Next]_vars, at # "failed", at' = "failed" PROVE ~clean' \/ cut'
<1>1. CASE Refuses
  BY <1>1, RefusedMeansCut, SmoothKeeps, Zenon DEF Refuses
<1>2. CASE Fails \/ CloseFails
  BY <1>2, Zenon DEF Fails, CloseFails, Fault
<1>3. CASE UNCHANGED vars
  BY <1>3, Zenon DEF vars
<1>4. CASE Boots \/ SkipsSplit \/ PutsAside \/ StartsSplit \/ Renames \/ CacheMigrated
  BY <1>4, Zenon DEF Boots, SkipsSplit, PutsAside, StartsSplit, Renames, CacheMigrated, Goes
<1>5. CASE CopiesAudit \/ CreatesCache \/ CopiesCache \/ OpensCache \/ OpensAudit \/ Serves
  BY <1>5, Zenon DEF CopiesAudit, CreatesCache, CopiesCache, OpensCache, OpensAudit, Serves, Goes
<1>6. CASE PrunesAudit \/ PrunesCache
  BY <1>6, Zenon DEF PrunesAudit, PrunesCache, PruneGoes, Goes
<1>7. CASE MigratesCache \/ MigratesAudit
  BY <1>7, Zenon DEF MigratesCache, MigratesAudit, MigrationGoes
<1>8. CASE RenameFails \/ Crashes \/ Stops
  BY <1>8, Zenon DEF RenameFails, Crashes, Stops, Goes
<1>9. CASE Records \/ WipesCache \/ DeletesBackup \/ RollsBack
  BY <1>9, Zenon DEF Records, WipesCache, DeletesBackup, RollsBack
<1> QED
  BY <1>1, <1>2, <1>3, <1>4, <1>5, <1>6, <1>7, <1>8, <1>9, Zenon DEF Next, Opens

\* A boot fails because an operation of its own does, or because something
\* was cut off before: never because of what another boot left in order.
THEOREM FailuresAreExplained == Spec => FailuresHaveCauses
<1>1. Init => Parts /\ Order
  BY InitIInv, PartsNow, OrderStarts, Zenon
<1>2. Parts /\ Order /\ [Next]_vars => (Parts /\ Order)'
  BY PartsSteps, OrderSteps, Zenon
<1>3. Parts /\ Order /\ [Next]_vars => [at # "failed" /\ at' = "failed" => ~clean' \/ cut']_vars
  BY FailureStep, Zenon
<1> QED
  BY <1>1, <1>2, <1>3, PTL DEF Spec, FailuresHaveCauses

=============================================================================
