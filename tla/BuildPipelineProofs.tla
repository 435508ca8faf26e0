------------------------- MODULE BuildPipelineProofs -------------------------
(***************************************************************************)
(* What readers find in the database of a build, for any number of builds, *)
(* snapshots, configurations, exceptions and crashes; the rows that the    *)
(* syntax indexer writes, for any project; the percentages of a job; and   *)
(* the settings of an embedding pipeline.                                  *)
(***************************************************************************)
EXTENDS Serving, SyntaxIndexer, JobProgress, Configuration, SequenceTheorems, WellFoundedInduction, TLAPS

Writing == {"documents", "symbols", "commit"}
Deriving == {"code_graph", "chunk", "embed"}
Prepared == {"clear", "stats"} \cup Writing \cup Deriving

(* An index_info of the build under way.                                   *)
IsNow(info) ==
  /\ info \in Infos
  /\ info.snapshot = request.snapshot /\ info.mode = source /\ info.build = builds

NothingDerived(db) == db.graph = {} /\ db.chunks = {} /\ db.vectors = {}

(* What both invariants say of the database on disk.                       *)
Sound(db) ==
  /\ Openable(db)
  /\ db.rows # {} => db.rows = RowsOf(db.info.build, db.info.mode)
  /\ db.graph \cup db.chunks \cup db.vectors \subseteq BuildsOf(db.rows)
  /\ db.vectors \subseteq db.chunks
  /\ db.rows # {} /\ db.info.mode = "document" => db.graph = {}

(* A build under way has a request and a number.                           *)
RunInv == pc \notin Ended => builds \in Builds /\ request \in Requests

(* After prepare_index the cache is the open transaction's index_info; at  *)
(* all times it tells the snapshot of the index that is committed.         *)
CacheInv ==
  /\ pc \in Prepared => IsNow(tx.info) /\ cache = tx.info
  /\ pc \notin Ended /\ disk.info # None => cache # None /\ cache.snapshot = disk.info.snapshot

(* While rows are written the committed tables are empty, and the open     *)
(* transaction has the rows written so far and nothing else.               *)
WriteInv ==
  /\ pc \in Writing =>
       /\ disk.rows = {} /\ NothingDerived(disk) /\ NothingDerived(tx) /\ disk.info = tx.info
       /\ tx.rows \subseteq RowsOf(builds, source)
       /\ \A r \in RowsOf(builds, source) :
            (pc \in {"symbols", "commit"} /\ r.table = "documents") \/ pc = "commit" => r \in tx.rows
  /\ pc = "stats" => tx = disk /\ tx.rows = RowsOf(builds, source) /\ NothingDerived(tx)
  /\ pc \in Deriving => tx = disk /\ tx.rows = RowsOf(builds, source)

Inv == TypeOK /\ RunInv /\ CacheInv /\ WriteInv /\ Sound(disk)

LEMMA InvInit == Init => Inv
<1> SUFFICES ASSUME Init PROVE Inv
  OBVIOUS
<1>1. disk \in Databases /\ tx = disk
  BY DEF Init, Databases
<1>2. TypeOK
  <2>1. tx \in Databases
    BY <1>1
  <2>2. /\ cache = None /\ pc = "done" /\ request = None /\ source = "scip"
        /\ failure = FALSE /\ builds = 0
    BY DEF Init
  <2>3. builds \in 0..MaxBuilds
    BY <2>2, BoundAssumption
  <2>4. pc \in Ended /\ source \in Modes
    BY <2>2 DEF Ended, Modes
  <2> QED
    BY <1>1, <2>1, <2>2, <2>3, <2>4 DEF TypeOK
<1>3. RunInv /\ CacheInv /\ WriteInv
  BY DEF Init, RunInv, CacheInv, WriteInv, Ended, Prepared, Writing, Deriving
<1>4. Sound(disk)
  BY DEF Init, Sound, Openable, HasData
<1> QED
  BY <1>2, <1>3, <1>4 DEF Inv

(* The build ends without a commit: what is on disk stays as it was.       *)
LEMMA EndKeepsInv ==
  ASSUME Inv, pc' \in {"raised", "dead"}, tx' = disk, failure' \in BOOLEAN,
         UNCHANGED <<disk, cache, request, source, builds>>
  PROVE  Inv'
<1>1. TypeOK'
  BY DEF Inv, TypeOK, Ended
<1>2. RunInv' /\ CacheInv' /\ WriteInv'
  BY DEF RunInv, CacheInv, WriteInv, Ended, Prepared, Writing, Deriving
<1>3. Sound(disk')
  BY DEF Inv
<1> QED
  BY <1>1, <1>2, <1>3 DEF Inv

(* On to prepare_index, with nothing touched but the source indexer.       *)
LEMMA ToPrepareKeepsInv ==
  ASSUME Inv, pc \notin Ended, pc' = "prepare", source' \in Modes, failure' \in BOOLEAN,
         UNCHANGED <<disk, tx, cache, request, builds>>
  PROVE  Inv'
<1>1. TypeOK'
  BY DEF Inv, TypeOK
<1>2. RunInv' /\ CacheInv' /\ WriteInv'
  BY DEF Inv, RunInv, CacheInv, WriteInv, Ended, Prepared, Writing, Deriving
<1>3. Sound(disk')
  BY DEF Inv
<1> QED
  BY <1>1, <1>2, <1>3 DEF Inv

LEMMA IndexerRaisesKeepsInv ==
  ASSUME Inv, pc \notin Ended, IndexerRaises
  PROVE  Inv'
<1>1. failure' \in BOOLEAN
  BY DEF IndexerRaises, Inv, TypeOK
<1>2. CASE source = "syntax" /\ request.backend = ""
  BY <1>1, <1>2, ToPrepareKeepsInv DEF IndexerRaises, Modes
<1>3. CASE ~(source = "syntax" /\ request.backend = "")
  BY <1>1, <1>3, EndKeepsInv DEF IndexerRaises, Abort
<1> QED
  BY <1>2, <1>3

LEMMA StartKeepsInv ==
  ASSUME Inv, Start
  PROVE  Inv'
<1>1. /\ builds' = builds + 1 /\ builds < MaxBuilds /\ request' \in Requests
      /\ cache' = disk.info /\ tx' = disk /\ disk' = disk /\ failure' = FALSE
      /\ source' \in {"syntax", "document", "scip"}
      /\ pc' \in {"raised", "scip_java", "prepare"}
  BY DEF Start
<1>2. builds' \in Builds
  BY <1>1, BoundAssumption DEF Inv, TypeOK, Builds
<1>3. TypeOK'
  <2>1. disk \in Databases /\ disk.info \in Infos \cup {None}
    BY DEF Inv, TypeOK, Databases
  <2>2. builds' \in 0..MaxBuilds
    BY <1>2, BoundAssumption DEF Builds
  <2> QED
    BY <1>1, <2>1, <2>2 DEF TypeOK, Ended, Modes
<1>4. RunInv' /\ CacheInv' /\ WriteInv'
  BY <1>1, <1>2 DEF RunInv, CacheInv, WriteInv, Ended, Prepared, Writing, Deriving
<1> QED
  BY <1>1, <1>3, <1>4 DEF Inv

LEMMA InfoNowType ==
  ASSUME Inv, pc \notin Ended, NEW stats \in BOOLEAN
  PROVE  /\ InfoNow(stats) \in Infos
         /\ InfoNow(stats).snapshot = request.snapshot
         /\ InfoNow(stats).mode = source /\ InfoNow(stats).build = builds
BY DEF Inv, RunInv, TypeOK, InfoNow, Infos, Requests

LEMMA PrepareKeepsInv ==
  ASSUME Inv, Prepare
  PROVE  Inv'
<1>1. pc = "prepare" /\ pc \notin Ended
  BY DEF Prepare, Ended
<1>2. CASE Existing # None /\ Existing.snapshot # request.snapshot
  BY <1>1, <1>2, IndexerRaisesKeepsInv DEF Prepare
<1>3. CASE ~(Existing # None /\ Existing.snapshot # request.snapshot)
  <2> DEFINE info == InfoNow(source = "scip")
  <2>1. /\ pc' = "clear" /\ tx' = [tx EXCEPT !.info = info] /\ cache' = tx'.info
        /\ UNCHANGED <<disk, request, source, failure, builds>>
    BY <1>3 DEF Prepare
  <2>2. info \in Infos /\ info.snapshot = request.snapshot /\ info.mode = source /\ info.build = builds
    BY <1>1, InfoNowType
  <2>3. tx \in Databases
    BY DEF Inv, TypeOK
  <2>4. tx' \in Databases /\ tx'.info = info
    BY <2>1, <2>2, <2>3 DEF Databases
  <2>5. TypeOK'
    BY <2>1, <2>2, <2>4 DEF Inv, TypeOK
  <2>6. disk.info # None => disk.info.snapshot = request.snapshot
    BY <1>1, <1>3 DEF Inv, CacheInv, Existing
  <2>7. info # None
    BY <2>2, NoneAssumption
  <2>8. RunInv' /\ CacheInv' /\ WriteInv'
    BY <1>1, <2>1, <2>2, <2>4, <2>6, <2>7
       DEF Inv, RunInv, CacheInv, WriteInv, IsNow, Ended, Prepared, Writing, Deriving
  <2>9. Sound(disk')
    BY <2>1 DEF Inv
  <2> QED
    BY <2>5, <2>8, <2>9 DEF Inv
<1> QED
  BY <1>2, <1>3

(* What Write leaves of the open transaction but its rows.                 *)
LEMMA WriteRows ==
  ASSUME tx \in Databases, NEW table, Write(table)
  PROVE  /\ tx'.rows = tx.rows \cup {r \in RowsOf(builds, source) : r.table = table}
         /\ tx'.info = tx.info /\ tx'.graph = tx.graph
         /\ tx'.chunks = tx.chunks /\ tx'.vectors = tx.vectors
BY DEF Write, Databases

LEMMA RowsType ==
  ASSUME NEW b \in Builds, NEW m \in Modes
  PROVE  /\ RowsOf(b, m) \subseteq [build : Builds, mode : Modes, table : {"documents", "symbols"}]
         /\ RowsOf(b, m) # {} /\ BuildsOf(RowsOf(b, m)) = {b}
         /\ \A r \in RowsOf(b, m) : r.table \in {"documents", "symbols"}
<1>1. TablesOf(m) \subseteq {"documents", "symbols"} /\ "documents" \in TablesOf(m)
  BY DEF TablesOf
<1>2. ASSUME NEW r \in RowsOf(b, m)
      PROVE  /\ r \in [build : Builds, mode : Modes, table : {"documents", "symbols"}]
             /\ r.build = b /\ r.table \in {"documents", "symbols"}
  <2>1. PICK t \in TablesOf(m) : r = [build |-> b, mode |-> m, table |-> t]
    BY DEF RowsOf
  <2> QED
    BY <1>1, <2>1
<1>3. [build |-> b, mode |-> m, table |-> "documents"] \in RowsOf(b, m)
  BY <1>1 DEF RowsOf
<1>4. BuildsOf(RowsOf(b, m)) = {b}
  BY <1>2, <1>3 DEF BuildsOf
<1> QED
  BY <1>2, <1>3, <1>4

(* A database whose tables are empty is sound once index_info is there.    *)
LEMMA EmptyIsSound ==
  ASSUME NEW db, db.rows = {}, NothingDerived(db), db.info # None
  PROVE  Sound(db)
BY DEF Sound, NothingDerived, Openable, BuildsOf

LEMMA ClearKeepsInv ==
  ASSUME Inv, Clear
  PROVE  Inv'
<1>1. /\ pc = "clear" /\ pc' = "documents"
      /\ tx' = [tx EXCEPT !.rows = {}, !.graph = {}, !.chunks = {}, !.vectors = {}]
      /\ disk' = tx' /\ UNCHANGED <<cache, request, source, failure, builds>>
  BY DEF Clear
<1>2. /\ tx' \in Databases /\ tx'.rows = {} /\ tx'.info = tx.info /\ NothingDerived(tx')
  BY <1>1 DEF Inv, TypeOK, Databases, NothingDerived
<1>3. IsNow(tx.info) /\ cache = tx.info /\ tx.info # None
  BY <1>1, NoneAssumption DEF Inv, CacheInv, Prepared, IsNow
<1>4. TypeOK'
  BY <1>1, <1>2 DEF Inv, TypeOK
<1>5. RunInv' /\ CacheInv'
  BY <1>1, <1>2, <1>3 DEF Inv, RunInv, CacheInv, IsNow, Ended, Prepared, Writing, Deriving
<1>6. WriteInv'
  BY <1>1, <1>2 DEF WriteInv, NothingDerived, Writing, Deriving
<1>7. Sound(disk')
  BY <1>1, <1>2, <1>3, EmptyIsSound
<1> QED
  BY <1>4, <1>5, <1>6, <1>7 DEF Inv

LEMMA WriteKeepsInv ==
  ASSUME Inv, WriteDocuments \/ WriteSymbols
  PROVE  Inv'
<1>1. /\ pc \in {"documents", "symbols"}
      /\ pc' = IF pc = "documents" THEN "symbols" ELSE "commit"
      /\ Write(pc)
      /\ UNCHANGED <<disk, cache, request, source, failure, builds>>
  BY DEF WriteDocuments, WriteSymbols
<1>2. tx \in Databases /\ builds \in Builds /\ source \in Modes
  BY <1>1 DEF Inv, TypeOK, RunInv, Ended
<1> DEFINE new == {r \in RowsOf(builds, source) : r.table = pc}
<1>3. /\ tx'.rows = tx.rows \cup new /\ tx'.info = tx.info /\ tx'.graph = tx.graph
      /\ tx'.chunks = tx.chunks /\ tx'.vectors = tx.vectors
  BY <1>1, <1>2, WriteRows
<1>4. tx' \in Databases
  BY <1>1, <1>2, RowsType DEF Write, Databases
<1>5. TypeOK'
  BY <1>1, <1>4 DEF Inv, TypeOK
<1>6. RunInv' /\ CacheInv'
  BY <1>1, <1>3 DEF Inv, RunInv, CacheInv, IsNow, Ended, Prepared, Writing, Deriving
<1>7. WriteInv'
  <2>1. /\ disk.rows = {} /\ NothingDerived(disk) /\ NothingDerived(tx) /\ disk.info = tx.info
        /\ tx.rows \subseteq RowsOf(builds, source)
        /\ \A r \in RowsOf(builds, source) : pc = "symbols" /\ r.table = "documents" => r \in tx.rows
    BY <1>1 DEF Inv, WriteInv, Writing
  <2>2. tx'.rows \subseteq RowsOf(builds, source)
    BY <1>3, <2>1
  <2>3. ASSUME NEW r \in RowsOf(builds, source),
               (pc' \in {"symbols", "commit"} /\ r.table = "documents") \/ pc' = "commit"
        PROVE  r \in tx'.rows
    BY <1>1, <1>2, <1>3, <2>1, <2>3, RowsType
  <2> QED
    BY <1>1, <1>3, <2>1, <2>2, <2>3 DEF WriteInv, NothingDerived, Writing, Deriving
<1>8. Sound(disk')
  BY <1>1 DEF Inv
<1> QED
  BY <1>5, <1>6, <1>7, <1>8 DEF Inv

(* The rows of the build under way are committed, and nothing but them.    *)
LEMMA RowsAreSound ==
  ASSUME NEW db, NEW b \in Builds, NEW m \in Modes,
         db.rows = RowsOf(b, m), db.info # None, db.info.build = b, db.info.mode = m,
         db.graph \subseteq {b}, db.chunks \subseteq {b}, db.vectors \subseteq db.chunks,
         m = "document" => db.graph = {}
  PROVE  Sound(db)
BY RowsType DEF Sound, Openable

LEMMA CommitRowsKeepsInv ==
  ASSUME Inv, CommitRows
  PROVE  Inv'
<1>1. /\ pc = "commit" /\ disk' = tx /\ tx' = tx
      /\ pc' \in {"code_graph", "stats"}
      /\ UNCHANGED <<cache, request, source, failure, builds>>
  BY DEF CommitRows
<1>2. tx \in Databases /\ builds \in Builds /\ source \in Modes
  BY <1>1 DEF Inv, TypeOK, RunInv, Ended
<1>3. /\ NothingDerived(tx) /\ IsNow(tx.info) /\ cache = tx.info
      /\ tx.rows = RowsOf(builds, source)
  BY <1>1 DEF Inv, WriteInv, CacheInv, Writing, Prepared
<1>4. TypeOK'
  BY <1>1, <1>2 DEF Inv, TypeOK
<1>5. RunInv' /\ CacheInv'
  BY <1>1, <1>2, <1>3, NoneAssumption
     DEF Inv, RunInv, CacheInv, IsNow, Ended, Prepared, Writing, Deriving
<1>6. WriteInv'
  BY <1>1, <1>3 DEF WriteInv, NothingDerived, Writing, Deriving
<1>7. Sound(disk')
  BY <1>1, <1>2, <1>3, RowsAreSound, NoneAssumption DEF IsNow, NothingDerived
<1> QED
  BY <1>4, <1>5, <1>6, <1>7 DEF Inv

LEMMA RecordStatsKeepsInv ==
  ASSUME Inv, RecordStats
  PROVE  Inv'
<1> DEFINE info == InfoNow(TRUE)
<1>1. /\ pc = "stats" /\ pc' = "code_graph"
      /\ tx' = [tx EXCEPT !.info = info] /\ disk' = tx' /\ cache' = tx'.info
      /\ UNCHANGED <<request, source, failure, builds>>
  BY DEF RecordStats
<1>2. tx \in Databases /\ builds \in Builds /\ source \in Modes
  BY <1>1 DEF Inv, TypeOK, RunInv, Ended
<1>3. pc \notin Ended
  BY <1>1 DEF Ended
<1>4. info \in Infos /\ info.snapshot = request.snapshot /\ info.mode = source /\ info.build = builds
  BY <1>3, InfoNowType
<1>5. tx.rows = RowsOf(builds, source) /\ NothingDerived(tx)
  BY <1>1 DEF Inv, WriteInv
<1> HIDE DEF info
<1>6. /\ tx' \in Databases /\ tx'.info = info /\ tx'.rows = RowsOf(builds, source)
      /\ NothingDerived(tx')
  BY <1>1, <1>2, <1>4, <1>5 DEF Databases, NothingDerived
<1>7. TypeOK'
  BY <1>1, <1>4, <1>6 DEF Inv, TypeOK
<1>8. RunInv' /\ CacheInv'
  BY <1>1, <1>3, <1>4, <1>6, NoneAssumption
     DEF Inv, RunInv, CacheInv, IsNow, Ended, Prepared, Writing, Deriving
<1>9. WriteInv'
  BY <1>1, <1>6 DEF WriteInv, Writing, Deriving
<1>10. Sound(disk')
  BY <1>1, <1>2, <1>4, <1>6, RowsAreSound, NoneAssumption DEF NothingDerived
<1> QED
  BY <1>7, <1>8, <1>9, <1>10 DEF Inv

(* A derived stage commits rows of the build under way and no others.      *)
LEMMA StageKeepsInv ==
  ASSUME Inv, NEW now \in Deriving, NEW next \in Deriving \cup {"done"}, NEW new, Stage(now, next, new),
         new \in Databases, new.info = tx.info, new.rows = tx.rows,
         new.graph \subseteq BuildsOf(tx.rows), new.chunks \subseteq BuildsOf(tx.rows),
         new.vectors \subseteq new.chunks, tx.info.mode = "document" => new.graph = {}
  PROVE  Inv'
<1>1. /\ pc = now /\ pc' = next /\ tx' = new /\ disk' = new
      /\ UNCHANGED <<cache, request, source, failure, builds>>
  BY DEF Stage
<1>2. pc \notin Ended /\ pc \in Prepared
  BY <1>1 DEF Deriving, Ended, Prepared
<1>3. builds \in Builds /\ source \in Modes
  BY <1>2 DEF Inv, TypeOK, RunInv
<1>4. IsNow(tx.info) /\ cache = tx.info /\ tx.rows = RowsOf(builds, source)
  BY <1>1, <1>2 DEF Inv, CacheInv, WriteInv
<1>5. TypeOK'
  BY <1>1 DEF Inv, TypeOK, Deriving, Ended
<1>6. RunInv' /\ CacheInv'
  BY <1>1, <1>2, <1>4, NoneAssumption DEF Inv, RunInv, CacheInv, IsNow
<1>7. WriteInv'
  BY <1>1, <1>4 DEF WriteInv, Writing, Deriving, Ended
<1>8. BuildsOf(tx.rows) = {builds}
  BY <1>3, <1>4, RowsType
<1>9. Sound(new)
  BY <1>3, <1>4, <1>8, RowsAreSound, NoneAssumption DEF IsNow
<1> QED
  BY <1>1, <1>5, <1>6, <1>7, <1>9 DEF Inv

(* What the derived stages find.                                           *)
LEMMA DerivingFinds ==
  ASSUME Inv, pc \in Deriving
  PROVE  /\ tx \in Databases /\ tx = disk /\ cache = tx.info
         /\ BuildsOf(tx.rows) \subseteq Builds
         /\ tx.graph \cup tx.chunks \cup tx.vectors \subseteq BuildsOf(tx.rows)
         /\ tx.vectors \subseteq tx.chunks
         /\ tx.info.mode = "document" => tx.graph = {}
<1>1. pc \in Prepared /\ pc \notin Ended
  BY DEF Deriving, Prepared, Ended
<1>2. tx \in Databases /\ tx = disk /\ cache = tx.info /\ Sound(disk)
  BY <1>1 DEF Inv, TypeOK, CacheInv, WriteInv
<1>3. builds \in Builds /\ source \in Modes /\ tx.rows = RowsOf(builds, source)
  BY <1>1 DEF Inv, TypeOK, RunInv, WriteInv
<1>4. tx.rows # {} /\ BuildsOf(tx.rows) = {builds}
  BY <1>3, RowsType
<1> QED
  BY <1>2, <1>3, <1>4 DEF Sound

LEMMA DerivedStagesKeepInv ==
  ASSUME Inv, BuildCodeGraph \/ BuildChunks \/ EmbedSome \/ EmbedDone
  PROVE  Inv'
<1>1. pc \in Deriving
  BY DEF BuildCodeGraph, BuildChunks, EmbedSome, EmbedDone, Stage, Deriving
<1>2. /\ tx \in Databases /\ cache = tx.info
      /\ BuildsOf(tx.rows) \subseteq Builds
      /\ tx.graph \cup tx.chunks \cup tx.vectors \subseteq BuildsOf(tx.rows)
      /\ tx.vectors \subseteq tx.chunks
      /\ tx.info.mode = "document" => tx.graph = {}
  BY <1>1, DerivingFinds
<1>3. CASE BuildCodeGraph
  <2> DEFINE new == [tx EXCEPT !.graph = IF cache.mode = "document" THEN {} ELSE BuildsOf(tx.rows)]
  <2>1. Stage("code_graph", "chunk", new)
    BY <1>3 DEF BuildCodeGraph
  <2>2. /\ new \in Databases /\ new.info = tx.info /\ new.rows = tx.rows
        /\ new.graph \subseteq BuildsOf(tx.rows) /\ new.chunks = tx.chunks /\ new.vectors = tx.vectors
        /\ tx.info.mode = "document" => new.graph = {}
    BY <1>2 DEF Databases
  <2> QED
    BY <1>2, <2>1, <2>2, StageKeepsInv DEF Deriving
<1>4. CASE BuildChunks
  <2> DEFINE new == [tx EXCEPT !.chunks = @ \cup BuildsOf(tx.rows)]
  <2>1. Stage("chunk", "embed", new)
    BY <1>4 DEF BuildChunks
  <2>2. /\ new \in Databases /\ new.info = tx.info /\ new.rows = tx.rows
        /\ new.graph = tx.graph /\ new.chunks = tx.chunks \cup BuildsOf(tx.rows)
        /\ new.vectors = tx.vectors
    BY <1>2 DEF Databases
  <2> QED
    BY <1>2, <2>1, <2>2, StageKeepsInv DEF Deriving
<1>5. CASE EmbedSome
  <2> DEFINE new == [tx EXCEPT !.vectors = @ \cup tx.chunks]
  <2>1. Stage("embed", "embed", new)
    BY <1>5 DEF EmbedSome
  <2>2. /\ new \in Databases /\ new.info = tx.info /\ new.rows = tx.rows
        /\ new.graph = tx.graph /\ new.chunks = tx.chunks
        /\ new.vectors = tx.vectors \cup tx.chunks
    BY <1>2 DEF Databases
  <2> QED
    BY <1>2, <2>1, <2>2, StageKeepsInv DEF Deriving
<1>6. CASE EmbedDone
  BY <1>2, <1>6, StageKeepsInv DEF EmbedDone, Deriving
<1> QED
  BY <1>3, <1>4, <1>5, <1>6

LEMMA ScipJavaKeepsInv ==
  ASSUME Inv, ScipJavaDone \/ ScipJavaFails
  PROVE  Inv'
<1>1. pc = "scip_java" /\ pc \notin Ended
  BY DEF ScipJavaDone, ScipJavaFails, Ended
<1>2. source \in Modes /\ failure \in BOOLEAN /\ request \in Requests
  BY <1>1 DEF Inv, TypeOK, RunInv
<1>3. CASE ScipJavaDone
  BY <1>1, <1>2, <1>3, ToPrepareKeepsInv DEF ScipJavaDone
<1>4. CASE ScipJavaFails /\ (request.backend = "scip-java" \/ request.fallback = "off")
  BY <1>4, EndKeepsInv DEF ScipJavaFails, Abort
<1>5. CASE ScipJavaFails /\ ~(request.backend = "scip-java" \/ request.fallback = "off")
  <2>1. request.fallback \in Modes
    BY <1>2, <1>5 DEF Requests, Fallbacks, Modes
  <2> QED
    BY <1>1, <1>5, <2>1, ToPrepareKeepsInv DEF ScipJavaFails
<1> QED
  BY <1>3, <1>4, <1>5

LEMMA InvNext ==
  ASSUME Inv, [Next]_vars
  PROVE  Inv'
<1>1. CASE Start
  BY <1>1, StartKeepsInv
<1>2. CASE ScipJavaDone \/ ScipJavaFails
  BY <1>2, ScipJavaKeepsInv
<1>3. CASE Prepare
  BY <1>3, PrepareKeepsInv
<1>4. CASE Clear
  BY <1>4, ClearKeepsInv
<1>5. CASE WriteDocuments \/ WriteSymbols
  BY <1>5, WriteKeepsInv
<1>6. CASE CommitRows
  BY <1>6, CommitRowsKeepsInv
<1>7. CASE RecordStats
  BY <1>7, RecordStatsKeepsInv
<1>8. CASE SourceFails
  BY <1>8, IndexerRaisesKeepsInv DEF SourceFails, Ended
<1>9. CASE BuildCodeGraph \/ BuildChunks \/ EmbedSome \/ EmbedDone
  BY <1>9, DerivedStagesKeepInv
<1>10. CASE StageFails \/ Crash
  BY <1>10, EndKeepsInv DEF StageFails, Crash, Abort, Inv, TypeOK
<1>11. CASE UNCHANGED vars
  BY <1>11 DEF vars, Inv, TypeOK, RunInv, CacheInv, IsNow, WriteInv
<1> QED
  BY <1>1, <1>2, <1>3, <1>4, <1>5, <1>6, <1>7, <1>8, <1>9, <1>10, <1>11 DEF Next

THEOREM InvHolds == Spec => []Inv
BY InvInit, InvNext, PTL DEF Spec

(* TypeOK holds of the build pipeline for any snapshots and builds.        *)
THEOREM TypeCorrect == Spec => []TypeOK
<1>1. Inv => TypeOK
  BY DEF Inv
<1> QED
  BY <1>1, InvHolds, PTL

(* However builds fall back, raise and die, the database on disk has rows  *)
(* of one build and mode, all or none, with the index_info that tells them *)
(* (InfoDescribesRows).                                                    *)
THEOREM ReadersFindOneBuild == Spec => []InfoDescribesRows
<1>1. Inv => InfoDescribesRows
  BY DEF Inv, Sound, InfoDescribesRows
<1> QED
  BY <1>1, InvHolds, PTL

(* Code graph, chunks and vectors on disk always belong to the rows there, *)
(* whichever stage of whichever build failed (DerivedFromRows).            *)
THEOREM DerivedBelongsToRows == Spec => []DerivedFromRows
<1>1. Inv => DerivedFromRows
  BY DEF Inv, Sound, DerivedFromRows
<1> QED
  BY <1>1, InvHolds, PTL

(* The snapshot of a database never changes once there is one.             *)
LEMMA SnapshotStays ==
  ASSUME Inv, [Next]_vars, disk.info # None
  PROVE  disk'.info # None /\ disk'.info.snapshot = disk.info.snapshot
<1>1. CASE disk' = disk
  BY <1>1
<1>2. CASE Clear \/ CommitRows \/ RecordStats
  <2>1. pc \notin Ended /\ pc \in Prepared
    BY <1>2 DEF Clear, CommitRows, RecordStats, Ended, Prepared, Writing
  <2>2. IsNow(tx.info) /\ tx.info.snapshot = disk.info.snapshot
    BY <2>1 DEF Inv, CacheInv
  <2>3. tx \in Databases
    BY DEF Inv, TypeOK
  <2>4. InfoNow(TRUE) \in Infos /\ InfoNow(TRUE).snapshot = request.snapshot
    BY <2>1, InfoNowType
  <2>5. disk'.info \in {tx.info, InfoNow(TRUE)}
    BY <1>2, <2>3 DEF Clear, CommitRows, RecordStats, Databases
  <2> QED
    BY <2>2, <2>4, <2>5, NoneAssumption DEF IsNow
<1>3. CASE BuildCodeGraph \/ BuildChunks \/ EmbedSome \/ EmbedDone
  <2>1. tx \in Databases /\ tx = disk
    BY <1>3, DerivingFinds
       DEF BuildCodeGraph, BuildChunks, EmbedSome, EmbedDone, Stage, Deriving
  <2>2. disk'.info = tx.info
    BY <1>3, <2>1 DEF BuildCodeGraph, BuildChunks, EmbedSome, EmbedDone, Stage, Databases
  <2> QED
    BY <2>1, <2>2
<1> QED
  BY <1>1, <1>2, <1>3
     DEF Next, vars, Start, ScipJavaDone, ScipJavaFails, Prepare, IndexerRaises, WriteDocuments,
         WriteSymbols, SourceFails, StageFails, Crash

(* No sequence of builds, fallbacks and crashes turns a database over to   *)
(* another repository or commit (OneSnapshot).                             *)
THEOREM SnapshotIsForEver == Spec => OneSnapshot
<1>1. Inv /\ [Next]_vars
        => [disk.info # None => disk'.info # None /\ disk'.info.snapshot = disk.info.snapshot]_vars
  BY SnapshotStays
<1> QED
  BY <1>1, InvHolds, PTL DEF Spec, OneSnapshot

-----------------------------------------------------------------------------
(* Fallbacks *)

(* What index_info has to tell of a build that wrote rows of a mode, and   *)
(* that recorded or did not record a failure of scip-java.                 *)
Recorded(mode, failed) ==
  IF request.backend = ""
  THEN /\ failed <=> mode # "scip"
       /\ request.fallback = "off" => mode = "scip"
  ELSE /\ ~failed
       /\ request.backend = "scip-java" <=> mode = "scip"
       /\ request.backend = "document" <=> mode = "document"

(* A build under way has the source indexer and the failure that its       *)
(* configuration allows, and the index_info it has prepared repeats that   *)
(* failure; the database is of a build that has begun.                     *)
RecordInv ==
  /\ pc \notin Ended => Recorded(source, failure)
  /\ pc = "scip_java" => source = "scip"
  /\ pc \in Prepared => tx.info.failure = failure
  /\ disk.info # None => disk.info.build <= builds
  /\ disk.info # None /\ disk.info.build = builds => Recorded(disk.info.mode, disk.info.failure)

LEMMA RecordInit == Init => RecordInv
BY DEF Init, RecordInv, Ended, Prepared, Writing, Deriving

(* The build ends without a commit.                                        *)
LEMMA EndKeepsRecord ==
  ASSUME RecordInv, pc' \in Ended, UNCHANGED <<disk, request, builds>>
  PROVE  RecordInv'
BY DEF RecordInv, Recorded, Ended, Prepared, Writing, Deriving

(* Only the document indexer follows a source indexer that raises, and     *)
(* only where scip-java has failed before.                                 *)
LEMMA IndexerRaisesKeepsRecord ==
  ASSUME Inv, RecordInv, pc \notin Ended, IndexerRaises
  PROVE  RecordInv'
<1>1. UNCHANGED <<disk, cache, request, failure, builds>>
  BY DEF IndexerRaises
<1>2. CASE source = "syntax" /\ request.backend = ""
  <2>1. pc' = "prepare" /\ source' = "document"
    BY <1>2 DEF IndexerRaises
  <2>2. Recorded(source, failure)
    BY DEF RecordInv
  <2>3. Recorded(source, failure)'
    BY <1>1, <1>2, <2>1, <2>2 DEF Recorded
  <2> QED
    BY <1>1, <2>1, <2>3 DEF RecordInv, Recorded, Prepared, Writing, Deriving
<1>3. CASE ~(source = "syntax" /\ request.backend = "")
  BY <1>1, <1>3, EndKeepsRecord DEF IndexerRaises, Abort, Ended
<1> QED
  BY <1>2, <1>3

(* A new build: the one on disk is older.                                  *)
LEMMA StartKeepsRecord ==
  ASSUME Inv, RecordInv, Start
  PROVE  RecordInv'
<1>1. /\ builds' = builds + 1 /\ request' \in Requests /\ disk' = disk /\ failure' = FALSE
      /\ source' = CASE request'.backend = "tree-sitter-java" -> "syntax"
                     [] request'.backend = "document" -> "document"
                     [] OTHER -> "scip"
      /\ pc' \in {"raised", "scip_java", "prepare"}
  BY DEF Start
<1>2. request'.backend \in Backends
  BY <1>1 DEF Requests
<1>3. Recorded(source, failure)'
  BY <1>1, <1>2 DEF Recorded, Backends
<1>0. pc' = "scip_java" => source' = "scip"
  BY DEF Start
<1>4. disk.info # None => disk.info.build < builds'
  <2>1. builds \in Int /\ (disk.info # None => disk.info.build \in Int)
    BY DEF Inv, TypeOK, Databases, Infos, Builds
  <2> QED
    BY <1>1, <2>1 DEF RecordInv
<1>5. disk.info # None => disk.info.build <= builds' /\ disk.info.build # builds'
  <2>1. builds' \in Int /\ (disk.info # None => disk.info.build \in Int)
    BY <1>1 DEF Inv, TypeOK, Databases, Infos, Builds
  <2> QED
    BY <1>4, <2>1
<1> QED
  BY <1>0, <1>1, <1>3, <1>5 DEF RecordInv, Prepared, Writing, Deriving

(* The failure of scip-java is handed to the fallback.                     *)
LEMMA ScipJavaKeepsRecord ==
  ASSUME Inv, RecordInv, ScipJavaDone \/ ScipJavaFails
  PROVE  RecordInv'
<1>1. pc = "scip_java" /\ pc \notin Ended
  BY DEF ScipJavaDone, ScipJavaFails, Ended
<1>2. UNCHANGED <<disk, request, builds>>
  BY DEF ScipJavaDone, ScipJavaFails
<1>3. CASE ScipJavaDone
  BY <1>1, <1>2, <1>3 DEF ScipJavaDone, RecordInv, Recorded, Prepared, Writing, Deriving
<1>4. CASE ScipJavaFails /\ (request.backend = "scip-java" \/ request.fallback = "off")
  BY <1>2, <1>4, EndKeepsRecord DEF ScipJavaFails, Abort, Ended
<1>5. CASE ScipJavaFails /\ ~(request.backend = "scip-java" \/ request.fallback = "off")
  <2>1. pc' = "prepare" /\ source' = request.fallback /\ failure' = TRUE
    BY <1>5 DEF ScipJavaFails
  <2>2. request.fallback \in {"syntax", "document"}
    BY <1>1, <1>5 DEF Inv, RunInv, Requests, Fallbacks
  <2>3. request.backend = ""
    <3>1. Recorded(source, failure) /\ request.backend \in Backends
      BY <1>1 DEF Inv, RunInv, RecordInv, Requests
    <3>2. source = "scip"
      BY <1>1 DEF RecordInv
    <3> QED
      BY <1>5, <3>1, <3>2 DEF Recorded, Backends
  <2>4. Recorded(source, failure)'
    BY <1>2, <2>1, <2>2, <2>3 DEF Recorded
  <2> QED
    BY <1>2, <2>1, <2>4 DEF RecordInv, Recorded, Prepared, Writing, Deriving
<1> QED
  BY <1>3, <1>4, <1>5

(* prepare_index writes the failure into index_info.                       *)
LEMMA PrepareKeepsRecord ==
  ASSUME Inv, RecordInv, Prepare
  PROVE  RecordInv'
<1>1. pc = "prepare" /\ pc \notin Ended
  BY DEF Prepare, Ended
<1>2. CASE Existing # None /\ Existing.snapshot # request.snapshot
  BY <1>1, <1>2, IndexerRaisesKeepsRecord DEF Prepare
<1>3. CASE ~(Existing # None /\ Existing.snapshot # request.snapshot)
  <2> DEFINE info == InfoNow(source = "scip")
  <2>1. /\ pc' = "clear" /\ tx' = [tx EXCEPT !.info = info]
        /\ UNCHANGED <<disk, request, source, failure, builds>>
    BY <1>3 DEF Prepare
  <2>2. tx \in Databases
    BY DEF Inv, TypeOK
  <2>3. tx'.info.failure = failure
    BY <2>1, <2>2 DEF InfoNow, Databases
  <2> QED
    BY <1>1, <2>1, <2>3 DEF RecordInv, Recorded, Ended
<1> QED
  BY <1>2, <1>3

(* A step that leaves index_info alone, on disk and in the transaction.    *)
LEMMA SameInfoKeepsRecord ==
  ASSUME RecordInv, pc \in Prepared, pc' \in Prepared \cup {"done"},
         tx'.info = tx.info, disk' = disk, UNCHANGED <<request, source, failure, builds>>
  PROVE  RecordInv'
BY DEF RecordInv, Recorded, Ended, Prepared, Writing, Deriving

(* A step that commits an index_info of the build under way, with its      *)
(* failure.                                                                *)
LEMMA CommitKeepsRecord ==
  ASSUME RecordInv, builds \in Nat, pc \in Prepared, pc' \in Prepared \cup {"done"},
         disk' = tx', tx'.info.build = builds, tx'.info.mode = source, tx'.info.failure = failure,
         UNCHANGED <<request, source, failure, builds>>
  PROVE  RecordInv'
<1>1. Recorded(source, failure)
  BY DEF RecordInv, Ended, Prepared, Writing, Deriving
<1>2. Recorded(source, failure)'
  BY <1>1 DEF Recorded
<1>3. disk'.info.build = builds' /\ disk'.info.mode = source' /\ disk'.info.failure = failure'
  OBVIOUS
<1>4. Recorded(disk.info.mode, disk.info.failure)'
  BY <1>2, <1>3 DEF Recorded
<1>5. builds' <= builds'
  OBVIOUS
<1> HIDE DEF Recorded
<1>6. pc' # "scip_java"
  BY DEF Prepared, Writing, Deriving
<1> QED
  BY <1>2, <1>3, <1>4, <1>5, <1>6 DEF RecordInv

(* What the transaction of the build under way knows of it.                *)
LEMMA PreparedInfo ==
  ASSUME Inv, RecordInv, pc \in Prepared
  PROVE  /\ builds \in Nat /\ tx \in Databases
         /\ tx.info.build = builds /\ tx.info.mode = source /\ tx.info.failure = failure
BY DEF Inv, TypeOK, CacheInv, IsNow, RecordInv

LEMMA SourceStagesKeepRecord ==
  ASSUME Inv, RecordInv, Clear \/ WriteDocuments \/ WriteSymbols \/ CommitRows \/ RecordStats
  PROVE  RecordInv'
<1>1. /\ pc \in Prepared /\ pc' \in Prepared
      /\ UNCHANGED <<request, source, failure, builds>>
  BY DEF Clear, WriteDocuments, WriteSymbols, CommitRows, RecordStats, Prepared, Writing, Deriving
<1>2. /\ builds \in Nat /\ tx \in Databases
      /\ tx.info.build = builds /\ tx.info.mode = source /\ tx.info.failure = failure
  BY <1>1, PreparedInfo
<1>3. CASE Clear \/ CommitRows
  <2>1. disk' = tx' /\ tx'.info = tx.info
    BY <1>2, <1>3 DEF Clear, CommitRows, Databases
  <2> QED
    BY <1>1, <1>2, <2>1, CommitKeepsRecord
<1>4. CASE WriteDocuments \/ WriteSymbols
  <2>1. disk' = disk /\ tx'.info = tx.info
    BY <1>2, <1>4, WriteRows DEF WriteDocuments, WriteSymbols
  <2> QED
    BY <1>1, <2>1, SameInfoKeepsRecord
<1>5. CASE RecordStats
  <2>1. disk' = tx' /\ tx'.info = InfoNow(TRUE)
    BY <1>2, <1>5 DEF RecordStats, Databases
  <2>2. /\ InfoNow(TRUE).build = builds /\ InfoNow(TRUE).mode = source
        /\ InfoNow(TRUE).failure = failure
    BY DEF InfoNow
  <2> QED
    BY <1>1, <1>2, <2>1, <2>2, CommitKeepsRecord
<1> QED
  BY <1>3, <1>4, <1>5

LEMMA DerivedStagesKeepRecord ==
  ASSUME Inv, RecordInv, BuildCodeGraph \/ BuildChunks \/ EmbedSome \/ EmbedDone
  PROVE  RecordInv'
<1>1. /\ pc \in Prepared /\ pc' \in Prepared \cup {"done"}
      /\ UNCHANGED <<request, source, failure, builds>>
  BY DEF BuildCodeGraph, BuildChunks, EmbedSome, EmbedDone, Stage, Prepared, Deriving
<1>2. /\ builds \in Nat /\ tx \in Databases
      /\ tx.info.build = builds /\ tx.info.mode = source /\ tx.info.failure = failure
  BY <1>1, PreparedInfo
<1>3. disk' = tx' /\ tx'.info = tx.info
  BY <1>2 DEF BuildCodeGraph, BuildChunks, EmbedSome, EmbedDone, Stage, Databases
<1> QED
  BY <1>1, <1>2, <1>3, CommitKeepsRecord

LEMMA RecordNext ==
  ASSUME Inv, RecordInv, [Next]_vars
  PROVE  RecordInv'
<1>1. CASE Start
  BY <1>1, StartKeepsRecord
<1>2. CASE ScipJavaDone \/ ScipJavaFails
  BY <1>2, ScipJavaKeepsRecord
<1>3. CASE Prepare
  BY <1>3, PrepareKeepsRecord
<1>4. CASE Clear \/ WriteDocuments \/ WriteSymbols \/ CommitRows \/ RecordStats
  BY <1>4, SourceStagesKeepRecord
<1>5. CASE SourceFails
  BY <1>5, IndexerRaisesKeepsRecord DEF SourceFails, Ended
<1>6. CASE BuildCodeGraph \/ BuildChunks \/ EmbedSome \/ EmbedDone
  BY <1>6, DerivedStagesKeepRecord
<1>7. CASE StageFails \/ Crash
  BY <1>7, EndKeepsRecord DEF StageFails, Crash, Abort, Ended
<1>8. CASE UNCHANGED vars
  BY <1>8 DEF vars, RecordInv, Recorded
<1> QED
  BY <1>1, <1>2, <1>3, <1>4, <1>5, <1>6, <1>7, <1>8 DEF Next

(* The index on disk says of every fallback that it is one: for any        *)
(* configuration, whichever indexers raise and wherever the build dies, it *)
(* is not SCIP exactly when it records scip-java's failure, and never a    *)
(* mode the configuration rules out (FallbackIsRecorded).                  *)
THEOREM FallbacksAreRecorded == Spec => []FallbackIsRecorded
<1>1. RecordInv => FallbackIsRecorded
  BY DEF RecordInv, Recorded, FallbackIsRecorded
<1> QED
  BY <1>1, InvInit, InvNext, RecordInit, RecordNext, PTL DEF Spec
-----------------------------------------------------------------------------
(* Stores that are asked while builds run *)

Tables == {"symbols", "chunks", "graph"}

Codes ==
  {"", "ok", "bad_request", "not_found", "forbidden", "job_conflict", "queue_full", "internal_error",
   "unsupported_capability", "index_contract_error", "INPUT_VALIDATION", "UNSUPPORTED_OPERATION", "CONFIG_INVALID",
   "UNSUPPORTED_CAPABILITY", "TIMEOUT", "UPSTREAM_ERROR", "RATE_LIMITED", "INTERNAL_ERROR"}

UnderWay == {"lock", "store", "mode", "read"}

Calls ==
  [at : UnderWay \cup {"idle", "answered"}, request : Asked \cup {NoCall.request},
   info : Infos \cup {None}, knew : BOOLEAN, left : Seq(Tables), from : SUBSET Snapshots,
   code : Codes, mode : Modes \cup {"", "unknown"}]

Stores == [{"rest", "mcp"} -> [given : BOOLEAN, open : BOOLEAN, info : Infos \cup {None}]]

(* What a store keeps of the index it met tells the snapshot on disk.      *)
StoreInv ==
  \A s \in {"rest", "mcp"} :
    served[s].info # None =>
      served[s].open /\ disk.info # None /\ served[s].info.snapshot = disk.info.snapshot

(* Where the rows may be that come only from an index of the code.         *)
Coded(info) == info # None /\ info.mode # "document"

(* A call under way has an open store and an operation that is gated; past *)
(* the first half of the gate it holds what the store then knew, past the  *)
(* gate the store knows an index that has the rows.                        *)
WayInv(call) ==
  /\ call.at \in UnderWay =>
       /\ call.request \in Asked /\ call.request.op \notin AdminOps
       /\ served[call.request.via].open
  /\ call.at = "mode" =>
       /\ call.request.op \notin Texts
       /\ call.knew <=> call.info # None
       /\ call.info # None => call.info = served[call.request.via].info
  /\ call.at = "read" /\ call.request.op \notin Texts \cup {"intent"} =>
       Coded(served[call.request.via].info)

(* Its rows are of the snapshot on disk, and an answer with rows is of a   *)
(* store that has met it; the mode it names is the one its rows need, or   *)
(* the one it is refused for.                                              *)
AnswerInv(call) ==
  /\ call.from # {} => disk.info # None /\ call.from = {disk.info.snapshot}
  /\ call.at = "answered" /\ call.mode # "" =>
       /\ call.request \in Asked
       /\ call.code = "ok" /\ call.request.op \notin Texts \cup {"intent"} => call.mode \in {"scip", "syntax"}
       /\ call.code = Refusal(call.request.via) /\ call.request.op # "other edge" =>
            call.mode = "document" \/ (~call.knew /\ call.request.op # "intent")
       /\ call.code = "ok" /\ call.from # {} => served[call.request.via].info # None

CallsInv == \A c \in Clients : WayInv(calls[c]) /\ AnswerInv(calls[c])

ServedInv == served \in Stores /\ calls \in [Clients -> Calls] /\ StoreInv /\ CallsInv

(* Stores open and learn, and forget nothing.                              *)
Grows ==
  \A s \in {"rest", "mcp"} :
    /\ served[s].open => served'[s].open
    /\ served[s].info # None => served'[s].info = served[s].info

LEMMA NoCallType == NoCall \in Calls
<1>1. NoCall = [at |-> "idle", request |-> NoCall.request, info |-> None, knew |-> TRUE, left |-> <<>>,
                from |-> {}, code |-> "", mode |-> ""]
  BY DEF NoCall
<1>2. ASSUME NEW left \in Seq(Tables), NEW code \in Codes
      PROVE  [at |-> "idle", request |-> NoCall.request, info |-> None, knew |-> TRUE, left |-> left,
              from |-> {}, code |-> code, mode |-> ""] \in Calls
  BY DEF Calls
<1>3. <<>> \in Seq(Tables) /\ "" \in Codes
  BY EmptySeq DEF Codes
<1> HIDE DEF NoCall
<1> QED
  BY <1>1, <1>2, <1>3

LEMMA ServedInvInit == ServedInit => ServedInv
<1> SUFFICES ASSUME ServedInit PROVE ServedInv
  OBVIOUS
<1>1. /\ served \in [{"rest", "mcp"} -> [given : BOOLEAN, open : {FALSE}, info : {None}]]
      /\ calls = [c \in Clients |-> NoCall]
  BY DEF ServedInit, ServingInit
<1>2. served \in Stores /\ StoreInv
  BY <1>1 DEF Stores, StoreInv
<1>3. NoCall \in Calls
  BY NoCallType
<1>4. calls \in [Clients -> Calls]
  BY <1>1, <1>3
<1>5. CallsInv
  BY <1>1 DEF CallsInv, WayInv, AnswerInv, NoCall, UnderWay
<1> QED
  BY <1>2, <1>4, <1>5 DEF ServedInv

(* A call that does not move keeps what holds of it, while stores learn    *)
(* and builds commit.                                                      *)
LEMMA CallStays ==
  ASSUME ServedInv, NEW c \in Clients, calls'[c] = calls[c], Grows,
         disk.info # None => disk'.info # None /\ disk'.info.snapshot = disk.info.snapshot
  PROVE  WayInv(calls[c])' /\ AnswerInv(calls[c])'
<1>1. WayInv(calls[c]) /\ AnswerInv(calls[c])
  BY DEF ServedInv, CallsInv
<1>2. calls[c].request \in Asked => calls[c].request.via \in {"rest", "mcp"}
  BY AskedAssumption
<1>3. WayInv(calls[c])'
  BY <1>1, <1>2 DEF WayInv, Grows, Coded, UnderWay
<1>4. AnswerInv(calls[c])'
  BY <1>1, <1>2 DEF AnswerInv, Grows
<1> QED
  BY <1>3, <1>4

(* One call moves.                                                         *)
LEMMA CallMoves ==
  ASSUME ServedInv, NEW c \in Clients, NEW step \in Calls, Go(c, step), UNCHANGED disk,
         served' \in Stores, Grows, StoreInv', WayInv(calls[c])', AnswerInv(calls[c])'
  PROVE  ServedInv'
<1>1. calls' = [calls EXCEPT ![c] = step] /\ calls \in [Clients -> Calls]
  BY DEF Go, ServedInv
<1>2. calls' \in [Clients -> Calls]
  BY <1>1
<1>3. ASSUME NEW d \in Clients
      PROVE  WayInv(calls[d])' /\ AnswerInv(calls[d])'
  <2>1. CASE d = c
    BY <2>1
  <2>2. CASE d # c
    <3>1. calls'[d] = calls[d]
      BY <1>1, <2>2
    <3> QED
      BY <3>1, CallStays
  <2> QED
    BY <2>1, <2>2
<1> QED
  BY <1>2, <1>3 DEF ServedInv, CallsInv

(* A store that stays as it is.                                            *)
LEMMA StoresStay ==
  ASSUME ServedInv, UNCHANGED <<disk, served>>
  PROVE  served' \in Stores /\ Grows /\ StoreInv'
BY DEF ServedInv, Grows, StoreInv

LEMMA KnownType ==
  ASSUME Inv, ServedInv, NEW s \in {"rest", "mcp"}
  PROVE  /\ Known(s) \in Infos \cup {None}
         /\ Known(s) # None => disk.info # None /\ Known(s).snapshot = disk.info.snapshot
         /\ served[s].info # None => Known(s) = served[s].info
         /\ disk.info # None => Known(s) # None
<1>1. disk.info \in Infos \cup {None} /\ served[s].info \in Infos \cup {None}
  BY DEF Inv, TypeOK, Databases, ServedInv, Stores
<1> QED
  BY <1>1 DEF Known, ServedInv, StoreInv

(* Asking an open store makes it keep what it is told.                     *)
LEMMA KeepKeepsStores ==
  ASSUME Inv, ServedInv, NEW s \in {"rest", "mcp"}, served[s].open, Keep(s), UNCHANGED disk
  PROVE  /\ served' \in Stores /\ Grows /\ StoreInv'
         /\ served'[s].info = Known(s) /\ served'[s].open
<1>1. /\ Known(s) \in Infos \cup {None}
      /\ Known(s) # None => disk.info # None /\ Known(s).snapshot = disk.info.snapshot
      /\ served[s].info # None => Known(s) = served[s].info
  BY KnownType
<1>2. served \in Stores /\ served' = [served EXCEPT ![s].info = Known(s)]
  BY DEF ServedInv, Keep
<1>3. served' \in Stores
  BY <1>1, <1>2 DEF Stores
<1>4. /\ served'[s].info = Known(s) /\ served'[s].open = served[s].open
      /\ \A t \in {"rest", "mcp"} \ {s} : served'[t] = served[t]
  BY <1>2 DEF Stores
<1>5. Grows
  BY <1>1, <1>4 DEF Grows
<1>6. StoreInv'
  BY <1>1, <1>4 DEF ServedInv, StoreInv
<1> QED
  BY <1>3, <1>4, <1>5, <1>6

(* A store is opened, and sees the index that is there.                    *)
LEMMA OpenKeepsStores ==
  ASSUME Inv, ServedInv, NEW s \in {"rest", "mcp"}, ~served[s].open, UNCHANGED disk,
         served' = [served EXCEPT ![s].open = TRUE, ![s].info = disk.info]
  PROVE  served' \in Stores /\ Grows /\ StoreInv' /\ served'[s].open
<1>1. disk.info \in Infos \cup {None} /\ served \in Stores /\ served[s].info = None
  BY DEF Inv, TypeOK, Databases, ServedInv, StoreInv
<1>2. served' \in Stores
  BY <1>1 DEF Stores
<1>3. /\ served'[s].info = disk.info /\ served'[s].open
      /\ \A t \in {"rest", "mcp"} \ {s} : served'[t] = served[t]
  BY <1>1 DEF Stores
<1>4. Grows
  BY <1>1, <1>3 DEF Grows
<1>5. StoreInv'
  BY <1>3 DEF ServedInv, StoreInv
<1> QED
  BY <1>2, <1>3, <1>4, <1>5

(* The gate lets through what the index has, and refuses for the mode.     *)
LEMMA GateIsRight ==
  ASSUME NEW op \in Ops \ AdminOps, NEW info \in Infos \cup {None}
  PROVE  /\ Allows(info, op) /\ op \notin Texts \cup {"intent"} => Coded(info)
         /\ ~Allows(info, op) /\ op # "other edge" /\ info # None => info.mode = "document"
         /\ op = "intent" => Allows(None, op)
<1>1. op \notin Texts \cup {"intent"} => Needs(op) # {} /\ Needs(op) \cap {"keyword", "hybrid", "semantic"} = {}
  BY DEF Ops, AdminOps, Texts, SymbolOps, GraphOps, EdgeTypes, Needs
<1>2. op # "other edge" => Needs(op) \subseteq Structural
  BY DEF Ops, AdminOps, Texts, SymbolOps, GraphOps, EdgeTypes, Needs, Structural
<1>3. op = "intent" => Needs(op) = {}
  BY DEF Needs
<1> QED
  BY <1>1, <1>2, <1>3 DEF Allows, CapabilitiesOf, ModeOf, Coded

(* A call is answered: what the answer has to be for the rows it has.      *)
LEMMA CallIsAnswered ==
  ASSUME ServedInv, NEW c \in Clients, NEW code \in Codes, NEW mode \in Modes \cup {"", "unknown"},
         NEW r, r = calls[c].request, r \in Asked, Answer(c, code, mode),
         UNCHANGED disk, served' \in Stores, Grows, StoreInv',
         mode # "" /\ code = "ok" /\ r.op \notin Texts \cup {"intent"} => mode \in {"scip", "syntax"},
         mode # "" /\ code = Refusal(r.via) /\ r.op # "other edge" =>
           mode = "document" \/ (~calls[c].knew /\ r.op # "intent"),
         mode # "" /\ code = "ok" /\ calls[c].from # {} => served'[r.via].info # None
  PROVE  ServedInv'
<1> DEFINE answer == [calls[c] EXCEPT !.at = "answered", !.code = code, !.mode = mode, !.left = <<>>, !.info = None]
<1>1. calls \in [Clients -> Calls] /\ calls[c] \in Calls /\ AnswerInv(calls[c]) /\ Go(c, answer)
  BY DEF ServedInv, CallsInv, Answer
<1>2. answer \in Calls
  <2>1. ASSUME NEW call \in Calls, <<>> \in Seq(Tables)
        PROVE  [call EXCEPT !.at = "answered", !.code = code, !.mode = mode, !.left = <<>>, !.info = None] \in Calls
    BY <2>1 DEF Calls
  <2>2. <<>> \in Seq(Tables)
    BY EmptySeq
  <2> QED
    BY <1>1, <2>1, <2>2
<1>3. PICK step \in Calls : step = answer
  BY <1>2
<1>4. /\ step.at = "answered" /\ step.code = code /\ step.mode = mode
      /\ step.request = r /\ step.from = calls[c].from /\ step.knew = calls[c].knew
  BY <1>1, <1>3 DEF Calls
<1>5. calls'[c] = step
  BY <1>1, <1>3 DEF Go
<1> HIDE DEF answer
<1>6. WayInv(calls[c])'
  BY <1>4, <1>5 DEF WayInv, UnderWay
<1>7. AnswerInv(calls[c])'
  BY <1>1, <1>4, <1>5 DEF AnswerInv
<1> QED
  BY <1>1, <1>3, <1>6, <1>7, CallMoves

(* Only the stores, or only the database, change.                          *)
LEMMA CallsStay ==
  ASSUME ServedInv, UNCHANGED calls, served' \in Stores, Grows, StoreInv',
         disk.info # None => disk'.info # None /\ disk'.info.snapshot = disk.info.snapshot
  PROVE  ServedInv'
<1>1. \A c \in Clients : WayInv(calls[c])' /\ AnswerInv(calls[c])'
  BY CallStays
<1> QED
  BY <1>1 DEF ServedInv, CallsInv

LEMMA StartRestKeeps ==
  ASSUME Inv, ServedInv, StartRest, UNCHANGED vars
  PROVE  ServedInv'
<1>1. /\ ~served["rest"].open /\ UNCHANGED <<disk, calls>>
      /\ served' = [served EXCEPT !["rest"].open = TRUE, !["rest"].info = disk.info]
  BY DEF StartRest, vars
<1>2. served' \in Stores /\ Grows /\ StoreInv'
  BY <1>1, OpenKeepsStores
<1> QED
  BY <1>1, <1>2, CallsStay

LEMMA ReadsType ==
  ASSUME NEW op, NEW allowed
  PROVE  Reads(op, allowed) \in Seq(Tables)
<1>1. \A t, u \in Tables : <<t>> \in Seq(Tables) /\ <<t, u>> \in Seq(Tables)
  OBVIOUS
<1>2. <<>> \in Seq(Tables)
  BY EmptySeq
<1>3. "symbols" \in Tables /\ "chunks" \in Tables /\ "graph" \in Tables
  BY DEF Tables
<1>4. Reads(op, allowed) \in
        {<<>>, <<"chunks">>, <<"symbols">>, <<"graph">>, <<"symbols", "chunks">>, <<"graph", "symbols">>, <<"chunks", "graph">>}
  BY DEF Reads
<1> QED
  BY <1>1, <1>2, <1>3, <1>4

(* What the front ends answer.                                             *)
LEMMA CodesType ==
  /\ \A r : ToolFault(r) \in Codes \cup {"none"} /\ RestFault(r) \in Codes \cup {"none"}
  /\ \A r : SubmitAnswers(r) \subseteq Codes /\ GetAnswers(r) \subseteq Codes
  /\ \A via, x : ErrorAnswer(via, x) \in Codes
  /\ {"ok", "bad_request", "CONFIG_INVALID"} \subseteq Codes
<1>1. \A r : ToolFault(r) \in Codes \cup {"none"}
  BY DEF ToolFault, SemanticQueryFault, FindSymbolFault, SymbolGraphFault, CodeGraphExploreFault, Codes
<1>2. \A r : RestFault(r) \in Codes \cup {"none"}
  BY DEF RestFault, Codes
<1>3. \A r : SubmitAnswers(r) \subseteq Codes /\ GetAnswers(r) \subseteq Codes
  BY DEF SubmitAnswers, GetAnswers, Codes
<1>4. \A x : ToolError(x).code \in Codes
  BY DEF ToolError, Told, Codes
<1>5. \A via, x : ErrorAnswer(via, x) \in Codes
  BY <1>4 DEF ErrorAnswer, Codes
<1>6. {"ok", "bad_request", "CONFIG_INVALID"} \subseteq Codes
  BY DEF Codes
<1> QED
  BY <1>1, <1>2, <1>3, <1>5, <1>6

(* A refusal is told apart from an answer and from a wrong argument.       *)
LEMMA RefusalIsOne == \A via : Refusal(via) \notin {"ok", "bad_request", ""}
BY DEF Refusal, ErrorAnswer, Exception, ToolError, Told

LEMMA AtOnceType ==
  ASSUME NEW r
  PROVE  /\ AtOnce(r) \subseteq Codes
         /\ AtOnce(r) = {} =>
              /\ r.op \notin AdminOps
              /\ r.via = "mcp" => served["mcp"].given
<1> DEFINE admin == IF r.op = "submit" THEN SubmitAnswers(r) ELSE GetAnswers(r)
<1>1. admin \subseteq Codes /\ admin # {}
  BY CodesType DEF SubmitAnswers, GetAnswers
<1>2. /\ "CONFIG_INVALID" \in Codes
      /\ ToolFault(r) # "none" => ToolFault(r) \in Codes
      /\ RestFault(r) # "none" => RestFault(r) \in Codes
  BY CodesType
<1>3. AtOnce(r) = CASE r.via = "mcp" /\ ~served["mcp"].given -> {"CONFIG_INVALID"}
                    [] r.via = "mcp" /\ ToolFault(r) # "none" -> {ToolFault(r)}
                    [] r.op \in AdminOps -> admin
                    [] r.via = "rest" /\ RestFault(r) # "none" -> {RestFault(r)}
                    [] OTHER -> {}
  BY DEF AtOnce
<1> HIDE DEF admin
<1> QED
  BY <1>1, <1>2, <1>3

LEMMA AskKeeps ==
  ASSUME Inv, ServedInv, NEW c \in Clients, NEW r \in Asked, Ask(c, r), UNCHANGED vars
  PROVE  ServedInv'
<1>1. UNCHANGED disk /\ r.via \in {"rest", "mcp"} /\ calls \in [Clients -> Calls]
  BY AskedAssumption DEF vars, ServedInv
<1> DEFINE opens == r.via = "mcp" /\ served["mcp"].given /\ ~served["mcp"].open
<1>2. /\ served' = IF opens THEN [served EXCEPT !["mcp"].open = TRUE, !["mcp"].info = disk.info] ELSE served
      /\ r.via = "rest" => served["rest"].open
  BY DEF Ask
<1>3. /\ served' \in Stores /\ Grows /\ StoreInv'
      /\ r.via = "rest" \/ served["mcp"].given => served'[r.via].open
  <2>1. CASE opens
    BY <1>1, <1>2, <2>1, OpenKeepsStores
  <2>2. CASE ~opens
    BY <1>1, <1>2, <2>2, StoresStay
  <2> QED
    BY <2>1, <2>2
<1> DEFINE fault(code) == [NoCall EXCEPT !.at = "answered", !.request = r, !.code = code]
           way == [NoCall EXCEPT !.at = IF r.via = "mcp" THEN "lock" ELSE "store", !.request = r]
<1>4. \/ \E code \in Codes : Go(c, fault(code))
      \/ /\ Go(c, way) /\ r.op \notin AdminOps
         /\ r.via = "rest" \/ served["mcp"].given
  <2>1. (\E code \in AtOnce(r) : Go(c, fault(code))) \/ (AtOnce(r) = {} /\ Go(c, way))
    BY DEF Ask
  <2> HIDE DEF fault, way
  <2> QED
    BY <1>1, <2>1, AtOnceType
<1> HIDE DEF fault, way
<1>0. NoCall \in Calls /\ NoCall.mode = "" /\ NoCall.from = {}
  BY NoCallType DEF NoCall
<1> HIDE DEF opens, NoCall
<1>5. CASE \E code \in Codes : Go(c, fault(code))
  <2>1. PICK code \in Codes : Go(c, fault(code))
    BY <1>5
  <2>2. /\ fault(code) \in Calls /\ fault(code).at = "answered" /\ fault(code).mode = ""
        /\ fault(code).from = {} /\ fault(code).request = r
    BY <1>0 DEF fault, Calls
  <2>3. PICK step : step = fault(code)
    OBVIOUS
  <2>4. calls'[c] = step
    BY <1>1, <2>1, <2>3 DEF Go
  <2>5. WayInv(calls[c])' /\ AnswerInv(calls[c])'
    BY <2>2, <2>3, <2>4 DEF WayInv, AnswerInv, UnderWay
  <2> QED
    BY <1>1, <1>3, <2>1, <2>2, <2>3, <2>5, CallMoves
<1>6. CASE /\ Go(c, way) /\ r.op \notin AdminOps
           /\ r.via = "rest" \/ served["mcp"].given
  <2>1. PICK at \in {"lock", "store"} : way = [NoCall EXCEPT !.at = at, !.request = r]
    BY DEF way
  <2>2. /\ way \in Calls /\ way.at = at /\ way.mode = "" /\ way.from = {} /\ way.request = r
    BY <1>0, <2>1 DEF Calls, UnderWay
  <2>3. PICK step : step = way
    OBVIOUS
  <2>4. calls'[c] = step
    BY <1>1, <1>6, <2>3 DEF Go
  <2>5. WayInv(calls[c])' /\ AnswerInv(calls[c])'
    BY <1>3, <1>6, <2>2, <2>3, <2>4 DEF WayInv, AnswerInv
  <2> QED
    BY <1>1, <1>3, <1>6, <2>2, <2>3, <2>5, CallMoves
<1> QED
  BY <1>4, <1>5, <1>6

(* A call under way that is asked nothing of its store.                    *)
LEMMA LockKeeps ==
  ASSUME Inv, ServedInv, NEW c \in Clients, Lock(c) \/ Ungated(c), UNCHANGED vars
  PROVE  ServedInv'
<1>1. UNCHANGED <<disk, served>> /\ calls[c].at \in UnderWay
  BY DEF Lock, Ungated, vars, UnderWay
<1>2. served' \in Stores /\ Grows /\ StoreInv'
  BY <1>1, StoresStay
<1>3. calls \in [Clients -> Calls] /\ calls[c] \in Calls /\ WayInv(calls[c]) /\ AnswerInv(calls[c])
  BY DEF ServedInv, CallsInv
<1>4. CASE Lock(c)
  <2>1. Go(c, [calls[c] EXCEPT !.at = "store"])
    BY <1>4 DEF Lock
  <2>2. PICK step : step = [calls[c] EXCEPT !.at = "store"]
    OBVIOUS
  <2>3. /\ step \in Calls /\ step.at = "store" /\ step.request = calls[c].request /\ step.mode = calls[c].mode
        /\ step.from = calls[c].from
    BY <1>3, <2>2 DEF Calls, UnderWay
  <2>4. calls'[c] = step
    BY <1>3, <2>1, <2>2 DEF Go
  <2>5. WayInv(calls[c])' /\ AnswerInv(calls[c])'
    BY <1>1, <1>3, <2>3, <2>4 DEF WayInv, AnswerInv
  <2> QED
    BY <1>1, <1>2, <2>1, <2>2, <2>3, <2>5, CallMoves
<1>5. CASE Ungated(c)
  <2> DEFINE left == Reads("semantic", TRUE)
  <2>1. Go(c, [calls[c] EXCEPT !.at = "read", !.left = left]) /\ calls[c].request.op = "semantic"
    BY <1>5 DEF Ungated
  <2>2. left \in Seq(Tables)
    BY ReadsType
  <2> HIDE DEF left
  <2>3. PICK step : step = [calls[c] EXCEPT !.at = "read", !.left = left]
    OBVIOUS
  <2>4. /\ step \in Calls /\ step.at = "read" /\ step.request = calls[c].request /\ step.mode = calls[c].mode
        /\ step.from = calls[c].from
    BY <1>3, <2>2, <2>3 DEF Calls, UnderWay
  <2>5. calls'[c] = step
    BY <1>3, <2>1, <2>3 DEF Go
  <2>6. WayInv(calls[c])' /\ AnswerInv(calls[c])'
    BY <1>1, <1>3, <2>1, <2>4, <2>5 DEF WayInv, AnswerInv, Texts
  <2> QED
    BY <1>1, <1>2, <2>1, <2>3, <2>4, <2>6, CallMoves
<1> QED
  BY <1>4, <1>5

(* The first half of the gate: the call holds what its store has kept.     *)
LEMMA AskCapabilitiesKeeps ==
  ASSUME Inv, ServedInv, NEW c \in Clients, AskCapabilities(c), UNCHANGED vars
  PROVE  ServedInv'
<1> DEFINE r == calls[c].request
<1>1. /\ UNCHANGED disk /\ calls[c].at = "store" /\ r.op # "semantic" /\ Keep(r.via)
      /\ calls \in [Clients -> Calls] /\ calls[c] \in Calls /\ WayInv(calls[c]) /\ AnswerInv(calls[c])
  BY DEF AskCapabilities, vars, ServedInv, CallsInv
<1>2. r \in Asked /\ r.via \in {"rest", "mcp"} /\ served[r.via].open /\ r.op \notin AdminOps
  BY <1>1, AskedAssumption DEF WayInv, UnderWay
<1>3. /\ served' \in Stores /\ Grows /\ StoreInv'
      /\ served'[r.via].info = Known(r.via) /\ served'[r.via].open
  BY <1>1, <1>2, KeepKeepsStores
<1>4. Known(r.via) \in Infos \cup {None}
  BY <1>2, KnownType
<1>5. CASE r.op = "hybrid"
  <2> DEFINE left == Reads(r.op, Allows(Known(r.via), "structure"))
  <2>1. Go(c, [calls[c] EXCEPT !.at = "read", !.left = left])
    BY <1>5 DEF AskCapabilities
  <2>2. left \in Seq(Tables)
    BY ReadsType
  <2> HIDE DEF left
  <2>3. PICK step : step = [calls[c] EXCEPT !.at = "read", !.left = left]
    OBVIOUS
  <2>4. /\ step \in Calls /\ step.at = "read" /\ step.request = calls[c].request /\ step.mode = calls[c].mode
        /\ step.from = calls[c].from
    BY <1>1, <2>2, <2>3 DEF Calls, UnderWay
  <2>5. calls'[c] = step
    BY <1>1, <2>1, <2>3 DEF Go
  <2>6. WayInv(calls[c])' /\ AnswerInv(calls[c])'
    BY <1>1, <1>2, <1>3, <1>5, <2>4, <2>5 DEF WayInv, AnswerInv, Texts
  <2> QED
    BY <1>1, <1>3, <2>1, <2>3, <2>4, <2>6, CallMoves
<1>6. CASE r.op # "hybrid"
  <2> DEFINE info == Known(r.via)
             knew == info # None
  <2>1. Go(c, [calls[c] EXCEPT !.at = "mode", !.info = info, !.knew = knew])
    BY <1>6 DEF AskCapabilities
  <2>2. knew \in BOOLEAN /\ info \in Infos \cup {None} /\ (knew <=> info # None)
    BY <1>4
  <2> HIDE DEF knew
  <2>3. PICK step : step = [calls[c] EXCEPT !.at = "mode", !.info = info, !.knew = knew]
    OBVIOUS
  <2>4. /\ step \in Calls /\ step.at = "mode" /\ step.request = calls[c].request /\ step.mode = calls[c].mode
        /\ step.from = calls[c].from /\ step.info = info /\ step.knew = knew
    BY <1>1, <2>2, <2>3 DEF Calls, UnderWay
  <2>5. calls'[c] = step
    BY <1>1, <2>1, <2>3 DEF Go
  <2>6. WayInv(calls[c])' /\ AnswerInv(calls[c])'
    BY <1>1, <1>2, <1>3, <1>6, <2>2, <2>4, <2>5 DEF WayInv, AnswerInv, Texts
  <2> QED
    BY <1>1, <1>3, <2>1, <2>3, <2>4, <2>6, CallMoves
<1> QED
  BY <1>5, <1>6

LEMMA ModeType ==
  ASSUME NEW info \in Infos \cup {None}
  PROVE  /\ ModeOf(info) \in Modes \cup {"unknown"}
         /\ info # None => ModeOf(info) = info.mode
         /\ Coded(info) => ModeOf(info) \in {"scip", "syntax"}
BY DEF ModeOf, Infos, Modes, Coded

(* The second half of the gate: what is refused is refused for the mode.   *)
LEMMA AskModeKeeps ==
  ASSUME Inv, ServedInv, NEW c \in Clients, AskMode(c), UNCHANGED vars
  PROVE  ServedInv'
<1> DEFINE r == calls[c].request
           info == calls[c].info
<1>1. /\ UNCHANGED disk /\ calls[c].at = "mode" /\ Keep(r.via)
      /\ calls \in [Clients -> Calls] /\ calls[c] \in Calls /\ WayInv(calls[c]) /\ AnswerInv(calls[c])
  BY DEF AskMode, vars, ServedInv, CallsInv
<1>2. r \in Asked /\ r.via \in {"rest", "mcp"} /\ served[r.via].open /\ r.op \in Ops \ AdminOps
  BY <1>1, AskedAssumption DEF WayInv, UnderWay
<1>3. /\ served' \in Stores /\ Grows /\ StoreInv'
      /\ served'[r.via].info = Known(r.via) /\ served'[r.via].open
  BY <1>1, <1>2, KeepKeepsStores
<1>4. /\ Known(r.via) \in Infos \cup {None} /\ info \in Infos \cup {None}
      /\ info # None => info = Known(r.via)
      /\ calls[c].knew <=> info # None
  BY <1>1, <1>2, KnownType DEF WayInv, Calls
<1>5. ModeOf(Known(r.via)) \in Modes \cup {"unknown"} /\ Refusal(r.via) \in Codes /\ "bad_request" \in Codes
      /\ "" \in Codes
  BY <1>4, ModeType, CodesType DEF Refusal, Codes
<1>6. CASE ~Allows(info, r.op)
  <2>1. Answer(c, Refusal(r.via), ModeOf(Known(r.via)))
    BY <1>6 DEF AskMode
  <2>2. r.op # "other edge" => ModeOf(Known(r.via)) = "document" \/ (~calls[c].knew /\ r.op # "intent")
    <3>1. CASE info = None
      <4>1. r.op = "intent" => Allows(None, r.op)
        BY <1>2, <1>4, GateIsRight
      <4>2. r.op # "intent"
        BY <1>6, <3>1, <4>1
      <4> QED
        BY <1>4, <3>1, <4>2
    <3>2. CASE info # None
      <4>1. r.op # "other edge" => info.mode = "document"
        BY <1>2, <1>4, <1>6, <3>2, GateIsRight
      <4>2. ModeOf(Known(r.via)) = Known(r.via).mode
        BY <1>4, <3>2, ModeType
      <4> QED
        BY <1>4, <3>2, <4>1, <4>2
    <3> QED
      BY <3>1, <3>2
  <2>3. PICK code \in Codes : code = Refusal(r.via)
    BY <1>5
  <2>4. PICK mode \in Modes \cup {"", "unknown"} : mode = ModeOf(Known(r.via))
    BY <1>5
  <2>5. code # "ok"
    BY <2>3, RefusalIsOne
  <2>6. Answer(c, code, mode)
    BY <2>1, <2>3, <2>4
  <2> QED
    BY <1>1, <1>2, <1>3, <2>2, <2>4, <2>5, <2>6, CallIsAnswered
<1>7. CASE Allows(info, r.op) /\ r.op = "find_symbol" /\ r.fault = "unknown"
  <2>1. Answer(c, "bad_request", "")
    BY <1>7 DEF AskMode
  <2> QED
    BY <1>1, <1>2, <1>3, <1>5, <2>1, CallIsAnswered
<1>8. CASE Allows(info, r.op) /\ ~(r.op = "find_symbol" /\ r.fault = "unknown")
  <2> DEFINE left == Reads(r.op, TRUE)
  <2>1. Go(c, [calls[c] EXCEPT !.at = "read", !.info = None, !.left = left])
    BY <1>8 DEF AskMode
  <2>2. left \in Seq(Tables)
    BY ReadsType
  <2> HIDE DEF left
  <2>3. PICK step : step = [calls[c] EXCEPT !.at = "read", !.info = None, !.left = left]
    OBVIOUS
  <2>4. /\ step \in Calls /\ step.at = "read" /\ step.request = calls[c].request /\ step.mode = calls[c].mode
        /\ step.from = calls[c].from
    BY <1>1, <2>2, <2>3 DEF Calls, UnderWay
  <2>5. calls'[c] = step
    BY <1>1, <2>1, <2>3 DEF Go
  <2>6. r.op \notin Texts \cup {"intent"} => Coded(Known(r.via))
    <3>1. r.op \notin Texts \cup {"intent"} => Coded(info)
      BY <1>2, <1>4, <1>8, GateIsRight
    <3> QED
      BY <1>4, <3>1 DEF Coded
  <2>7. WayInv(calls[c])' /\ AnswerInv(calls[c])'
    BY <1>1, <1>2, <1>3, <2>4, <2>5, <2>6 DEF WayInv, AnswerInv, Coded
  <2> QED
    BY <1>1, <1>3, <2>1, <2>3, <2>4, <2>7, CallMoves
<1> QED
  BY <1>6, <1>7, <1>8

(* A SELECT: rows are of the build on disk, whose snapshot is for ever.    *)
LEMMA ReadKeeps ==
  ASSUME Inv, ServedInv, NEW c \in Clients, Read(c), UNCHANGED vars
  PROVE  ServedInv'
<1>1. UNCHANGED <<disk, served>> /\ calls[c].at = "read" /\ calls[c].left # <<>>
  BY DEF Read, vars
<1>2. served' \in Stores /\ Grows /\ StoreInv'
  BY <1>1, StoresStay
<1>3. calls \in [Clients -> Calls] /\ calls[c] \in Calls /\ WayInv(calls[c]) /\ AnswerInv(calls[c])
  BY DEF ServedInv, CallsInv
<1> DEFINE table == Head(calls[c].left)
           from == IF HasRows(table) THEN calls[c].from \cup {disk.info.snapshot} ELSE calls[c].from
           left == Tail(calls[c].left)
<1>4. Go(c, [calls[c] EXCEPT !.left = left, !.from = from])
  BY DEF Read
<1>5. left \in Seq(Tables) /\ table \in Tables
  <2>1. calls[c].left \in Seq(Tables)
    BY <1>3 DEF Calls
  <2> QED
    BY <1>1, <2>1, HeadTailProperties
<1>6. HasRows(table) => disk.info \in Infos
  <2>1. HasRows(table) => HasData(disk)
    BY <1>5 DEF HasRows, HasData, Tables
  <2>2. Openable(disk) /\ disk.info \in Infos \cup {None}
    BY DEF Inv, Sound, TypeOK, Databases
  <2> QED
    BY <2>1, <2>2 DEF Openable
<1>7. from \subseteq Snapshots
  BY <1>3, <1>6 DEF Calls, Infos
<1>8. from # {} => disk.info # None /\ from = {disk.info.snapshot}
  BY <1>3, <1>6, NoneAssumption DEF AnswerInv
<1> HIDE DEF from, left
<1>9. PICK step : step = [calls[c] EXCEPT !.left = left, !.from = from]
  OBVIOUS
<1>10. /\ step \in Calls /\ step.at = "read" /\ step.request = calls[c].request /\ step.mode = calls[c].mode
       /\ step.from = from
  BY <1>1, <1>3, <1>5, <1>7, <1>9 DEF Calls
<1>11. calls'[c] = step
  BY <1>3, <1>4, <1>9 DEF Go
<1>12. WayInv(calls[c])' /\ AnswerInv(calls[c])'
  BY <1>1, <1>3, <1>8, <1>10, <1>11 DEF WayInv, AnswerInv, UnderWay, Coded
<1> QED
  BY <1>1, <1>2, <1>4, <1>9, <1>10, <1>12, CallMoves

LEMMA ProviderFailsKeeps ==
  ASSUME Inv, ServedInv, NEW c \in Clients, ProviderFails(c), UNCHANGED vars
  PROVE  ServedInv'
<1>1. UNCHANGED <<disk, served>> /\ calls[c].at = "read"
  BY DEF ProviderFails, vars
<1>2. served' \in Stores /\ Grows /\ StoreInv'
  BY <1>1, StoresStay
<1>3. calls \in [Clients -> Calls] /\ WayInv(calls[c]) /\ AnswerInv(calls[c])
  BY DEF ServedInv, CallsInv
<1>4. PICK x \in Failures : Answer(c, ErrorAnswer(calls[c].request.via, x), "")
  BY DEF ProviderFails
<1>5. PICK code \in Codes : code = ErrorAnswer(calls[c].request.via, x)
  BY CodesType
<1>6. Answer(c, code, "") /\ calls[c].request \in Asked
  BY <1>1, <1>3, <1>4, <1>5 DEF WayInv, UnderWay
<1> QED
  BY <1>1, <1>2, <1>5, <1>6, CallIsAnswered

(* The answer names the mode the store knows, and the store knows the      *)
(* index that its rows are from.                                           *)
LEMMA StampKeeps ==
  ASSUME Inv, ServedInv, NEW c \in Clients, Stamp(c), UNCHANGED vars
  PROVE  ServedInv'
<1> DEFINE r == calls[c].request
           mode == ModeOf(Known(r.via))
<1>1. /\ UNCHANGED disk /\ calls[c].at = "read" /\ Keep(r.via) /\ Answer(c, "ok", mode)
      /\ calls \in [Clients -> Calls] /\ WayInv(calls[c]) /\ AnswerInv(calls[c])
  BY DEF Stamp, vars, ServedInv, CallsInv
<1>2. r \in Asked /\ r.via \in {"rest", "mcp"} /\ served[r.via].open
  BY <1>1, AskedAssumption DEF WayInv, UnderWay
<1>3. /\ served' \in Stores /\ Grows /\ StoreInv'
      /\ served'[r.via].info = Known(r.via) /\ served'[r.via].open
  BY <1>1, <1>2, KeepKeepsStores
<1>4. /\ Known(r.via) \in Infos \cup {None}
      /\ served[r.via].info # None => Known(r.via) = served[r.via].info
      /\ disk.info # None => Known(r.via) # None
  BY <1>2, KnownType
<1>5. mode \in Modes \cup {"unknown"} /\ "ok" \in Codes
  BY <1>4, ModeType, CodesType
<1>6. r.op \notin Texts \cup {"intent"} => mode \in {"scip", "syntax"}
  <2>1. r.op \notin Texts \cup {"intent"} => Coded(Known(r.via))
    BY <1>1, <1>4 DEF WayInv, Coded
  <2> QED
    BY <1>4, <2>1, ModeType
<1>7. calls[c].from # {} => Known(r.via) # None
  BY <1>1, <1>4 DEF AnswerInv
<1> HIDE DEF mode
<1>8. "ok" # Refusal(r.via)
  BY RefusalIsOne
<1> QED
  BY <1>1, <1>2, <1>3, <1>5, <1>6, <1>7, <1>8, CallIsAnswered

LEMMA ServedInvNext ==
  ASSUME Inv, ServedInv, [ServedNext]_<<vars, servingVars>>
  PROVE  ServedInv'
<1>1. CASE StartRest /\ UNCHANGED vars
  BY <1>1, StartRestKeeps
<1>2. ASSUME NEW c \in Clients, NEW r \in Asked, Ask(c, r), UNCHANGED vars
      PROVE  ServedInv'
  BY <1>2, AskKeeps
<1>3. ASSUME NEW c \in Clients, UNCHANGED vars,
             Lock(c) \/ Ungated(c) \/ AskCapabilities(c) \/ AskMode(c) \/ Read(c) \/ ProviderFails(c) \/ Stamp(c)
      PROVE  ServedInv'
  BY <1>3, LockKeeps, AskCapabilitiesKeeps, AskModeKeeps, ReadKeeps, ProviderFailsKeeps, StampKeeps
<1>4. ASSUME NEW c \in Clients, LeaveEarly(c), UNCHANGED vars
      PROVE  ServedInv'
  <2>1. UNCHANGED <<disk, served, calls>>
    BY <1>4 DEF LeaveEarly, vars
  <2> QED
    BY <2>1, StoresStay, CallsStay
<1>5. CASE Next /\ UNCHANGED servingVars
  <2>1. UNCHANGED <<served, calls>>
    BY <1>5 DEF servingVars
  <2>2. disk.info # None => disk'.info # None /\ disk'.info.snapshot = disk.info.snapshot
    BY <1>5, SnapshotStays
  <2>3. served' \in Stores /\ Grows
    BY <2>1 DEF ServedInv, Grows
  <2>4. StoreInv'
    BY <2>1, <2>2 DEF ServedInv, StoreInv
  <2> QED
    BY <2>1, <2>2, <2>3, <2>4, CallsStay
<1>6. CASE UNCHANGED <<vars, servingVars>>
  <2>1. UNCHANGED <<disk, served, calls>>
    BY <1>6 DEF vars, servingVars
  <2> QED
    BY <2>1, StoresStay, CallsStay
<1> QED
  BY <1>1, <1>2, <1>3, <1>4, <1>5, <1>6 DEF ServedNext, ServingNext

(* Whatever the clients of both processes ask and however builds commit    *)
(* under them, rows of symbols or of the graph are answered under a mode   *)
(* that has them, a refusal names the mode it is for, and all rows of an   *)
(* answer are of the snapshot its store knows (AnswersExplainThemselves).  *)
THEOREM AnswersAlwaysExplain == ServedSpec => []AnswersExplainThemselves
<1>1. Inv /\ ServedInv => AnswersExplainThemselves
  <2> SUFFICES ASSUME ServedInv, NEW c \in Answered
               PROVE  LET call == calls[c] op == call.request.op IN
                      /\ call.code = "ok" /\ op \notin Texts \cup {"intent"} => call.mode \in {"scip", "syntax"}
                      /\ call.code = Refusal(call.request.via) /\ op # "other edge" =>
                           \/ call.mode = "document"
                           \/ ~call.knew /\ op # "intent"
                      /\ call.from # {} /\ call.code = "ok" => call.from = {served[call.request.via].info.snapshot}
    BY DEF AnswersExplainThemselves
  <2>1. c \in Clients /\ calls[c].at = "answered" /\ calls[c].mode # "" /\ AnswerInv(calls[c])
    BY DEF Answered, ServedInv, CallsInv
  <2>2. calls[c].request.via \in {"rest", "mcp"}
    BY <2>1, AskedAssumption DEF AnswerInv
  <2>3. served[calls[c].request.via].info # None =>
          served[calls[c].request.via].info.snapshot = disk.info.snapshot
    BY <2>2 DEF ServedInv, StoreInv
  <2> QED
    BY <2>1, <2>3 DEF AnswerInv
<1>2. ServedInit => Inv /\ ServedInv
  BY InvInit, ServedInvInit DEF ServedInit
<1>3. Inv /\ ServedInv /\ [ServedNext]_<<vars, servingVars>> => (Inv /\ ServedInv)'
  <2> SUFFICES ASSUME Inv, ServedInv, [ServedNext]_<<vars, servingVars>>
               PROVE  Inv' /\ ServedInv'
    OBVIOUS
  <2>1. [Next]_vars
    BY DEF ServedNext
  <2> QED
    BY <2>1, InvNext, ServedInvNext
<1> QED
  BY <1>1, <1>2, <1>3, PTL DEF ServedSpec

-----------------------------------------------------------------------------
(* Names.                                                                  *)

LEMMA AppendedTo ==
  ASSUME NEW S, NEW a \in Seq(S), NEW n \in S
  PROVE  /\ Append(a, n) \in Seq(S) /\ Append(a, n) # <<>> /\ Last(Append(a, n)) = n
         /\ Len(a) \in Nat /\ Len(Append(a, n)) = Len(a) + 1
         /\ \A i \in 1 .. Len(a) : Append(a, n)[i] = a[i]
<1>1. Len(a) \in Nat /\ Len(Append(a, n)) = Len(a) + 1
  OBVIOUS
<1>2. Append(a, n)[Len(a) + 1] = n
  OBVIOUS
<1>3. Append(a, n) \in Seq(S) /\ Append(a, n) # <<>>
  BY AppendProperties
<1>4. \A i \in 1 .. Len(a) : Append(a, n)[i] = a[i]
  OBVIOUS
<1>5. Last(Append(a, n)) = n
  BY <1>1, <1>2 DEF Last
<1> QED
  BY <1>1, <1>3, <1>4, <1>5

LEMMA Appended ==
  ASSUME NEW a \in Names, NEW n \in STRING
  PROVE  /\ Append(a, n) \in Names \ {<<>>} /\ Last(Append(a, n)) = n
         /\ Len(a) \in Nat /\ Len(Append(a, n)) = Len(a) + 1
         /\ \A i \in 1 .. Len(a) : Append(a, n)[i] = a[i]
<1>1. a \in Seq(STRING)
  BY DEF Names
<1>2. Append(a, n) \in Seq(STRING) /\ Append(a, n) # <<>>
  BY <1>1, AppendedTo, Zenon
<1>3. Last(Append(a, n)) = n
  BY <1>1, AppendedTo, Zenon
<1>4. Len(a) \in Nat /\ Len(Append(a, n)) = Len(a) + 1
  BY <1>1, AppendedTo, Zenon
<1>5. \A i \in 1 .. Len(a) : Append(a, n)[i] = a[i]
  BY <1>1, AppendedTo, Zenon
<1> QED
  BY <1>2, <1>3, <1>4, <1>5 DEF Names

LEMMA Joined ==
  ASSUME NEW a \in Names, NEW b \in Names
  PROVE  /\ a \o b \in Names /\ Len(a) \in Nat /\ Len(b) \in Nat /\ Len(a \o b) = Len(a) + Len(b)
         /\ \A i \in 1 .. Len(a) : (a \o b)[i] = a[i]
         /\ \A i \in 1 .. Len(b) : (a \o b)[Len(a) + i] = b[i]
         /\ b # <<>> => Last(a \o b) = Last(b) /\ a \o b # <<>>
BY DEF Names, Last

LEMMA SameNames ==
  ASSUME NEW a \in Names, NEW b \in Names, Len(a) = Len(b), \A i \in 1 .. Len(a) : a[i] = b[i]
  PROVE  a = b
BY SeqEqual DEF Names

LEMMA PrefixMeans ==
  ASSUME NEW a \in Names, NEW b \in Names
  PROVE  IsPrefix(a, b) <=> Len(a) <= Len(b) /\ \A i \in 1 .. Len(a) : a[i] = b[i]
<1> SUFFICES ASSUME Len(a) <= Len(b)
             PROVE  SubSeq(a, 1, Len(a)) = SubSeq(b, 1, Len(a)) <=> \A i \in 1 .. Len(a) : a[i] = b[i]
  BY DEF IsPrefix
<1> DEFINE m == Len(a)
           x == SubSeq(a, 1, m)
           y == SubSeq(b, 1, m)
<1>1. m \in Nat /\ Len(b) \in Nat
  BY DEF Names
<1>2. x \in Names /\ y \in Names /\ Len(x) = m /\ Len(y) = m
      /\ (\A i \in 1 .. m : x[i] = a[i]) /\ \A i \in 1 .. m : y[i] = b[i]
  BY <1>1 DEF Names
<1> HIDE DEF x, y, m
<1>3. (\A i \in 1 .. m : a[i] = b[i]) => x = y
  BY <1>1, <1>2, SameNames
<1>4. x = y => \A i \in 1 .. m : a[i] = b[i]
  BY <1>2
<1> QED
  BY <1>3, <1>4 DEF x, y, m

-----------------------------------------------------------------------------
(* The syntax indexer: every declaration that was visited, and every end of*)
(* a row that waits to be written, is the id of a symbol that waits too.   *)

Ids == {s.id : s \in symbols}

TreeInv ==
  /\ todo \subseteq DOMAIN JavaFiles
  /\ \A f \in ToSet(JavaFiles) : f \in DOMAIN tree /\ Nested(tree[f])

DeclaredInv ==
  /\ declared \in Seq(ToSet(declared))
  /\ \A e \in ToSet(declared) : e.visited => e.id \in Ids
  /\ \A p \in pending : p.from \in Ids

RowsInv ==
  /\ \A s \in symbols : s.within \in Ids \cup {<<>>}
  /\ \A o \in occurrences : o.symbol \in Ids
  /\ \A r \in relations : r[1] \in Ids /\ r[2] \in Ids

SyntaxInv == TreeInv /\ DeclaredInv /\ RowsInv /\ EndsAreSymbols

(* Whatever a look-up finds was declared, and visited.                     *)
Met == {e \in ToSet(declared) : e.visited}

LEMMA FoundIsDeclared ==
  /\ \A ref, pkg, imports : Resolve(ref, pkg, imports) \subseteq Met
  /\ \A owner, name, arity, is : Method(owner, name, arity, is) \subseteq Met
  /\ \A owner, name : Field(owner, name) \subseteq Met
<1>1. \A places \in SUBSET {i \in DOMAIN declared : declared[i].visited} :
        LatestIn(declared, places) \subseteq Met /\ OnlyIn(declared, places) \subseteq Met
  BY DEF LatestIn, OnlyIn, ToSet, Met
<1>2. Types \subseteq {i \in DOMAIN declared : declared[i].visited}
  BY DEF Types
<1>3. \A q : ByName(q) \subseteq Met
  BY <1>1, <1>2 DEF ByName
<1>4. \A imports, short : ImportedType(imports, short) \subseteq Met
  BY <1>3 DEF ImportedType
<1>5. \A pkg, short : Mates(pkg, short) \subseteq Met
  BY <1>1, <1>2 DEF Mates
<1>6. ASSUME NEW ref, NEW pkg, NEW imports
      PROVE  Resolve(ref, pkg, imports) \subseteq Met
  <2> DEFINE short == Last(ref)
             stars == {i \in DOMAIN imports : imports[i].star /\ ByName(Append(imports[i].target, short)) # {}}
             onDemand == UNION {ByName(Append(i.target, short)) : i \in OnlyIn(imports, stars)}
             alike == OnlyIn(declared, {i \in Types : declared[i].name = short})
  <2>1. onDemand \subseteq Met
    BY <1>3
  <2>2. alike \subseteq Met
    BY <1>1, <1>2
  <2>3. Resolve(ref, pkg, imports) =
          Either(ByName(ref), Either(ImportedType(imports, short), Either(Mates(pkg, short), Either(onDemand, alike))))
    BY DEF Resolve
  <2> HIDE DEF onDemand, alike, short
  <2> QED
    BY <1>3, <1>4, <1>5, <2>1, <2>2, <2>3 DEF Either
<1>7. \A owner, name, arity, is : Method(owner, name, arity, is) \subseteq Met
  <2> TAKE owner, name, arity, is
  <2> DEFINE places == {i \in DOMAIN declared : LET d == declared[i].decl IN
               declared[i].visited /\ d.is \in Callable /\ d.is = is /\ declared[i].owner = owner /\ declared[i].name = name /\ d.arity = arity}
  <2>1. Method(owner, name, arity, is) = OnlyIn(declared, places)
    BY DEF Method
  <2>2. places \subseteq {i \in DOMAIN declared : declared[i].visited}
    OBVIOUS
  <2> HIDE DEF places
  <2> QED
    BY <1>1, <2>1, <2>2
<1>8. \A owner, name : Field(owner, name) \subseteq Met
  BY <1>1 DEF Field, Fields
<1> QED
  BY <1>6, <1>7, <1>8

(* The type around what is visited is visited.                             *)
LEMMA OwnerIsVisited ==
  ASSUME NEW text, Nested(text), NEW d \in ToSet(text.decls), d.in # <<>>, Visited(text, d)
  PROVE  /\ OwnerOf(text, d) \in ToSet(text.decls) /\ OwnerOf(text, d).is \in TypeKinds
         /\ Append(OwnerOf(text, d).in, OwnerOf(text, d).name) = d.in
         /\ Visited(text, OwnerOf(text, d))
<1> DEFINE o == OwnerOf(text, d)
<1>1. o \in ToSet(text.decls) /\ o.is \in TypeKinds /\ Append(o.in, o.name) = d.in
  BY DEF Nested, OwnerOf
<1>2. \A e \in ToSet(text.decls) : e.name \in STRING /\ e.in \in Names
  BY DEF Nested, IsDeclaration
<1>3. ASSUME NEW e \in ToSet(text.decls), e.is = "enum", IsPrefix(Append(e.in, e.name), o.in)
      PROVE  IsPrefix(Append(e.in, e.name), d.in)
  <2> DEFINE q == Append(e.in, e.name)
  <2>1. q \in Names
    BY <1>2, Appended
  <2>2. o.in \in Names /\ o.name \in STRING /\ d.in \in Names
    BY <1>1, <1>2
  <2>3. /\ Len(o.in) \in Nat /\ Len(d.in) = Len(o.in) + 1
        /\ \A i \in 1 .. Len(o.in) : d.in[i] = o.in[i]
    BY <1>1, <2>2, Appended
  <2> HIDE DEF o, q
  <2>4. Len(q) \in Nat /\ Len(q) <= Len(o.in) /\ \A i \in 1 .. Len(q) : q[i] = o.in[i]
    <3>1. IsPrefix(q, o.in)
      BY <1>3 DEF q
    <3>2. Len(q) \in Nat
      BY <2>1 DEF Names
    <3> QED
      BY <2>1, <2>2, <3>1, <3>2, PrefixMeans
  <2>5. Len(q) <= Len(d.in) /\ \A i \in 1 .. Len(q) : q[i] = d.in[i]
    BY <2>3, <2>4
  <2>6. IsPrefix(q, d.in)
    BY <2>1, <2>2, <2>5, PrefixMeans
  <2> QED
    BY <2>6 DEF q
<1>4. \A e \in ToSet(text.decls) : e.is = "enum" => ~ IsPrefix(Append(e.in, e.name), d.in)
  BY DEF Visited
<1>5. Visited(text, o)
  <2> HIDE DEF o
  <2> QED
    BY <1>1, <1>3, <1>4 DEF Visited
<1> QED
  BY <1>1, <1>5

(* A text has a symbol for each declaration that is visited and for what is*)
(* around it.                                                              *)
LEMMA SymbolsOfText ==
  ASSUME NEW f, NEW text, Nested(text)
  PROVE  LET ids == {s.id : s \in SymbolsOf(f, text)} IN
         /\ \A d \in ToSet(text.decls) : Visited(text, d) => SymbolId(f, text, d) \in ids
         /\ \A s \in SymbolsOf(f, text) : s.within \in ids \cup {<<>>}
         /\ \A o \in DefinitionsOf(f, text) : o.symbol \in ids
         /\ \A p \in PendingOf(f, text) : p.from \in ids
<1> DEFINE ids == {s.id : s \in SymbolsOf(f, text)}
<1>1. \A d \in ToSet(text.decls) : Visited(text, d) => SymbolId(f, text, d) \in ids
  <2> SUFFICES ASSUME NEW d \in ToSet(text.decls), Visited(text, d) PROVE SymbolId(f, text, d) \in ids
    OBVIOUS
  <2>1. \E k \in VisitedIn(text) : text.decls[k] = d
    BY DEF VisitedIn, ToSet
  <2>2. [id |-> SymbolId(f, text, d), within |-> Enclosing(f, text, d)] \in SymbolsOf(f, text)
    BY <2>1 DEF SymbolsOf
  <2> QED
    BY <2>2
<1>2. PackageId(text) \in ids \cup {<<>>} /\ (text.pkg # <<>> => PackageId(text) \in ids)
  <2>1. CASE text.pkg # <<>>
    <3>1. [id |-> PackageId(text), within |-> <<>>] \in SymbolsOf(f, text)
      BY <2>1 DEF SymbolsOf
    <3> QED
      BY <3>1
  <2> QED
    BY <2>1 DEF PackageId
<1>3. \A i \in ToSet(text.imports) : ImportId(f, i) \in ids
  <2> SUFFICES ASSUME NEW i \in ToSet(text.imports) PROVE ImportId(f, i) \in ids
    OBVIOUS
  <2>1. [id |-> ImportId(f, i), within |-> PackageId(text)] \in SymbolsOf(f, text)
    BY DEF SymbolsOf
  <2> QED
    BY <2>1
<1>4. \A d \in ToSet(text.decls) : Visited(text, d) => Enclosing(f, text, d) \in ids \cup {<<>>}
  <2> SUFFICES ASSUME NEW d \in ToSet(text.decls), Visited(text, d), d.in # <<>>
               PROVE  SymbolId(f, text, OwnerOf(text, d)) \in ids
    BY <1>2 DEF Enclosing
  <2> QED
    BY <1>1, OwnerIsVisited
<1>5. \A k \in VisitedIn(text) : text.decls[k] \in ToSet(text.decls) /\ Visited(text, text.decls[k])
  BY DEF ToSet, VisitedIn
<1>6. \A s \in SymbolsOf(f, text) :
        s.within \in {<<>>, PackageId(text)} \cup {Enclosing(f, text, text.decls[k]) : k \in VisitedIn(text)}
  BY DEF SymbolsOf
<1>7. \A k \in DOMAIN text.imports : text.imports[k] \in ToSet(text.imports)
  BY DEF ToSet
<1>8. \A o \in DefinitionsOf(f, text) :
        \/ o.symbol = PackageId(text) /\ text.pkg # <<>>
        \/ \E k \in DOMAIN text.imports : o.symbol = ImportId(f, text.imports[k])
        \/ \E k \in VisitedIn(text) : o.symbol = SymbolId(f, text, text.decls[k])
  BY DEF DefinitionsOf, Row
<1>9. \A p \in PendingOf(f, text) : \E k \in VisitedIn(text) : p.from = SymbolId(f, text, text.decls[k])
  BY DEF PendingOf
<1> HIDE DEF ids
<1>10. \A s \in SymbolsOf(f, text) : s.within \in ids \cup {<<>>}
  BY <1>2, <1>4, <1>5, <1>6
<1>11. \A o \in DefinitionsOf(f, text) : o.symbol \in ids
  BY <1>1, <1>2, <1>3, <1>5, <1>7, <1>8
<1>12. \A p \in PendingOf(f, text) : p.from \in ids
  BY <1>1, <1>5, <1>9
<1> QED
  BY <1>1, <1>10, <1>11, <1>12 DEF ids

LEMMA JoinedDeclarations ==
  ASSUME NEW a, a \in Seq(ToSet(a)), NEW b, b \in Seq(ToSet(b))
  PROVE  a \o b \in Seq(ToSet(a \o b)) /\ ToSet(a \o b) = ToSet(a) \cup ToSet(b)
<1> DEFINE S == ToSet(a) \cup ToSet(b)
           ab == a \o b
           m == Len(a)
           n == Len(b)
<1>1. m \in Nat /\ DOMAIN a = 1..m /\ n \in Nat /\ DOMAIN b = 1..n /\ a \in Seq(S) /\ b \in Seq(S)
  OBVIOUS
<1>2. /\ ab \in Seq(S) /\ Len(ab) = m + n
      /\ \A i \in 1..m + n : ab[i] = IF i <= m THEN a[i] ELSE b[i - m]
  BY <1>1, ConcatProperties
<1>3. DOMAIN ab = 1..(m + n) /\ \A i \in DOMAIN ab : ab[i] \in S
  BY <1>2
<1> HIDE DEF ab, m, n
<1>4. ToSet(ab) \subseteq S
  BY <1>3 DEF ToSet
<1>5. \A i \in 1..m : ab[i] = a[i] /\ i \in DOMAIN ab
  <2> TAKE i \in 1..m
  <2>1. i \in 1..(m + n) /\ i <= m
    BY <1>1
  <2> QED
    BY <1>2, <1>3, <2>1
<1>6. \A i \in 1..n : ab[m + i] = b[i] /\ m + i \in DOMAIN ab
  <2> TAKE i \in 1..n
  <2>1. m + i \in 1..(m + n) /\ ~(m + i <= m) /\ (m + i) - m = i
    BY <1>1
  <2> QED
    BY <1>2, <1>3, <2>1
<1>7. S \subseteq ToSet(ab)
  <2>1. ToSet(a) \subseteq ToSet(ab)
    BY <1>1, <1>5 DEF ToSet
  <2>2. ToSet(b) \subseteq ToSet(ab)
    BY <1>1, <1>6 DEF ToSet
  <2> QED
    BY <2>1, <2>2
<1>8. ab \in Seq(ToSet(ab))
  BY <1>2, <1>4, <1>7
<1> QED
  BY <1>4, <1>7, <1>8 DEF ab

Entry(f, text, d) ==
  [id |-> SymbolId(f, text, d), owner |-> Around(text, d), qname |-> QName(text, d), name |-> Name(d),
   pkg |-> text.pkg, decl |-> d, visited |-> Visited(text, d)]

(* Every declaration of a text has an entry.                               *)
LEMMA EntriesOfText ==
  ASSUME NEW f, NEW text, Nested(text)
  PROVE  /\ DeclaredIn(f, text) \in Seq(ToSet(DeclaredIn(f, text)))
         /\ ToSet(DeclaredIn(f, text)) = {Entry(f, text, d) : d \in ToSet(text.decls)}
<1> DEFINE new == DeclaredIn(f, text)
<1>1. text.decls \in Seq(ToSet(text.decls))
  BY DEF Nested
<1>2. PICK n \in Nat : DOMAIN text.decls = 1..n
  BY <1>1
<1>3. /\ DOMAIN new = DOMAIN text.decls
      /\ \A k \in DOMAIN text.decls : new[k] = Entry(f, text, text.decls[k])
      /\ new = [k \in 1..n |-> new[k]]
  BY <1>2 DEF DeclaredIn, Entry
<1> HIDE DEF new
<1>4. \A k \in 1..n : new[k] \in ToSet(new)
  BY <1>2, <1>3 DEF ToSet
<1>5. new \in [1..n -> ToSet(new)]
  BY <1>3, <1>4
<1>6. new \in Seq(ToSet(new))
  BY <1>2, <1>5
<1>7. ToSet(new) = {Entry(f, text, d) : d \in ToSet(text.decls)}
  BY <1>3 DEF ToSet
<1> QED
  BY <1>6, <1>7 DEF new

LEMMA DeclaredOfText ==
  ASSUME NEW f, NEW text, Nested(text)
  PROVE  /\ DeclaredIn(f, text) \in Seq(ToSet(DeclaredIn(f, text)))
         /\ \A e \in ToSet(DeclaredIn(f, text)) : 
              e.visited => \E d \in ToSet(text.decls) : Visited(text, d) /\ e.id = SymbolId(f, text, d)
BY EntriesOfText DEF Entry

LEMMA SyntaxInvInit == SyntaxInit => SyntaxInv
<1> SUFFICES ASSUME SyntaxInit PROVE SyntaxInv
  OBVIOUS
<1>1. TreeInv
  <2>1. PICK p \in Projects : tree = p.files
    BY DEF SyntaxInit
  <2>2. todo \subseteq DOMAIN JavaFiles
    BY DEF SyntaxInit, Listing
  <2> QED
    BY <2>1, <2>2, TextsAssumption DEF TreeInv
<1>2. declared = <<>> /\ pending = {} /\ symbols = {} /\ occurrences = {} /\ relations = {} /\ index = NoRows
  BY DEF SyntaxInit
<1>3. ToSet(<<>>) = {} /\ <<>> \in Seq({})
  BY DEF ToSet
<1>4. EndsAreSymbols
  BY <1>2 DEF NoRows, EndsAreSymbols
<1> QED
  BY <1>1, <1>2, <1>3, <1>4 DEF SyntaxInv, DeclaredInv, RowsInv

(* A file is read: its declarations come with their symbols.               *)
LEMMA CollectKeepsInv == SyntaxInv /\ Collect => SyntaxInv'
<1> SUFFICES ASSUME SyntaxInv, Collect PROVE SyntaxInv'
  OBVIOUS
<1>1. PICK i \in todo :
        LET f == JavaFiles[i] text == tree[f] IN
          /\ todo' = todo \ {i}
          /\ declared' = declared \o DeclaredIn(f, text)
          /\ pending' = pending \cup PendingOf(f, text)
          /\ symbols' = symbols \cup SymbolsOf(f, text)
          /\ occurrences' = occurrences \cup DefinitionsOf(f, text)
  BY DEF Collect, Takes
<1>2. UNCHANGED <<tree, relations, index>>
  BY DEF Collect
<1> DEFINE f == JavaFiles[i]
           text == tree[f]
           ids == {s.id : s \in SymbolsOf(f, text)}
<1>3. Nested(text)
  BY DEF SyntaxInv, TreeInv, ToSet
<1>4. /\ \A d \in ToSet(text.decls) : Visited(text, d) => SymbolId(f, text, d) \in ids
      /\ \A s \in SymbolsOf(f, text) : s.within \in ids \cup {<<>>}
      /\ \A o \in DefinitionsOf(f, text) : o.symbol \in ids
      /\ \A p \in PendingOf(f, text) : p.from \in ids
  BY <1>3, SymbolsOfText
<1>5. /\ DeclaredIn(f, text) \in Seq(ToSet(DeclaredIn(f, text)))
      /\ \A e \in ToSet(DeclaredIn(f, text)) : e.visited => e.id \in ids
  BY <1>3, <1>4, DeclaredOfText
<1>6. Ids' = Ids \cup ids
  BY <1>1 DEF Ids
<1> HIDE DEF ids, f, text
<1>7. TreeInv'
  BY <1>1, <1>2 DEF SyntaxInv, TreeInv
<1>8. DeclaredInv'
  <2>1. declared' \in Seq(ToSet(declared')) /\ ToSet(declared') = ToSet(declared) \cup ToSet(DeclaredIn(f, text))
    BY <1>1, <1>5, JoinedDeclarations DEF SyntaxInv, DeclaredInv, f, text
  <2>2. pending' = pending \cup PendingOf(f, text)
    BY <1>1 DEF f, text
  <2> QED
    BY <1>4, <1>5, <1>6, <2>1, <2>2 DEF SyntaxInv, DeclaredInv
<1>9. RowsInv'
  <2>1. symbols' = symbols \cup SymbolsOf(f, text) /\ occurrences' = occurrences \cup DefinitionsOf(f, text)
    BY <1>1 DEF f, text
  <2> QED
    BY <1>2, <1>4, <1>6, <2>1 DEF SyntaxInv, RowsInv
<1>10. EndsAreSymbols'
  BY <1>2 DEF SyntaxInv, EndsAreSymbols
<1> QED
  BY <1>7, <1>8, <1>9, <1>10 DEF SyntaxInv

(* A name leads to a declaration, or to a symbol of its own.               *)
LEMMA RelateKeepsInv == SyntaxInv /\ Relate => SyntaxInv'
<1> SUFFICES ASSUME SyntaxInv, Relate PROVE SyntaxInv'
  OBVIOUS
<1> DEFINE fresh == UNION {{[id |-> t, within |-> <<>>] : t \in {t \in Targets(p) : t[1] = "ann"}} : p \in pending}
           references == UNION {{Row(p.file, t, p.at, "reference") : t \in Targets(p)} : p \in {p \in pending : p.at # <<>>}}
           related == UNION {{<<p.from, t, p.relation>> : t \in Targets(p)} : p \in pending}
<1>1. /\ todo' = Listing /\ relations' = relations \cup related
      /\ occurrences' = occurrences \cup references
      /\ symbols' = symbols \cup fresh
      /\ UNCHANGED <<tree, declared, pending, index>>
  BY DEF Relate
<1>2. \A p \in pending : \A t \in Targets(p) : t \in Ids'
  <2> SUFFICES ASSUME NEW p \in pending, NEW t \in Targets(p) PROVE t \in Ids'
    OBVIOUS
  <2> DEFINE found == Resolve(p.ref, p.pkg, p.imports)
             guess == <<"ann", GuessedName(p.ref, p.pkg, p.imports)>>
  <2>1. (\E e \in found : t = e.id) \/ t = guess
    BY DEF Targets
  <2>2. CASE \E e \in found : t = e.id
    <3>1. t \in Ids
      BY <2>2, FoundIsDeclared DEF SyntaxInv, DeclaredInv, Met
    <3> QED
      BY <1>1, <3>1 DEF Ids
  <2>3. CASE t = guess
    <3>1. t[1] = "ann"
      BY <2>3
    <3>2. [id |-> t, within |-> <<>>] \in fresh
      BY <3>1
    <3> HIDE DEF fresh
    <3>3. [id |-> t, within |-> <<>>] \in symbols'
      BY <1>1, <3>2
    <3> QED
      BY <3>3 DEF Ids
  <2> QED
    BY <2>1, <2>2, <2>3
<1>3. \A s \in fresh : s.within = <<>>
  OBVIOUS
<1>4. \A o \in references : o.symbol \in Ids'
  BY <1>2 DEF Row
<1>5. \A r \in related : r[1] \in Ids /\ r[2] \in Ids'
  BY <1>2 DEF SyntaxInv, DeclaredInv
<1> HIDE DEF fresh, references, related
<1>6. Ids \subseteq Ids'
  BY <1>1 DEF Ids
<1>7. TreeInv'
  BY <1>1 DEF SyntaxInv, TreeInv, Listing
<1>8. DeclaredInv'
  BY <1>1, <1>6 DEF SyntaxInv, DeclaredInv
<1>9. RowsInv'
  BY <1>1, <1>3, <1>4, <1>5, <1>6 DEF SyntaxInv, RowsInv
<1>10. EndsAreSymbols'
  BY <1>1 DEF SyntaxInv, EndsAreSymbols
<1> QED
  BY <1>7, <1>8, <1>9, <1>10 DEF SyntaxInv

(* Whatever the second pass finds in a file, edited or not, refers to what *)
(* the first pass has met.                                                 *)
LEMMA ScanKeepsInv == SyntaxInv /\ Scan => SyntaxInv'
<1> SUFFICES ASSUME SyntaxInv, Scan PROVE SyntaxInv'
  OBVIOUS
<1>1. PICK i \in todo :
        /\ todo' = todo \ {i}
        /\ relations' = relations \cup {<<x.from, x.hit.to, x.hit.relation>> : x \in ScanHits(JavaFiles[i])}
        /\ occurrences' = occurrences \cup {Row(JavaFiles[i], x.hit.to, x.at, "reference") : x \in ScanHits(JavaFiles[i])}
  BY DEF Scan, Takes
<1>2. UNCHANGED <<tree, declared, pending, symbols, index>>
  BY DEF Scan
<1>3. \A own, u, d, pkg, imports : \A h \in Hits(own, u, d, pkg, imports) : \E e \in Met : h.to = e.id
  <2> TAKE own, u, d, pkg, imports
  <2> DEFINE fieldAt(name, j) == {[relation |-> "field_refs", to |-> x.id, token |-> j] : x \in Field(own, name)}
             tokens == UNION {fieldAt(u.path[j], j) : j \in FieldPlaces(d, u.path)}
             through == IF u.path \in {<<>>, <<"this">>} \/ IsLocal(d, u.path) THEN {} ELSE fieldAt(Last(u.path), 1)
             called == UNION {Method(o, u.name, u.args, "method") : o \in Receiver(own, u, d, pkg, imports)}
             built == UNION {Method(t.qname, t.name, u.args, "constructor") : t \in Resolve(u.path, pkg, imports)}
             calling(ms) == {[relation |-> "calls", to |-> m.id, token |-> 0] : m \in ms}
             Good(hits) == \A h \in hits : \E e \in Met : h.to = e.id
  <2>1. \A name, j : Good(fieldAt(name, j))
    BY FoundIsDeclared
  <2>2. Good(tokens) /\ Good(through)
    <3> HIDE DEF fieldAt
    <3>1. Good(through)
      BY <2>1
    <3>2. \A h \in tokens : \E j \in FieldPlaces(d, u.path) : h \in fieldAt(u.path[j], j)
      OBVIOUS
    <3> QED
      BY <2>1, <3>1, <3>2
  <2>3. called \subseteq Met /\ built \subseteq Met
    BY FoundIsDeclared
  <2> HIDE DEF called, built, tokens, through
  <2>4. Good(calling(called)) /\ Good(calling(built))
    BY <2>3
  <2>5. Hits(own, u, d, pkg, imports) \subseteq calling(called) \cup through \cup tokens \cup calling(built)
    BY DEF Hits, called, built, tokens, through
  <2> HIDE DEF calling
  <2> QED
    BY <2>2, <2>4, <2>5
<1>4. \A f : \A x \in ScanHits(f) : x.from \in Ids /\ x.hit.to \in Ids
  <2> SUFFICES ASSUME NEW f, NEW x \in ScanHits(f) PROVE x.from \in Ids /\ x.hit.to \in Ids
    OBVIOUS
  <2> DEFINE text == tree[f]
             imports == IF f \in DOMAIN seen THEN seen[f].imports ELSE <<>>
             found(k, d, n) ==
               {[from |-> m.id, hit |-> h, at |-> <<k, "use", n, h.token>>] :
                  m \in Scanned(f, text, d), h \in Hits(Around(text, d), d.uses[n], d, text.pkg, imports)}
             inBody(k, d) == UNION {found(k, d, n) : n \in DOMAIN d.uses}
  <2>1. PICK d, n : \E m \in Scanned(f, text, d), h \in Hits(Around(text, d), d.uses[n], d, text.pkg, imports) :
                      x.from = m.id /\ x.hit = h
    <3>1. ScanHits(f) = UNION {inBody(k, text.decls[k]) : k \in {k \in DOMAIN text.decls : text.decls[k].is \in Callable}}
      BY DEF ScanHits
    <3> HIDE DEF inBody
    <3>2. PICK k : x \in inBody(k, text.decls[k])
      BY <3>1
    <3> USE DEF inBody
    <3> HIDE DEF found
    <3>3. PICK n : x \in found(k, text.decls[k], n)
      BY <3>2
    <3> USE DEF found
    <3> HIDE DEF text, imports
    <3> DEFINE body == text.decls[k]
               uses == Hits(Around(text, body), body.uses[n], body, text.pkg, imports)
    <3> HIDE DEF body, uses
    <3>4. x \in {[from |-> m.id, hit |-> h, at |-> <<k, "use", n, h.token>>] : m \in Scanned(f, text, body), h \in uses}
      BY <3>3 DEF body, uses
    <3>5. \E m \in Scanned(f, text, body), h \in uses : x.from = m.id /\ x.hit = h
      BY <3>4
    <3> QED
      BY <3>5 DEF uses
  <2>2. \A decl : Scanned(f, tree[f], decl) \subseteq Met
    BY FoundIsDeclared DEF Scanned
  <2> QED
    BY <1>3, <2>1, <2>2 DEF SyntaxInv, DeclaredInv, Met
<1>5. Ids' = Ids
  BY <1>2 DEF Ids
<1>6. TreeInv'
  BY <1>1, <1>2 DEF SyntaxInv, TreeInv
<1>7. DeclaredInv'
  BY <1>2, <1>5 DEF SyntaxInv, DeclaredInv
<1>8. RowsInv'
  BY <1>1, <1>2, <1>4, <1>5 DEF SyntaxInv, RowsInv, Row
<1>9. EndsAreSymbols'
  BY <1>2 DEF SyntaxInv, EndsAreSymbols
<1> QED
  BY <1>6, <1>7, <1>8, <1>9 DEF SyntaxInv

LEMMA SyntaxInvNext == SyntaxInv /\ [SyntaxNext]_syntaxVars => SyntaxInv'
<1> SUFFICES ASSUME SyntaxInv, [SyntaxNext]_syntaxVars PROVE SyntaxInv'
  OBVIOUS
<1>1. CASE Collect
  BY <1>1, CollectKeepsInv
<1>2. CASE Relate
  BY <1>2, RelateKeepsInv
<1>3. CASE Scan
  BY <1>3, ScanKeepsInv
<1>4. ASSUME UNCHANGED <<tree, todo, declared, pending, rowVars>>
      PROVE  TreeInv' /\ DeclaredInv' /\ RowsInv'
  BY <1>4 DEF SyntaxInv, TreeInv, DeclaredInv, RowsInv, Ids, rowVars
<1>5. CASE ClearRows
  <2>1. index' = NoRows
    BY <1>5 DEF ClearRows
  <2>2. EndsAreSymbols'
    BY <2>1 DEF NoRows, EndsAreSymbols
  <2> QED
    BY <1>4, <1>5, <2>2 DEF ClearRows, SyntaxInv
<1>6. CASE Store
  <2>1. /\ index'.symbols = symbols /\ index'.occurrences = occurrences /\ index'.relations = relations
        /\ UNCHANGED <<tree, todo, declared, pending, rowVars>>
    BY <1>6 DEF Store
  <2>2. EndsAreSymbols'
    BY <2>1 DEF SyntaxInv, RowsInv, Ids, EndsAreSymbols
  <2> QED
    BY <1>4, <2>1, <2>2 DEF SyntaxInv
<1>7. CASE Edit
  <2>1. /\ \E f \in ToSet(JavaFiles), text \in Rewrites : tree' = [tree EXCEPT ![f] = text]
        /\ UNCHANGED <<todo, declared, pending, rowVars, index>>
    BY <1>7 DEF Edit
  <2>2. TreeInv'
    BY <2>1, TextsAssumption DEF SyntaxInv, TreeInv
  <2>3. DeclaredInv' /\ RowsInv' /\ EndsAreSymbols'
    BY <2>1 DEF SyntaxInv, DeclaredInv, RowsInv, Ids, rowVars, EndsAreSymbols
  <2> QED
    BY <2>2, <2>3 DEF SyntaxInv
<1>8. CASE UNCHANGED syntaxVars
  <2>1. EndsAreSymbols'
    BY <1>8 DEF syntaxVars, SyntaxInv, EndsAreSymbols
  <2> QED
    BY <1>4, <1>8, <2>1 DEF syntaxVars, SyntaxInv
<1> QED
  BY <1>1, <1>2, <1>3, <1>5, <1>6, <1>7, <1>8 DEF SyntaxNext

(* Whatever Java files are found and however they are edited while they    *)
(* are read, no row of the index has an end without a symbol               *)
(* (SyntaxFallbackIndexer.run; EndsAreSymbols).                            *)
THEOREM EndsAreAlwaysSymbols == SyntaxSpec => []EndsAreSymbols
<1>1. SyntaxInv => EndsAreSymbols
  BY DEF SyntaxInv
<1> QED
  BY <1>1, SyntaxInvInit, SyntaxInvNext, PTL DEF SyntaxSpec

-----------------------------------------------------------------------------
(* The greatest of some places of a sequence.                              *)
LEMMA GreatestPlace ==
  ASSUME NEW S, NEW m \in Nat, S \subseteq 1 .. m, S # {}
  PROVE  \E x \in S : \A y \in S : y <= x
<1> DEFINE Less == {ss \in Nat \X Nat : ss[1] < ss[2]}
           T == {m - x : x \in S}
<1>1. IsWellFoundedOn(Less, Nat)
  BY NatLessThanWellFounded DEF OpToRel
<1>2. T \in SUBSET Nat /\ T # {}
  <2>1. \A x \in S : m - x \in Nat
    OBVIOUS
  <2> QED
    BY <2>1
<1>3. PICK t \in T : \A u \in T : <<u, t>> \notin Less
  <2> HIDE DEF Less, T
  <2> QED
    BY <1>1, <1>2, WFMin
<1>4. t \in Nat /\ \A u \in T : u \in Nat /\ ~(u < t)
  <2> HIDE DEF T
  <2> QED
    BY <1>2, <1>3
<1>5. PICK x \in S : t = m - x
  OBVIOUS
<1>6. x \in Int /\ \A y \in S : y \in Int /\ m - y \in T
  OBVIOUS
<1> HIDE DEF T
<1>7. \A y \in S : ~(m - y < m - x)
  BY <1>4, <1>5, <1>6
<1>8. \A y \in S : y <= x
  BY <1>6, <1>7
<1> QED
  BY <1>8

(* Look-ups by places.                                                     *)
LEMMA LookUps ==
  ASSUME NEW s, NEW places
  PROVE  /\ places = {} => LatestIn(s, places) = {} /\ OnlyIn(s, places) = {}
         /\ \A i \in Int : places = {i} => LatestIn(s, places) = {s[i]} /\ OnlyIn(s, places) = {s[i]}
         /\ \A i, j \in places : i # j => OnlyIn(s, places) = {}
<1>1. places = {} => LatestIn(s, places) = {} /\ OnlyIn(s, places) = {}
  BY DEF LatestIn, OnlyIn
<1>2. \A i \in Int : places = {i} => LatestIn(s, places) = {s[i]} /\ OnlyIn(s, places) = {s[i]}
  BY DEF LatestIn, OnlyIn
<1>3. \A i, j \in places : i # j => OnlyIn(s, places) = {}
  BY DEF OnlyIn
<1> QED
  BY <1>1, <1>2, <1>3

LEMMA LatestIsThere ==
  ASSUME NEW s, NEW S, s \in Seq(S), NEW places, places \subseteq DOMAIN s, places # {}
  PROVE  \E i \in places : LatestIn(s, places) = {s[i]}
<1>1. Len(s) \in Nat /\ DOMAIN s = 1 .. Len(s)
  OBVIOUS
<1>2. PICK i \in places : \A j \in places : j <= i
  BY <1>1, GreatestPlace
<1>3. {k \in places : \A j \in places : j <= k} = {i}
  BY <1>1, <1>2
<1> QED
  BY <1>3 DEF LatestIn

-----------------------------------------------------------------------------
(* What Java finds and what the resolver finds.                            *)

TypeShape(t) ==
  /\ t.pkg \in Names /\ t.qname \in Names \ {<<>>} /\ t.name = Last(t.qname)
  /\ Len(t.pkg) < Len(t.qname) /\ IsPrefix(t.pkg, t.qname)

(* A name is looked up inside of types, all of which are known.            *)
KnownScope(pkg, in) ==
  /\ pkg \in Names /\ in \in Names
  /\ \A k \in DOMAIN in : \E o \in TypesMet : o.qname = pkg \o SubSeq(in, 1, k)

PlainTypes ==
  /\ declared \in Seq(ToSet(declared))
  /\ \A t \in TypesMet : TypeShape(t) /\ t.pkg # <<>>
  /\ \A i, j \in Types : declared[i].qname = declared[j].qname => i = j
  /\ \A t \in TypesMet : Len(t.qname) > Len(t.pkg) + 1 => ~ Shared(t.name)
  /\ \A t, u \in TypesMet : ~ IsPrefix(t.qname, u.pkg)

IsImports(imports) ==
  /\ imports \in Seq(ToSet(imports)) /\ \A i \in ToSet(imports) : i.target \in Names \ {<<>>}
  /\ PlainImports(imports)

(* A qualified name is of one type, and one entry.                         *)
LEMMA TypesAreNamed ==
  ASSUME PlainTypes
  PROVE  /\ \A q : ByName(q) = TypesNamed(q)
         /\ \A t, u \in TypesMet : t.qname = u.qname => t = u
         /\ \A i \in Types : i \in Int /\ declared[i] \in TypesMet
<1>1. \A i \in Types : i \in Int /\ declared[i] \in TypesMet
  <2>1. DOMAIN declared \subseteq Int
    BY DEF PlainTypes
  <2> QED
    BY <2>1 DEF Types, TypesMet
<1>2. \A t, u \in TypesMet : t.qname = u.qname => t = u
  BY DEF PlainTypes, TypesMet
<1>3. ASSUME NEW q PROVE ByName(q) = TypesNamed(q)
  <2> DEFINE places == {i \in Types : declared[i].qname = q}
  <2>1. ByName(q) = LatestIn(declared, places)
    BY DEF ByName
  <2>2. CASE places = {}
    BY <2>1, <2>2, LookUps DEF TypesNamed, TypesMet
  <2>3. CASE places # {}
    <3>1. PICK i \in places : TRUE
      BY <2>3
    <3>2. places = {i}
      BY <3>1 DEF PlainTypes
    <3>3. i \in Int /\ declared[i] \in TypesMet /\ declared[i].qname = q
      BY <1>1, <3>1
    <3>4. TypesNamed(q) = {declared[i]}
      BY <1>2, <3>3 DEF TypesNamed
    <3> HIDE DEF places
    <3> QED
      BY <2>1, <3>2, <3>3, <3>4, LookUps
  <2> QED
    BY <2>2, <2>3
<1> QED
  BY <1>1, <1>2, <1>3

(* Types with one last name: all ways to read a reference lead to such.    *)
Namesakes(n) == {t \in TypesMet : t.name = n}

LEMMA ResolvedToNamesakes ==
  ASSUME PlainTypes, NEW imports, IsImports(imports), NEW ref, NEW pkg
  PROVE  /\ Resolve(ref, pkg, imports) \subseteq Namesakes(Last(ref))
         /\ \A t : Namesakes(Last(ref)) = {t} => Resolve(ref, pkg, imports) = {t}
<1> DEFINE short == Last(ref)
           stars == {i \in DOMAIN imports : imports[i].star /\ ByName(Append(imports[i].target, short)) # {}}
           onDemand == UNION {ByName(Append(i.target, short)) : i \in OnlyIn(imports, stars)}
           alike == OnlyIn(declared, {i \in Types : declared[i].name = short})
<1>1. Resolve(ref, pkg, imports) =
        Either(ByName(ref), Either(ImportedType(imports, short), Either(Mates(pkg, short), Either(onDemand, alike))))
  BY DEF Resolve
<1>2. \A t \in TypesMet : t.name = Last(t.qname)
  BY DEF PlainTypes, TypeShape
<1>3. ByName(ref) \subseteq Namesakes(short)
  BY <1>2, TypesAreNamed DEF TypesNamed, Namesakes
<1>4. \A i \in ToSet(imports) : i.target \in Names
  BY DEF IsImports
<1>5. ImportedType(imports, short) \subseteq Namesakes(short)
  <2>1. \A i \in Imported(imports, short) : Last(i.target) = short
    BY DEF Imported, LatestIn
  <2> QED
    BY <1>2, <2>1, TypesAreNamed DEF ImportedType, TypesNamed, Namesakes
<1>6. Mates(pkg, short) \subseteq Namesakes(short)
  BY TypesAreNamed DEF Mates, OnlyIn, Namesakes
<1>7. onDemand \subseteq Namesakes(short)
  <2> SUFFICES ASSUME NEW i \in OnlyIn(imports, stars), NEW t \in ByName(Append(i.target, short))
               PROVE  t \in Namesakes(short)
    OBVIOUS
  <2>1. t \in TypesMet /\ t.qname = Append(i.target, short)
    BY TypesAreNamed DEF TypesNamed
  <2>2. i \in ToSet(imports)
    BY DEF OnlyIn, ToSet
  <2>3. Len(i.target) \in Nat
    BY <1>4, <2>2 DEF Names
  <2>4. Last(t.qname) = short
    BY <1>4, <2>1, <2>2, <2>3 DEF Last, Names
  <2> QED
    BY <1>2, <2>1, <2>4 DEF Namesakes
<1>8. alike \subseteq Namesakes(short)
  BY TypesAreNamed DEF OnlyIn, Namesakes
<1>9. ASSUME NEW t, Namesakes(short) = {t} PROVE alike = {t}
  <2>1. PICK i \in Types : t = declared[i]
    BY <1>9 DEF Namesakes, TypesMet
  <2>2. {k \in Types : declared[k].name = short} = {i}
    <3>1. \A k \in Types : declared[k].name = short => declared[k] = t
      BY <1>9, TypesAreNamed DEF Namesakes
    <3>2. t.name = short
      BY <1>9 DEF Namesakes
    <3> QED
      BY <2>1, <3>1, <3>2 DEF PlainTypes
  <2>3. i \in Int
    BY TypesAreNamed
  <2> QED
    BY <2>1, <2>2, <2>3, LookUps
<1> HIDE DEF onDemand, alike, short
<1>10. Resolve(ref, pkg, imports) \subseteq Namesakes(short)
  BY <1>1, <1>3, <1>5, <1>6, <1>7, <1>8 DEF Either
<1>11. ASSUME NEW t, Namesakes(short) = {t} PROVE Resolve(ref, pkg, imports) = {t}
  BY <1>1, <1>3, <1>5, <1>6, <1>7, <1>9, <1>11 DEF Either
<1> QED
  BY <1>10, <1>11 DEF short

LEMMA OneName ==
  ASSUME NEW n \in STRING
  PROVE  <<n>> \in Names \ {<<>>} /\ Last(<<n>>) = n
<1>1. <<n>> \in Seq(STRING)
  <2>1. <<>> \in Seq(STRING) /\ <<>> \o <<n>> = <<n>> /\ Append(<<>>, n) = <<n>>
    OBVIOUS
  <2> QED
    BY <2>1, AppendProperties
<1>2. Len(<<n>>) = 1 /\ <<n>>[1] = n /\ Len(<<>>) = 0
  OBVIOUS
<1>3. <<n>> # <<>>
  BY <1>2
<1> QED
  BY <1>1, <1>2, <1>3 DEF Names, Last

LEMMA LongerName ==
  ASSUME NEW a \in Names, NEW b \in Names \ {<<>>}
  PROVE  IsPrefix(a, a \o b) /\ Len(a) < Len(a \o b) /\ Last(a \o b) = Last(b)
<1>1. /\ a \o b \in Names /\ Len(a) \in Nat /\ Len(b) \in Nat /\ Len(a \o b) = Len(a) + Len(b)
      /\ \A i \in 1 .. Len(a) : (a \o b)[i] = a[i]
      /\ Last(a \o b) = Last(b)
  BY Joined
<1>2. Len(b) # 0
  BY DEF Names
<1>3. Len(a) < Len(a \o b) /\ Len(a) <= Len(a \o b)
  BY <1>1, <1>2
<1>4. IsPrefix(a, a \o b)
  BY <1>1, <1>3, PrefixMeans
<1> QED
  BY <1>1, <1>3, <1>4

LEMMA LongNames ==
  ASSUME NEW ref \in Names \ {<<>>}, Len(ref) # 1
  PROVE  Tail(ref) \in Names \ {<<>>} /\ Last(Tail(ref)) = Last(ref)
<1>1. Len(ref) \in Nat /\ Len(ref) # 0
  BY DEF Names
<1>2. Tail(ref) \in Names /\ Len(Tail(ref)) = Len(ref) - 1 /\ \A i \in 1 .. Len(Tail(ref)) : Tail(ref)[i] = ref[i + 1]
  BY HeadTailProperties DEF Names
<1>3. Len(Tail(ref)) \in 1 .. Len(Tail(ref)) /\ Len(Tail(ref)) + 1 = Len(ref)
  BY <1>1, <1>2
<1>4. Tail(ref) # <<>>
  BY <1>1, <1>2
<1> QED
  BY <1>2, <1>3, <1>4 DEF Last

(* The names by which Java finds a type end in the name that is looked up. *)
LEMMA LastOfLonger ==
  ASSUME NEW pkg \in Names, NEW in \in Names, NEW k \in DOMAIN in, NEW n
  PROVE  Last(pkg \o SubSeq(in, 1, k) \o <<n>>) = n
<1> DEFINE S == STRING \cup {n}
           a == pkg \o SubSeq(in, 1, k)
<1>1. k \in Nat /\ \A i \in 1 .. k : in[i] \in STRING
  BY DEF Names
<1>2. SubSeq(in, 1, k) \in Names
  BY <1>1, SubSeqProperties DEF Names
<1>3. a \in Names
  BY <1>2 DEF Names
<1> HIDE DEF a
<1>4. a \in Seq(S) /\ <<n>> \in Seq(S) /\ Len(<<n>>) = 1 /\ <<n>>[1] = n
  BY <1>3 DEF Names
<1>5. Len(a) \in Nat /\ Len(a \o <<n>>) = Len(a) + 1 /\ (a \o <<n>>)[Len(a) + 1] = n
  BY <1>4, ConcatProperties
<1>6. Last(a \o <<n>>) = n
  BY <1>5 DEF Last
<1> QED
  BY <1>6 DEF a

LEMMA SimpleNamesakes ==
  ASSUME PlainTypes, NEW imports, IsImports(imports), NEW pkg, NEW in, KnownScope(pkg, in), NEW n
  PROVE  JavaSimple(n, pkg, in, imports) \subseteq Namesakes(n)
<1>0. \A q : \A t \in TypesNamed(q) : t \in TypesMet /\ t.qname = q /\ t.name = Last(q)
  BY DEF PlainTypes, TypeShape, TypesNamed
<1> DEFINE depths == {k \in DOMAIN in : TypesNamed(pkg \o SubSeq(in, 1, k) \o <<n>>) # {}}
           inner == CHOOSE k \in depths : \A j \in depths : j <= k
           single == {i.target : i \in {i \in ToSet(imports) : ~ i.star /\ Last(i.target) = n}}
           stars == {i.target : i \in {i \in ToSet(imports) : i.star /\ TypesNamed(Append(i.target, n)) # {}}}
           one == pkg \o SubSeq(in, 1, inner) \o <<n>>
           two == UNION {TypesNamed(q) : q \in single}
           three == TypesNamed(Append(pkg, n))
           four == UNION {TypesNamed(Append(q, n)) : q \in stars}
<1>1. JavaSimple(n, pkg, in, imports) =
        IF depths # {} THEN TypesNamed(one) ELSE IF single # {} THEN two ELSE IF three # {} THEN three
        ELSE IF \E q \in stars : stars = {q} THEN four ELSE {}
  BY DEF JavaSimple
<1>2. \A q \in Names : Last(Append(q, n)) = n
  BY DEF Names, Last
<1>3. stars \subseteq Names /\ pkg \in Names /\ in \in Names
  BY DEF IsImports, KnownScope
<1>4. two \subseteq Namesakes(n)
  BY <1>0 DEF Namesakes
<1>5. three \subseteq Namesakes(n) /\ four \subseteq Namesakes(n)
  BY <1>0, <1>2, <1>3 DEF Namesakes
<1>6. ASSUME NEW k \in DOMAIN in PROVE TypesNamed(pkg \o SubSeq(in, 1, k) \o <<n>>) \subseteq Namesakes(n)
  BY <1>0, <1>3, LastOfLonger DEF Namesakes
<1>7. depths # {} => inner \in DOMAIN in
  <2> SUFFICES ASSUME depths # {} PROVE inner \in DOMAIN in
    OBVIOUS
  <2>1. Len(in) \in Nat /\ DOMAIN in = 1 .. Len(in) /\ depths \subseteq DOMAIN in
    BY <1>3 DEF Names
  <2> HIDE DEF depths
  <2>2. \E k \in depths : \A j \in depths : j <= k
    BY <2>1, GreatestPlace
  <2>3. inner \in depths
    BY <2>2
  <2> QED
    BY <2>1, <2>3
<1>8. depths # {} => TypesNamed(one) \subseteq Namesakes(n)
  BY <1>6, <1>7
<1> QED
  BY <1>1, <1>4, <1>5, <1>8

LEMMA JavaFindsNamesakes ==
  ASSUME PlainTypes, NEW imports, IsImports(imports), NEW pkg, NEW in, KnownScope(pkg, in), NEW ref \in Names \ {<<>>}
  PROVE  JavaType(ref, pkg, in, imports) \subseteq Namesakes(Last(ref))
<1>1. \A q : \A t \in TypesNamed(q) : t \in TypesMet /\ t.qname = q /\ t.name = Last(q)
  BY DEF PlainTypes, TypeShape, TypesNamed
<1>2. \A n : JavaSimple(n, pkg, in, imports) \subseteq Namesakes(n)
  BY SimpleNamesakes
<1>3. CASE Len(ref) = 1
  BY <1>2, <1>3 DEF JavaType, Last
<1>4. CASE Len(ref) # 1
  <2>1. Tail(ref) \in Names \ {<<>>} /\ Last(Tail(ref)) = Last(ref)
    BY <1>4, LongNames
  <2>2. ASSUME NEW t \in JavaSimple(ref[1], pkg, in, imports) PROVE Last(t.qname \o Tail(ref)) = Last(ref)
    <3>1. t \in TypesMet
      BY <1>2 DEF Namesakes
    <3>2. t.qname \in Names
      BY <3>1 DEF PlainTypes, TypeShape
    <3> QED
      BY <2>1, <3>2, Joined
  <2>3. UNION {TypesNamed(t.qname \o Tail(ref)) : t \in JavaSimple(ref[1], pkg, in, imports)} \subseteq Namesakes(Last(ref))
    BY <1>1, <2>2 DEF Namesakes
  <2>4. TypesNamed(ref) \subseteq Namesakes(Last(ref))
    BY <1>1 DEF Namesakes
  <2> QED
    BY <1>4, <2>3, <2>4 DEF JavaType
<1> QED
  BY <1>3, <1>4

(* Where one type has the name, Java finds that one or nothing.            *)
Settled(ref, pkg, in, imports) ==
  JavaType(ref, pkg, in, imports) # {} \/ (Len(ref) = 1 /\ Shared(Last(ref)))

LEMMA UnsharedIsResolved ==
  ASSUME PlainTypes, NEW imports, IsImports(imports), NEW pkg, NEW in, KnownScope(pkg, in), NEW ref \in Names \ {<<>>},
         ~ Shared(Last(ref)), Settled(ref, pkg, in, imports)
  PROVE  Resolve(ref, pkg, imports) = JavaType(ref, pkg, in, imports)
<1>1. JavaType(ref, pkg, in, imports) # {} /\ JavaType(ref, pkg, in, imports) \subseteq Namesakes(Last(ref))
  BY JavaFindsNamesakes DEF Settled
<1>2. PICK t : t \in JavaType(ref, pkg, in, imports)
  BY <1>1
<1>3. Namesakes(Last(ref)) = {t}
  BY <1>1, <1>2 DEF Shared, Namesakes
<1>4. JavaType(ref, pkg, in, imports) = {t}
  BY <1>1, <1>2, <1>3
<1>5. Resolve(ref, pkg, imports) = {t}
  BY <1>3, ResolvedToNamesakes
<1> QED
  BY <1>4, <1>5

(* A name that several types share is of types outside of types.           *)
LEMMA SharedAreOutermost ==
  ASSUME PlainTypes, NEW n, Shared(n), NEW t \in Namesakes(n)
  PROVE  Len(t.qname) = Len(t.pkg) + 1 /\ t.qname = Append(t.pkg, n)
<1>1. TypeShape(t) /\ t.name = n /\ ~ (Len(t.qname) > Len(t.pkg) + 1)
  BY DEF PlainTypes, Namesakes
<1>2. Len(t.pkg) \in Nat /\ Len(t.qname) \in Nat /\ t.pkg \in Names /\ t.qname \in Names
  BY <1>1 DEF TypeShape, Names
<1>3. Len(t.qname) = Len(t.pkg) + 1
  BY <1>1, <1>2 DEF TypeShape
<1>4. n = t.qname[Len(t.pkg) + 1] /\ n \in STRING
  <2>1. n = t.qname[Len(t.qname)]
    BY <1>1 DEF TypeShape, Last
  <2>2. t.qname[Len(t.qname)] \in STRING
    BY <1>2, <1>3 DEF Names
  <2> QED
    BY <1>3, <2>1, <2>2
<1>5. \A i \in 1 .. Len(t.pkg) : t.pkg[i] = t.qname[i]
  BY <1>1, <1>2, PrefixMeans DEF TypeShape
<1>6. /\ Append(t.pkg, n) \in Names /\ Len(Append(t.pkg, n)) = Len(t.qname)
      /\ \A i \in 1 .. Len(t.qname) : t.qname[i] = Append(t.pkg, n)[i]
  BY <1>2, <1>3, <1>4, <1>5 DEF Names
<1> QED
  BY <1>2, <1>3, <1>6, SameNames

(* Nothing is found under a type by the name of a package.                 *)
LEMMA LongerIsInside ==
  ASSUME PlainTypes, NEW o \in TypesMet, NEW t \in TypesMet, IsPrefix(o.qname, t.qname), Len(o.qname) < Len(t.qname)
  PROVE  ~ Shared(t.name)
<1>1. TypeShape(o) /\ TypeShape(t) /\ ~ IsPrefix(o.qname, t.pkg)
  BY DEF PlainTypes
<1>2. /\ Len(o.qname) \in Nat /\ Len(t.qname) \in Nat /\ Len(t.pkg) \in Nat
      /\ o.qname \in Names /\ t.qname \in Names /\ t.pkg \in Names
  BY <1>1 DEF TypeShape, Names
<1>3. \A i \in 1 .. Len(o.qname) : o.qname[i] = t.qname[i]
  BY <1>2, PrefixMeans
<1>4. \A i \in 1 .. Len(t.pkg) : t.pkg[i] = t.qname[i]
  BY <1>1, <1>2, PrefixMeans DEF TypeShape
<1>5. Len(t.pkg) < Len(o.qname)
  <2>1. Len(o.qname) <= Len(t.pkg) => \A i \in 1 .. Len(o.qname) : o.qname[i] = t.pkg[i]
    BY <1>2, <1>3, <1>4
  <2> QED
    BY <1>1, <1>2, <2>1, PrefixMeans
<1> QED
  BY <1>2, <1>5 DEF PlainTypes

(* A name that several types share, read as the resolver reads it.         *)
LEMMA SharedMates ==
  ASSUME PlainTypes, NEW n, Shared(n), NEW pkg \in Names
  PROVE  Mates(pkg, n) = TypesNamed(Append(pkg, n))
<1> DEFINE places == {i \in Types : declared[i].pkg = pkg /\ declared[i].name = n}
           named == TypesNamed(Append(pkg, n))
<1>1. n \in STRING
  <2>1. PICK t \in TypesMet : t.name = n
    BY DEF Shared
  <2>2. t.qname \in Names \ {<<>>} /\ n = Last(t.qname)
    BY <2>1 DEF PlainTypes, TypeShape
  <2> QED
    BY <2>2 DEF Names, Last
<1>2. \A i \in places : declared[i] \in named
  <2> SUFFICES ASSUME NEW i \in places PROVE declared[i] \in named
    OBVIOUS
  <2>1. declared[i] \in Namesakes(n) /\ declared[i].pkg = pkg /\ declared[i] \in TypesMet
    BY TypesAreNamed DEF Namesakes
  <2>2. declared[i].qname = Append(pkg, n)
    BY <2>1, SharedAreOutermost
  <2> QED
    BY <2>1, <2>2 DEF TypesNamed
<1>3. ASSUME NEW t \in named PROVE t.pkg = pkg /\ t.name = n /\ \E i \in Types : t = declared[i]
  <2>1. t \in TypesMet /\ t.qname = Append(pkg, n) /\ TypeShape(t)
    BY DEF TypesNamed, PlainTypes
  <2>2. t.name = n
    BY <1>1, <2>1, Appended DEF TypeShape
  <2>3. Append(t.pkg, n) = Append(pkg, n)
    BY <2>1, <2>2, SharedAreOutermost DEF Namesakes
  <2>4. t.pkg = pkg
    <3>1. n \in STRING /\ t.pkg \in Seq(STRING) /\ pkg \in Seq(STRING)
      BY <1>1, <2>1 DEF Names, TypeShape
    <3> QED
      BY <2>3, <3>1, AppendInjective
  <2> QED
    BY <2>1, <2>2, <2>4 DEF TypesMet
<1>4. CASE named = {}
  <2>1. places = {}
    BY <1>2, <1>4
  <2> QED
    BY <1>4, <2>1, LookUps DEF Mates
<1>5. CASE named # {}
  <2>1. PICK t \in named : TRUE
    BY <1>5
  <2>2. PICK i \in places : t = declared[i]
    BY <1>3
  <2>3. \A u \in named : u.qname = Append(pkg, n) /\ u \in TypesMet
    BY DEF TypesNamed
  <2>4. named = {t}
    BY <2>1, <2>3, TypesAreNamed
  <2>5. places = {i}
    <3>1. \A j \in places : declared[j].qname = declared[i].qname
      BY <1>2, <2>3
    <3> QED
      BY <2>2, <3>1 DEF PlainTypes
  <2>6. i \in Int /\ Mates(pkg, n) = OnlyIn(declared, places)
    BY TypesAreNamed DEF Mates
  <2> HIDE DEF places, named
  <2>7. OnlyIn(declared, places) = {declared[i]}
    BY <2>5, <2>6, LookUps
  <2> QED
    BY <2>2, <2>4, <2>6, <2>7 DEF named
<1> QED
  BY <1>4, <1>5

LEMMA SharedAlike ==
  ASSUME PlainTypes, NEW n, Shared(n)
  PROVE  OnlyIn(declared, {i \in Types : declared[i].name = n}) = {}
<1>1. PICK t, u \in TypesMet : t # u /\ t.name = n /\ u.name = n
  BY DEF Shared
<1>2. PICK i, j \in Types : t = declared[i] /\ u = declared[j]
  BY DEF TypesMet
<1> DEFINE places == {k \in Types : declared[k].name = n}
<1>3. i \in places /\ j \in places /\ i # j
  BY <1>1, <1>2
<1> HIDE DEF places
<1>4. OnlyIn(declared, places) = {}
  BY <1>3, LookUps
<1> QED
  BY <1>4 DEF places

(* The import of one type.                                                 *)
LEMMA SharedImport ==
  ASSUME PlainTypes, NEW n, Shared(n), NEW imports, IsImports(imports),
         NEW single, single = {i.target : i \in {i \in ToSet(imports) : ~ i.star /\ Last(i.target) = n}}
  PROVE  /\ single = {} => ImportedType(imports, n) = {}
         /\ single # {} => /\ ImportedType(imports, n) # {}
                           /\ ImportedType(imports, n) = UNION {TypesNamed(q) : q \in single}
<1> DEFINE places == {k \in DOMAIN imports : ~ imports[k].star /\ Last(imports[k].target) = n}
<1>1. single = {imports[k].target : k \in places}
  BY DEF ToSet
<1>2. Imported(imports, n) = LatestIn(imports, places)
  BY DEF Imported
<1>3. CASE single = {}
  <2>1. places = {}
    BY <1>1, <1>3
  <2> QED
    BY <1>2, <1>3, <2>1, LookUps DEF ImportedType
<1>4. CASE single # {}
  <2>1. places # {} /\ places \subseteq DOMAIN imports /\ imports \in Seq(ToSet(imports))
    BY <1>1, <1>4 DEF IsImports
  <2> HIDE DEF places
  <2>2. PICK k \in places : LatestIn(imports, places) = {imports[k]}
    BY <2>1, LatestIsThere
  <2> USE DEF places
  <2>3. \A q \in single : TypesNamed(q) # {}
    BY DEF IsImports, PlainImports
  <2>4. \A q, r \in single : q = r
    <3> SUFFICES ASSUME NEW q \in single, NEW r \in single PROVE q = r
      OBVIOUS
    <3>1. PICK i \in ToSet(imports) : ~ i.star /\ Last(i.target) = n /\ q = i.target
      OBVIOUS
    <3>2. PICK j \in ToSet(imports) : ~ j.star /\ Last(j.target) = n /\ r = j.target
      OBVIOUS
    <3>3. TypesNamed(i.target) # {} /\ TypesNamed(j.target) # {}
      BY <2>3, <3>1, <3>2
    <3> QED
      BY <3>1, <3>2, <3>3 DEF IsImports, PlainImports
  <2>5. imports[k].target \in single
    BY <1>1
  <2>6. single = {imports[k].target}
    BY <2>4, <2>5
  <2>7. ImportedType(imports, n) = ByName(imports[k].target)
    BY <1>2, <2>2 DEF ImportedType
  <2>8. ByName(imports[k].target) = TypesNamed(imports[k].target)
    BY TypesAreNamed
  <2> QED
    BY <2>3, <2>5, <2>6, <2>7, <2>8
<1> QED
  BY <1>3, <1>4

(* The imports of whole packages.                                          *)
StarTargets(imports, n) ==
  {i.target : i \in {i \in ToSet(imports) : i.star /\ TypesNamed(Append(i.target, n)) # {}}}
StarPlaces(imports, n) == {k \in DOMAIN imports : imports[k].star /\ ByName(Append(imports[k].target, n)) # {}}
OnDemand(imports, n) == UNION {ByName(Append(i.target, n)) : i \in OnlyIn(imports, StarPlaces(imports, n))}
JavaOnDemand(imports, n) == UNION {TypesNamed(Append(q, n)) : q \in StarTargets(imports, n)}

LEMMA SharedOnDemand ==
  ASSUME PlainTypes, NEW n, NEW imports, IsImports(imports)
  PROVE  IF \E q \in StarTargets(imports, n) : StarTargets(imports, n) = {q}
         THEN OnDemand(imports, n) # {} /\ OnDemand(imports, n) = JavaOnDemand(imports, n)
         ELSE OnDemand(imports, n) = {}
<1> DEFINE stars == StarTargets(imports, n)
           places == StarPlaces(imports, n)
           onDemand == OnDemand(imports, n)
<1>1. \A q : ByName(q) = TypesNamed(q)
  BY TypesAreNamed
<1>2. stars = {imports[k].target : k \in places}
  BY <1>1 DEF ToSet, StarTargets, StarPlaces
<1>3. \A k, l \in places : imports[k].target = imports[l].target => k = l
  BY DEF IsImports, PlainImports, StarPlaces
<1>4. places \subseteq Int
  BY DEF IsImports, StarPlaces
<1>5. CASE \E q \in stars : stars = {q}
  <2>1. PICK k \in places : stars = {imports[k].target}
    BY <1>2, <1>5
  <2>2. places = {k}
    <3>1. \A l \in places : imports[l].target = imports[k].target
      BY <1>2, <2>1
    <3> QED
      BY <1>3, <2>1, <3>1
  <2>3. OnlyIn(imports, places) = {imports[k]}
    BY <1>4, <2>2, LookUps
  <2>4. onDemand = TypesNamed(Append(imports[k].target, n))
    BY <1>1, <2>3 DEF OnDemand
  <2>5. TypesNamed(Append(imports[k].target, n)) # {}
    BY <1>1 DEF StarPlaces
  <2> QED
    BY <1>5, <2>1, <2>4, <2>5 DEF JavaOnDemand
<1>6. CASE ~ (\E q \in stars : stars = {q})
  <2>1. OnlyIn(imports, places) = {}
    <3>1. CASE places = {}
      BY <3>1, LookUps
    <3>2. CASE places # {}
      <4>1. PICK k \in places : TRUE
        BY <3>2
      <4>2. PICK l \in places : imports[l].target # imports[k].target
        <5> SUFFICES ASSUME \A l \in places : imports[l].target = imports[k].target PROVE FALSE
          OBVIOUS
        <5>1. imports[k].target \in stars /\ \A q \in stars : q = imports[k].target
          BY <1>2, <4>1
        <5>2. stars = {imports[k].target}
          BY <5>1
        <5> QED
          BY <1>6, <5>1, <5>2
      <4> QED
        BY <4>1, <4>2, LookUps
    <3> QED
      BY <3>1, <3>2
  <2> QED
    BY <1>6, <2>1 DEF OnDemand
<1> QED
  BY <1>5, <1>6

(* A type found inside of a type is of no name that several share.         *)
LEMMA SharedIsNotInside ==
  ASSUME PlainTypes, NEW n \in STRING, Shared(n), NEW pkg, NEW in, KnownScope(pkg, in), NEW k \in DOMAIN in
  PROVE  TypesNamed(pkg \o SubSeq(in, 1, k) \o <<n>>) = {}
<1> SUFFICES ASSUME NEW t \in TypesNamed(pkg \o SubSeq(in, 1, k) \o <<n>>) PROVE FALSE
  OBVIOUS
<1>1. PICK o \in TypesMet : o.qname = pkg \o SubSeq(in, 1, k)
  BY DEF KnownScope
<1>2. t \in TypesMet /\ t.qname = o.qname \o <<n>> /\ o.qname \in Names /\ t.qname \in Names /\ t.name = Last(t.qname)
  BY <1>1 DEF TypesNamed, PlainTypes, TypeShape
<1>3. IsPrefix(o.qname, t.qname) /\ Len(o.qname) < Len(t.qname) /\ Last(t.qname) = n
  <2> DEFINE q == o.qname
  <2> HIDE DEF q
  <2>1. q \in Names /\ <<n>> \in Names \ {<<>>} /\ Last(<<n>>) = n
    BY <1>2, OneName DEF q
  <2>2. IsPrefix(q, q \o <<n>>) /\ Len(q) < Len(q \o <<n>>) /\ Last(q \o <<n>>) = n
    BY <2>1, LongerName
  <2> QED
    BY <1>2, <2>2 DEF q
<1> QED
  BY <1>2, <1>3, LongerIsInside

LEMMA SharedSimpleIsResolved ==
  ASSUME PlainTypes, NEW imports, IsImports(imports), NEW pkg, NEW in, KnownScope(pkg, in), NEW n \in STRING, Shared(n)
  PROVE  Resolve(<<n>>, pkg, imports) = JavaSimple(n, pkg, in, imports)
<1> DEFINE depths == {k \in DOMAIN in : TypesNamed(pkg \o SubSeq(in, 1, k) \o <<n>>) # {}}
           inner == CHOOSE k \in depths : \A j \in depths : j <= k
           single == {i.target : i \in {i \in ToSet(imports) : ~ i.star /\ Last(i.target) = n}}
           one == TypesNamed(pkg \o SubSeq(in, 1, inner) \o <<n>>)
           two == UNION {TypesNamed(q) : q \in single}
           three == TypesNamed(Append(pkg, n))
           alike == OnlyIn(declared, {i \in Types : declared[i].name = n})
           imported == ImportedType(imports, n)
           onlyStar == \E q \in StarTargets(imports, n) : StarTargets(imports, n) = {q}
<1>1. JavaSimple(n, pkg, in, imports) =
        IF depths # {} THEN one ELSE IF single # {} THEN two ELSE IF three # {} THEN three
        ELSE IF onlyStar THEN JavaOnDemand(imports, n) ELSE {}
  BY DEF JavaSimple, JavaOnDemand, StarTargets
<1>2. Resolve(<<n>>, pkg, imports) =
        Either(ByName(<<n>>), Either(imported, Either(Mates(pkg, n), Either(OnDemand(imports, n), alike))))
  <2>1. Last(<<n>>) = n
    BY DEF Last
  <2> QED
    BY <2>1 DEF Resolve, OnDemand, StarPlaces
<1>3. depths = {}
  BY SharedIsNotInside
<1>4. ByName(<<n>>) = {}
  <2> SUFFICES ASSUME NEW t \in TypesNamed(<<n>>) PROVE FALSE
    BY TypesAreNamed
  <2>1. t.qname = <<n>> /\ t.pkg \in Names /\ t.pkg # <<>> /\ Len(t.pkg) < Len(t.qname)
    BY DEF TypesNamed, PlainTypes, TypeShape
  <2>2. Len(t.pkg) \in Nat /\ Len(t.pkg) # 0 /\ Len(<<n>>) = 1
    BY <2>1 DEF Names
  <2> QED
    BY <2>1, <2>2
<1>5. /\ single = {} => imported = {}
      /\ single # {} => imported # {} /\ imported = two
  BY SharedImport
<1>6. Mates(pkg, n) = three
  BY SharedMates DEF KnownScope
<1>7. IF onlyStar THEN OnDemand(imports, n) # {} /\ OnDemand(imports, n) = JavaOnDemand(imports, n)
      ELSE OnDemand(imports, n) = {}
  BY SharedOnDemand
<1>8. alike = {}
  BY SharedAlike
<1> HIDE DEF depths, inner, single, one, two, three, alike, imported, onlyStar
<1>9. Resolve(<<n>>, pkg, imports) =
        IF imported # {} THEN imported ELSE IF three # {} THEN three ELSE OnDemand(imports, n)
  BY <1>2, <1>4, <1>6, <1>8 DEF Either
<1>10. JavaSimple(n, pkg, in, imports) =
         IF single # {} THEN two ELSE IF three # {} THEN three
         ELSE IF onlyStar THEN JavaOnDemand(imports, n) ELSE {}
  BY <1>1, <1>3
<1>11. CASE single # {}
  BY <1>5, <1>9, <1>10, <1>11
<1>12. CASE single = {}
  BY <1>5, <1>7, <1>9, <1>10, <1>12
<1> QED
  BY <1>11, <1>12

LEMMA SharedIsResolved ==
  ASSUME PlainTypes, NEW imports, IsImports(imports), NEW pkg, NEW in, KnownScope(pkg, in), NEW ref \in Names \ {<<>>},
         Shared(Last(ref)), Settled(ref, pkg, in, imports)
  PROVE  Resolve(ref, pkg, imports) = JavaType(ref, pkg, in, imports)
<1>1. CASE Len(ref) = 1
  <2> DEFINE n == Last(ref)
  <2>1. n \in STRING /\ ref[1] = n /\ ref = <<n>>
    BY <1>1 DEF Names, Last
  <2> HIDE DEF n
  <2>2. JavaType(ref, pkg, in, imports) = JavaSimple(n, pkg, in, imports)
    BY <1>1, <2>1 DEF JavaType
  <2> QED
    BY <2>1, <2>2, SharedSimpleIsResolved DEF n
<1>2. CASE Len(ref) # 1
  <2>1. Tail(ref) \in Names \ {<<>>} /\ Last(Tail(ref)) = Last(ref)
    BY <1>2, LongNames
  <2>2. ASSUME NEW t \in JavaSimple(ref[1], pkg, in, imports), NEW u \in TypesNamed(t.qname \o Tail(ref)) PROVE FALSE
    <3>1. t \in TypesMet
      BY SimpleNamesakes DEF Namesakes
    <3>2. /\ u \in TypesMet /\ u.qname = t.qname \o Tail(ref) /\ u.name = Last(u.qname)
          /\ t.qname \in Names /\ u.qname \in Names
      BY <3>1 DEF TypesNamed, PlainTypes, TypeShape
    <3>3. IsPrefix(t.qname, u.qname) /\ Len(t.qname) < Len(u.qname) /\ Last(u.qname) = Last(Tail(ref))
      <4> DEFINE q == t.qname
                 r == Tail(ref)
      <4> HIDE DEF q, r
      <4>1. q \in Names /\ r \in Names \ {<<>>}
        BY <2>1, <3>2 DEF q, r
      <4>2. IsPrefix(q, q \o r) /\ Len(q) < Len(q \o r) /\ Last(q \o r) = Last(r)
        BY <4>1, LongerName
      <4> QED
        BY <3>2, <4>2 DEF q, r
    <3> QED
      BY <2>1, <3>1, <3>2, <3>3, LongerIsInside
  <2>3. UNION {TypesNamed(t.qname \o Tail(ref)) : t \in JavaSimple(ref[1], pkg, in, imports)} = {}
    BY <2>2
  <2>4. JavaType(ref, pkg, in, imports) = TypesNamed(ref) /\ TypesNamed(ref) # {}
    BY <1>2, <2>3 DEF JavaType, Settled
  <2>5. Resolve(ref, pkg, imports) = ByName(ref)
    BY <2>4, TypesAreNamed DEF Resolve, Either
  <2> QED
    BY <2>4, <2>5, TypesAreNamed
<1> QED
  BY <1>1, <1>2

(* The resolver gives what Java's scoping rules give wherever these lead   *)
(* into the repository.                                                    *)
LEMMA ResolverIsRight ==
  ASSUME PlainTypes, NEW imports, IsImports(imports), NEW pkg, NEW in, KnownScope(pkg, in), NEW ref \in Names \ {<<>>},
         Settled(ref, pkg, in, imports)
  PROVE  Resolve(ref, pkg, imports) = JavaType(ref, pkg, in, imports)
BY SharedIsResolved, UnsharedIsResolved

-----------------------------------------------------------------------------
(* What is known of the files that the first pass has read.                *)

ReadInv ==
  /\ pass \in {"collect", "scan", "store", "done"}
  /\ \A f \in DOMAIN seen : Nested(seen[f])
  /\ pass = "collect" => \A i \in todo : i \in DOMAIN JavaFiles /\ JavaFiles[i] \notin DOMAIN seen

MetInv ==
  /\ declared \in Seq(ToSet(declared))
  /\ \A f \in DOMAIN seen : \A d \in ToSet(seen[f].decls) : Entry(f, seen[f], d) \in ToSet(declared)
  /\ \A e \in ToSet(declared) : \E f \in DOMAIN seen : \E d \in ToSet(seen[f].decls) : e = Entry(f, seen[f], d)

AskedInv ==
  /\ \A f \in DOMAIN seen : PendingOf(f, seen[f]) \subseteq pending
  /\ \A p \in pending : \E f \in DOMAIN seen : p \in PendingOf(f, seen[f])

(* The scan adds relations of two kinds; all others answer what was asked. *)
ScanKinds == {"calls", "field_refs"}

RelatedInv ==
  /\ pass = "collect" => relations = {}
  /\ \A r \in relations : r = <<r[1], r[2], r[3]>>
  /\ pass # "collect" => \A from, to, relation : relation \notin ScanKinds =>
       (<<from, to, relation>> \in relations <=> \E p \in pending : p.from = from /\ p.relation = relation /\ to \in Targets(p))
  /\ pass = "done" => index.relations = relations

NamesInv == ReadInv /\ MetInv /\ AskedInv /\ RelatedInv

(* Nobody edits: the second pass sees what the first one saw.              *)
CallsOf(i) == {<<x.from, x.hit.to, x.hit.relation>> : x \in ScanHits(JavaFiles[i])}

StillInv ==
  still =>
    /\ \A f \in DOMAIN seen : f \in ToSet(JavaFiles) /\ tree[f] = seen[f] /\ tree[f] # Absent
    /\ \A i \in Listing : JavaFiles[i] \in DOMAIN seen \/ (pass = "collect" /\ i \in todo)
    /\ todo \subseteq Listing /\ (pass \in {"store", "done"} => todo = {})
    /\ pass # "collect" => \A from, to :
         <<from, to, "calls">> \in relations <=> \E i \in Listing \ todo : <<from, to, "calls">> \in CallsOf(i)

LEMMA NothingOfAbsent ==
  ASSUME NEW f
  PROVE  DeclaredIn(f, Absent) = <<>> /\ PendingOf(f, Absent) = {}
<1>1. Absent.decls = <<>> /\ DOMAIN <<>> = {}
  BY DEF Absent
<1>2. DeclaredIn(f, Absent) = <<>>
  BY <1>1 DEF DeclaredIn
<1>3. PendingOf(f, Absent) = {}
  BY <1>1 DEF PendingOf, VisitedIn
<1> QED
  BY <1>2, <1>3

LEMMA SameTargets ==
  ASSUME UNCHANGED declared
  PROVE  \A p : Targets(p)' = Targets(p)
BY DEF Targets, Resolve, ByName, ImportedType, Mates, Types

LEMMA NamesInvInit == SyntaxInit => NamesInv /\ StillInv
<1> SUFFICES ASSUME SyntaxInit PROVE NamesInv /\ StillInv
  OBVIOUS
<1>1. /\ pass = "collect" /\ todo = Listing /\ seen = <<>> /\ declared = <<>> /\ pending = {} /\ relations = {}
      /\ DOMAIN seen = {} /\ ToSet(declared) = {} /\ declared \in Seq({})
  BY DEF SyntaxInit, ToSet
<1>2. ReadInv
  BY <1>1 DEF ReadInv, Listing
<1>3. MetInv /\ AskedInv
  BY <1>1 DEF MetInv, AskedInv
<1>4. RelatedInv
  BY <1>1 DEF RelatedInv
<1>5. StillInv
  BY <1>1 DEF StillInv
<1> QED
  BY <1>2, <1>3, <1>4, <1>5 DEF NamesInv

(* A file is read: what is known of the others stays.                      *)
LEMMA CollectKeepsNames == TreeInv /\ NamesInv /\ Collect => NamesInv'
<1> SUFFICES ASSUME TreeInv, NamesInv, Collect PROVE NamesInv'
  OBVIOUS
<1>1. PICK i \in todo :
        LET f == JavaFiles[i] text == tree[f] IN
          /\ todo' = todo \ {i}
          /\ seen' = IF text # Absent THEN [g \in DOMAIN seen \cup {f} |-> IF g = f THEN text ELSE seen[g]] ELSE seen
          /\ declared' = declared \o DeclaredIn(f, text)
          /\ pending' = pending \cup PendingOf(f, text)
  BY DEF Collect, Takes
<1>2. pass = "collect" /\ UNCHANGED <<pass, relations, index>>
  BY DEF Collect
<1> DEFINE f == JavaFiles[i]
           text == tree[f]
           new == DeclaredIn(f, text)
<1>3. Nested(text) /\ i \in DOMAIN JavaFiles /\ f \notin DOMAIN seen
  BY <1>2 DEF TreeInv, ToSet, NamesInv, ReadInv
<1>4. new \in Seq(ToSet(new)) /\ ToSet(new) = {Entry(f, text, d) : d \in ToSet(text.decls)}
  BY <1>3, EntriesOfText
<1>5. /\ todo' = todo \ {i} /\ declared' = declared \o new /\ pending' = pending \cup PendingOf(f, text)
      /\ text # Absent => seen' = [g \in DOMAIN seen \cup {f} |-> IF g = f THEN text ELSE seen[g]]
      /\ text = Absent => seen' = seen
  BY <1>1
<1> HIDE DEF f, text, new
<1>6. declared' \in Seq(ToSet(declared')) /\ ToSet(declared') = ToSet(declared) \cup ToSet(new)
  BY <1>4, <1>5, JoinedDeclarations DEF NamesInv, MetInv
<1>7. CASE text = Absent
  <2>1. new = <<>> /\ PendingOf(f, text) = {} /\ ToSet(<<>>) = {}
    BY <1>7, NothingOfAbsent DEF new, ToSet
  <2>2. pending' = pending /\ ToSet(declared') = ToSet(declared) /\ seen' = seen
    BY <1>5, <1>6, <1>7, <2>1
  <2>3. ReadInv'
    BY <1>2, <1>5, <2>2 DEF NamesInv, ReadInv
  <2>4. MetInv'
    BY <1>6, <2>2 DEF NamesInv, MetInv
  <2>5. AskedInv'
    BY <2>2 DEF NamesInv, AskedInv
  <2>6. RelatedInv'
    BY <1>2 DEF NamesInv, RelatedInv
  <2> QED
    BY <2>3, <2>4, <2>5, <2>6 DEF NamesInv
<1>8. CASE text # Absent
  <2>1. DOMAIN seen' = DOMAIN seen \cup {f} /\ seen'[f] = text /\ \A g \in DOMAIN seen : seen'[g] = seen[g]
    BY <1>3, <1>5, <1>8
  <2>2. ReadInv'
    <3>1. \A j \in todo' : j \in DOMAIN JavaFiles /\ JavaFiles[j] \notin DOMAIN seen /\ JavaFiles[j] # f
      BY <1>2, <1>3, <1>5, FilesAssumption DEF NamesInv, ReadInv, f
    <3>2. \A g \in DOMAIN seen' : Nested(seen'[g])
      BY <1>3, <2>1 DEF NamesInv, ReadInv
    <3> QED
      BY <1>2, <2>1, <3>1, <3>2 DEF NamesInv, ReadInv
  <2>3. MetInv'
    <3>1. \A g \in DOMAIN seen' : \A d \in ToSet(seen'[g].decls) : Entry(g, seen'[g], d) \in ToSet(declared')
      BY <1>4, <1>6, <2>1 DEF NamesInv, MetInv
    <3>2. ASSUME NEW e \in ToSet(declared')
          PROVE  \E g \in DOMAIN seen' : \E d \in ToSet(seen'[g].decls) : e = Entry(g, seen'[g], d)
      <4>1. CASE e \in ToSet(declared)
        <5>1. PICK g \in DOMAIN seen : \E d \in ToSet(seen[g].decls) : e = Entry(g, seen[g], d)
          BY <4>1 DEF NamesInv, MetInv
        <5>2. seen'[g] = seen[g] /\ g \in DOMAIN seen'
          BY <2>1
        <5> QED
          BY <5>1, <5>2
      <4>2. CASE e \in ToSet(new)
        <5>1. f \in DOMAIN seen' /\ seen'[f] = text
          BY <2>1
        <5>2. \E d \in ToSet(text.decls) : e = Entry(f, text, d)
          BY <1>4, <4>2
        <5> QED
          BY <5>1, <5>2
      <4> QED
        BY <1>6, <4>1, <4>2
    <3> QED
      BY <1>6, <3>1, <3>2 DEF MetInv
  <2>4. AskedInv'
    BY <1>5, <2>1 DEF NamesInv, AskedInv
  <2>5. RelatedInv'
    BY <1>2 DEF NamesInv, RelatedInv
  <2> QED
    BY <2>2, <2>3, <2>4, <2>5 DEF NamesInv
<1> QED
  BY <1>7, <1>8

LEMMA RelateKeepsNames == NamesInv /\ Relate => NamesInv'
<1> SUFFICES ASSUME NamesInv, Relate PROVE NamesInv'
  OBVIOUS
<1> DEFINE related == UNION {{<<p.from, t, p.relation>> : t \in Targets(p)} : p \in pending}
<1>1. /\ pass = "collect" /\ pass' = "scan" /\ relations' = relations \cup related
      /\ UNCHANGED <<seen, declared, pending, index>>
  BY DEF Relate
<1>2. relations' = related
  BY <1>1 DEF NamesInv, RelatedInv
<1>3. \A p : Targets(p)' = Targets(p)
  BY <1>1, SameTargets
<1>4. ReadInv' /\ MetInv' /\ AskedInv'
  BY <1>1 DEF NamesInv, ReadInv, MetInv, AskedInv
<1>5. RelatedInv'
  <2>1. \A r \in related : r = <<r[1], r[2], r[3]>>
    OBVIOUS
  <2>2. \A from, to, relation : <<from, to, relation>> \in related <=>
          \E p \in pending : p.from = from /\ p.relation = relation /\ to \in Targets(p)
    OBVIOUS
  <2> HIDE DEF related
  <2> QED
    BY <1>1, <1>2, <1>3, <2>1, <2>2 DEF RelatedInv
<1> QED
  BY <1>4, <1>5 DEF NamesInv

(* The scan adds calls and uses of fields, and nothing else.               *)
LEMMA HitKinds ==
  \A own, u, d, pkg, imports : \A h \in Hits(own, u, d, pkg, imports) : h.relation \in ScanKinds
BY DEF Hits, ScanKinds

LEMMA ScanKeepsNames == NamesInv /\ Scan => NamesInv'
<1> SUFFICES ASSUME NamesInv, Scan PROVE NamesInv'
  OBVIOUS
<1>1. PICK i : relations' = relations \cup {<<x.from, x.hit.to, x.hit.relation>> : x \in ScanHits(JavaFiles[i])}
  BY DEF Scan
<1>2. pass = "scan" /\ UNCHANGED <<pass, seen, declared, pending, index>>
  BY DEF Scan
<1>3. \A x \in ScanHits(JavaFiles[i]) : x.hit.relation \in ScanKinds
  BY HitKinds DEF ScanHits
<1>4. \A p : Targets(p)' = Targets(p)
  BY <1>2, SameTargets
<1>5. ReadInv' /\ MetInv' /\ AskedInv'
  BY <1>2 DEF NamesInv, ReadInv, MetInv, AskedInv
<1>6. RelatedInv'
  <2> DEFINE new == {<<x.from, x.hit.to, x.hit.relation>> : x \in ScanHits(JavaFiles[i])}
  <2>1. \A r \in new : r = <<r[1], r[2], r[3]>>
    OBVIOUS
  <2>2. \A from, to, relation : <<from, to, relation>> \in new => relation \in ScanKinds
    BY <1>3
  <2>3. relations' = relations \cup new
    BY <1>1
  <2> HIDE DEF new
  <2>4. \A from, to, relation : relation \notin ScanKinds =>
          (<<from, to, relation>> \in relations' <=> <<from, to, relation>> \in relations)
    BY <2>2, <2>3
  <2> QED
    BY <1>2, <1>4, <2>1, <2>3, <2>4 DEF NamesInv, RelatedInv
<1> QED
  BY <1>5, <1>6 DEF NamesInv

LEMMA NamesInvNext == TreeInv /\ NamesInv /\ [SyntaxNext]_syntaxVars => NamesInv'
<1> SUFFICES ASSUME TreeInv, NamesInv, [SyntaxNext]_syntaxVars PROVE NamesInv'
  OBVIOUS
<1>1. CASE Collect
  BY <1>1, CollectKeepsNames
<1>2. CASE Relate
  BY <1>2, RelateKeepsNames
<1>3. CASE Scan
  BY <1>3, ScanKeepsNames
<1>4. ASSUME UNCHANGED <<seen, declared, pending, relations>>,
             \/ UNCHANGED <<pass, todo, index>>
             \/ pass # "collect" /\ pass' = "store"
             \/ pass # "collect" /\ pass' = "done" /\ index'.relations = relations
      PROVE  NamesInv'
  <2>1. \A p : Targets(p)' = Targets(p)
    BY <1>4, SameTargets
  <2>2. ReadInv'
    BY <1>4 DEF NamesInv, ReadInv
  <2>3. MetInv' /\ AskedInv'
    BY <1>4 DEF NamesInv, MetInv, AskedInv
  <2>4. RelatedInv'
    BY <1>4, <2>1 DEF NamesInv, RelatedInv
  <2> QED
    BY <2>2, <2>3, <2>4 DEF NamesInv
<1>5. CASE ClearRows
  <2>1. UNCHANGED <<seen, declared, pending, relations>> /\ pass # "collect" /\ pass' = "store"
    BY <1>5 DEF ClearRows, rowVars
  <2> QED
    BY <1>4, <2>1
<1>6. CASE Store
  <2>1. UNCHANGED <<seen, declared, pending, relations>> /\ pass # "collect" /\ pass' = "done" /\ index'.relations = relations
    BY <1>6 DEF Store, rowVars
  <2> QED
    BY <1>4, <2>1
<1>7. CASE Edit
  <2>1. UNCHANGED <<seen, declared, pending, relations, pass, todo, index>>
    BY <1>7 DEF Edit, rowVars
  <2> QED
    BY <1>4, <2>1
<1>8. CASE UNCHANGED syntaxVars
  <2>1. UNCHANGED <<seen, declared, pending, relations, pass, todo, index>>
    BY <1>8 DEF syntaxVars, rowVars
  <2> QED
    BY <1>4, <2>1
<1> QED
  BY <1>1, <1>2, <1>3, <1>5, <1>6, <1>7, <1>8 DEF SyntaxNext

-----------------------------------------------------------------------------
(* What is declared has the shape that the resolver relies on.             *)

LEMMA AppendToJoined ==
  ASSUME NEW a \in Names, NEW b \in Names, NEW n \in STRING
  PROVE  Append(a \o b, n) = a \o Append(b, n)
<1>1. a \in Seq(STRING) /\ b \in Seq(STRING) /\ <<n>> \in Seq(STRING) /\ a \o b \in Seq(STRING)
  BY OneName, Joined DEF Names
<1>2. Append(a \o b, n) = (a \o b) \o <<n>> /\ Append(b, n) = b \o <<n>>
  BY <1>1, AppendIsConcat
<1>3. (a \o b) \o <<n>> = a \o (b \o <<n>>)
  BY <1>1, ConcatAssociative
<1> QED
  BY <1>2, <1>3

(* All of the types around a declaration are declared in its text.         *)
LEMMA AroundIsDeclared ==
  ASSUME NEW text, Nested(text), NEW d \in ToSet(text.decls), NEW k \in DOMAIN d.in
  PROVE  \E o \in ToSet(text.decls) : o.is \in TypeKinds /\ Append(o.in, o.name) = SubSeq(d.in, 1, k)
<1> DEFINE Around1(j) == \E o \in ToSet(text.decls) : o.is \in TypeKinds /\ Append(o.in, o.name) = SubSeq(d.in, 1, j)
           bad == {j \in DOMAIN d.in : ~ Around1(j)}
<1>1. d.in \in Names /\ Len(d.in) \in Nat /\ DOMAIN d.in = 1 .. Len(d.in) /\ d.in # <<>>
  BY DEF Nested, IsDeclaration, Names
<1> SUFFICES ASSUME bad # {} PROVE FALSE
  OBVIOUS
<1>2. PICK m \in bad : \A j \in bad : j <= m
  <2> HIDE DEF bad
  <2>1. bad \subseteq 1 .. Len(d.in)
    BY <1>1 DEF bad
  <2> QED
    BY <1>1, <2>1, GreatestPlace
<1>3. m \in 1 .. Len(d.in) /\ ~ Around1(m)
  BY <1>1
<1>4. Around1(Len(d.in))
  <2>1. SubSeq(d.in, 1, Len(d.in)) = d.in
    BY <1>1, SubSeqFull DEF Names
  <2>2. \E o \in ToSet(text.decls) : o.is \in TypeKinds /\ Append(o.in, o.name) = d.in
    BY <1>1 DEF Nested
  <2> QED
    BY <2>1, <2>2
<1>5. m # Len(d.in) /\ m + 1 \in DOMAIN d.in /\ m + 1 \notin bad
  <2>1. m # Len(d.in)
    BY <1>3, <1>4
  <2>2. m + 1 \in DOMAIN d.in
    BY <1>1, <1>3, <2>1
  <2> HIDE DEF bad
  <2>3. m + 1 \notin bad
    BY <1>2, <1>3
  <2> QED
    BY <2>1, <2>2, <2>3
<1>6. PICK o \in ToSet(text.decls) : o.is \in TypeKinds /\ Append(o.in, o.name) = SubSeq(d.in, 1, m + 1)
  BY <1>5
<1>7. o.in \in Names /\ o.name \in STRING
  BY DEF Nested, IsDeclaration
<1>8. o.in = SubSeq(d.in, 1, m)
  <2> DEFINE x == SubSeq(d.in, 1, m)
             y == SubSeq(d.in, 1, m + 1)
  <2>1. /\ x \in Names /\ Len(x) = m /\ \A j \in 1 .. m : x[j] = d.in[j]
        /\ Len(y) = m + 1 /\ \A j \in 1 .. m : y[j] = d.in[j]
    <3>1. \A j \in 1 .. m + 1 : d.in[j] \in STRING
      BY <1>1, <1>5 DEF Names
    <3>2. \A j \in 1 .. m : d.in[j] \in STRING
      BY <1>3, <3>1
    <3> QED
      BY <1>3, <3>1, <3>2, SubSeqProperties DEF Names
  <2>0. Append(o.in, o.name) = y
    BY <1>6
  <2> HIDE DEF x, y
  <2>2. Len(o.in) + 1 = Len(y) /\ Len(o.in) \in Nat /\ \A j \in 1 .. Len(o.in) : y[j] = o.in[j]
    BY <1>7, <2>0, Appended
  <2>3. Len(o.in) = Len(x) /\ \A j \in 1 .. Len(o.in) : o.in[j] = x[j]
    BY <1>3, <2>1, <2>2, SMTT(30)
  <2> QED
    BY <1>7, <2>1, <2>3, SameNames DEF x
<1>9. o.in # <<>>
  <2>1. Len(o.in) = m
    <3>1. Len(Append(o.in, o.name)) = m + 1
      BY <1>3, <1>6, <1>1
    <3> QED
      BY <1>3, <1>7, <3>1, Appended
  <2> QED
    BY <1>3, <2>1
<1>10. \E q \in ToSet(text.decls) : q.is \in TypeKinds /\ Append(q.in, q.name) = o.in
  BY <1>9 DEF Nested
<1>11. Around1(m)
  BY <1>8, <1>10
<1> QED
  BY <1>3, <1>11

(* The entry of a declaration.                                             *)
LEMMA EntryOf ==
  ASSUME ReadInv, MetInv, NEW f \in DOMAIN seen, NEW d \in ToSet(seen[f].decls)
  PROVE  /\ Entry(f, seen[f], d) \in ToSet(declared) /\ IsDeclaration(d) /\ seen[f].pkg \in Names
         /\ d.is \in TypeKinds =>
              /\ Visited(seen[f], d) \/ PlainProject => Entry(f, seen[f], d) \in TypesMet
              /\ Entry(f, seen[f], d).qname = seen[f].pkg \o Append(d.in, d.name)
<1>1. Entry(f, seen[f], d) \in ToSet(declared)
  BY DEF MetInv
<1>2. Nested(seen[f])
  BY DEF ReadInv
<1>3. IsDeclaration(d) /\ seen[f].pkg \in Names /\ d.in \in Names /\ d.name \in STRING
  BY <1>2 DEF Nested, IsDeclaration
<1>4. ASSUME d.is \in TypeKinds
      PROVE  /\ Visited(seen[f], d) \/ PlainProject => Entry(f, seen[f], d) \in TypesMet
             /\ Entry(f, seen[f], d).qname = seen[f].pkg \o Append(d.in, d.name)
  <2>1. Name(d) = d.name
    BY <1>4 DEF TypeKinds, Name
  <2>2. Entry(f, seen[f], d).qname = Append(seen[f].pkg \o d.in, d.name)
    BY <2>1 DEF Entry, QName, Around
  <2>3. Entry(f, seen[f], d).decl = d /\ Entry(f, seen[f], d).visited = Visited(seen[f], d)
    BY DEF Entry
  <2>4. Visited(seen[f], d) \/ PlainProject => Entry(f, seen[f], d) \in TypesMet
    <3> DEFINE x == Entry(f, seen[f], d)
    <3> HIDE DEF x
    <3>1. PICK i \in DOMAIN declared : declared[i] = x
      BY <1>1 DEF ToSet, x
    <3>2. declared[i].decl.is \in TypeKinds /\ (Visited(seen[f], d) => declared[i].visited)
      BY <1>4, <2>3, <3>1 DEF x
    <3>3. PlainProject => declared[i].visited
      BY <3>2 DEF PlainProject
    <3>4. Visited(seen[f], d) \/ PlainProject => i \in Types
      BY <3>2, <3>3 DEF Types
    <3> QED
      BY <3>1, <3>4 DEF TypesMet, x
  <2> QED
    BY <1>3, <2>2, <2>4, AppendToJoined
<1> QED
  BY <1>1, <1>3, <1>4

LEMMA TypesHaveShape ==
  ASSUME ReadInv, MetInv, NEW t \in TypesMet
  PROVE  TypeShape(t)
<1>1. t \in ToSet(declared) /\ t.decl.is \in TypeKinds
  BY DEF TypesMet, Types, ToSet
<1>2. PICK f \in DOMAIN seen : \E d \in ToSet(seen[f].decls) : t = Entry(f, seen[f], d)
  BY <1>1 DEF MetInv
<1>3. PICK d \in ToSet(seen[f].decls) : t = Entry(f, seen[f], d)
  BY <1>2
<1>4. t.pkg = seen[f].pkg /\ t.decl = d /\ t.name = Name(d) /\ t.qname = Append(seen[f].pkg \o d.in, Name(d))
  BY <1>3 DEF Entry, QName, Around
<1>5. Name(d) = d.name
  BY <1>1, <1>4 DEF Name, TypeKinds
<1>6. seen[f].pkg \in Names /\ d.in \in Names /\ d.name \in STRING
  BY EntryOf DEF IsDeclaration
<1>7. t.qname = seen[f].pkg \o Append(d.in, d.name)
  BY <1>4, <1>5, <1>6, AppendToJoined, ZenonT(30)
<1>8. Append(d.in, d.name) \in Names \ {<<>>} /\ Last(Append(d.in, d.name)) = d.name
  BY <1>6, Appended
<1>9. /\ IsPrefix(t.pkg, t.qname) /\ Len(t.pkg) < Len(t.qname) /\ Last(t.qname) = d.name
      /\ t.qname \in Names \ {<<>>}
  <2> DEFINE a == seen[f].pkg
             b == Append(d.in, d.name)
  <2>1. a \in Names /\ b \in Names \ {<<>>} /\ t.pkg = a /\ t.qname = a \o b /\ Last(b) = d.name
    BY <1>4, <1>6, <1>7, <1>8
  <2> HIDE DEF a, b
  <2>2. IsPrefix(a, a \o b) /\ Len(a) < Len(a \o b) /\ Last(a \o b) = d.name /\ a \o b \in Names \ {<<>>}
    BY <2>1, LongerName, Joined
  <2> QED
    BY <2>1, <2>2
<1> QED
  BY <1>4, <1>5, <1>6, <1>9 DEF TypeShape

LEMMA PlainTypesMet ==
  ASSUME NamesInv, PlainProject
  PROVE  PlainTypes /\ \A f \in DOMAIN seen : IsImports(seen[f].imports)
<1>1. PlainTypes
  BY TypesHaveShape DEF NamesInv, MetInv, PlainProject, PlainTypes
<1>2. \A f \in DOMAIN seen : IsImports(seen[f].imports)
  BY DEF NamesInv, ReadInv, Nested, PlainProject, IsImports
<1> QED
  BY <1>1, <1>2

(* The names around a declaration, and its own if it is a type, are types. *)
LEMMA ScopesAreKnown ==
  ASSUME ReadInv, MetInv, PlainProject, NEW f \in DOMAIN seen, NEW d \in ToSet(seen[f].decls)
  PROVE  KnownScope(seen[f].pkg, d.in) /\ KnownScope(seen[f].pkg, Scope(d))
<1> DEFINE text == seen[f]
<1>1. Nested(text) /\ text.pkg \in Names /\ IsDeclaration(d) /\ d.in \in Names /\ d.name \in STRING
  BY EntryOf DEF ReadInv, IsDeclaration
<1>2. ASSUME NEW k \in DOMAIN d.in PROVE \E o \in TypesMet : o.qname = text.pkg \o SubSeq(d.in, 1, k)
  <2>1. PICK o \in ToSet(text.decls) : o.is \in TypeKinds /\ Append(o.in, o.name) = SubSeq(d.in, 1, k)
    BY <1>1, AroundIsDeclared
  <2> QED
    BY <2>1, EntryOf
<1>3. KnownScope(text.pkg, d.in)
  BY <1>1, <1>2 DEF KnownScope
<1>4. CASE d.is \in TypeKinds
  <2> DEFINE s == Append(d.in, d.name)
  <2>1. Scope(d) = s
    BY <1>4 DEF Scope
  <2>2. s \in Names /\ Len(s) = Len(d.in) + 1 /\ Len(d.in) \in Nat /\ \A i \in 1 .. Len(d.in) : s[i] = d.in[i]
    BY <1>1, Appended
  <2> HIDE DEF s
  <2>3. ASSUME NEW k \in DOMAIN s PROVE \E o \in TypesMet : o.qname = text.pkg \o SubSeq(s, 1, k)
    <3>1. k \in 1 .. Len(d.in) + 1
      BY <2>2 DEF Names
    <3>2. CASE k = Len(d.in) + 1
      <4>1. SubSeq(s, 1, k) = s
        BY <2>2, <3>2, SubSeqFull DEF Names
      <4> QED
        BY <1>4, <4>1, EntryOf DEF s
    <3>3. CASE k # Len(d.in) + 1
      <4>1. k \in 1 .. Len(d.in) /\ k \in DOMAIN d.in
        BY <1>1, <2>2, <3>1, <3>3 DEF Names
      <4>2. \A i \in 1 .. k : s[i] = d.in[i] /\ s[i] \in STRING /\ d.in[i] \in STRING
        BY <1>1, <2>2, <4>1 DEF Names
      <4>3. /\ SubSeq(s, 1, k) \in Names /\ Len(SubSeq(s, 1, k)) = k
            /\ \A i \in 1 .. k : SubSeq(s, 1, k)[i] = s[i]
        BY <4>1, <4>2, SubSeqProperties DEF Names
      <4>4. /\ SubSeq(d.in, 1, k) \in Names /\ Len(SubSeq(d.in, 1, k)) = k
            /\ \A i \in 1 .. k : SubSeq(d.in, 1, k)[i] = d.in[i]
        BY <4>1, <4>2, SubSeqProperties DEF Names
      <4>5. SubSeq(s, 1, k) = SubSeq(d.in, 1, k)
        BY <4>2, <4>3, <4>4, SameNames
      <4> QED
        BY <1>2, <4>1, <4>5
    <3> QED
      BY <3>2, <3>3
  <2> QED
    BY <1>1, <1>3, <2>1, <2>2, <2>3 DEF KnownScope
<1>5. CASE d.is \notin TypeKinds
  BY <1>3, <1>5 DEF Scope
<1> QED
  BY <1>3, <1>4, <1>5

-----------------------------------------------------------------------------
(* What a symbol's name says of its declaration.                           *)
LEMMA SameSymbol ==
  ASSUME NEW f, NEW text, NEW d, NEW g, NEW other, NEW e, SymbolId(f, text, d) = SymbolId(g, other, e)
  PROVE  /\ f = g /\ QName(text, d) = QName(other, e)
         /\ d.is \in TypeKinds => e.is = d.is
         /\ d.is \in Callable => e.is = d.is /\ e.arity = d.arity
         /\ d.is \notin TypeKinds \cup Callable => e.is \notin TypeKinds \cup Callable
<1> DEFINE a == SymbolId(f, text, d)
           b == SymbolId(g, other, e)
           Kind(x) == IF x.is \in TypeKinds THEN "type" ELSE IF x.is \in Callable THEN x.is ELSE "field"
<1>1. a[1] = Kind(d) /\ a[2] = f /\ a[3] = QName(text, d)
      /\ (d.is \in TypeKinds => a[4] = d.is) /\ (d.is \notin TypeKinds /\ d.is \in Callable => a[4] = d.arity)
  BY DEF SymbolId
<1>2. b[1] = Kind(e) /\ b[2] = g /\ b[3] = QName(other, e)
      /\ (e.is \in TypeKinds => b[4] = e.is) /\ (e.is \notin TypeKinds /\ e.is \in Callable => b[4] = e.arity)
  BY DEF SymbolId
<1>3. a = b
  OBVIOUS
<1> HIDE DEF a, b
<1>4. f = g /\ QName(text, d) = QName(other, e) /\ Kind(d) = Kind(e)
  BY <1>1, <1>2, <1>3
<1>5. d.is \in TypeKinds => e.is \in TypeKinds /\ e.is = d.is
  BY <1>1, <1>2, <1>3, <1>4 DEF TypeKinds, Callable
<1>6. d.is \in Callable => d.is \notin TypeKinds /\ e.is = d.is /\ e.arity = d.arity
  BY <1>1, <1>2, <1>3, <1>4 DEF TypeKinds, Callable
<1>7. d.is \notin TypeKinds \cup Callable => e.is \notin TypeKinds \cup Callable
  BY <1>4 DEF TypeKinds, Callable
<1> QED
  BY <1>4, <1>5, <1>6, <1>7

(* What the clauses of a declaration may say.                              *)
ToTypes == {"extends", "implements", "field_type"}

LEMMA ClausesSay ==
  ASSUME NEW d, IsDeclaration(d), NEW n \in DOMAIN Clauses(d)
  PROVE  /\ Clauses(d)[n].relation \in ToTypes \cup {"annotated_with"}
         /\ Clauses(d)[n].relation \in ToTypes =>
              d.is \notin Callable /\ ToSet(Clauses(d)[n].refs) \subseteq Names \ {<<>>}
<1> DEFINE first == IF d.is \in TypeKinds THEN d.clauses
                    ELSE IF d.is = "field" THEN <<[relation |-> "field_type", refs |-> <<d.type>>]>> ELSE <<>>
           notes == [k \in DOMAIN d.notes |-> [relation |-> "annotated_with", refs |-> <<d.notes[k]>>]]
           Says(c) == /\ c.relation \in ToTypes \cup {"annotated_with"}
                      /\ c.relation \in ToTypes => d.is \notin Callable /\ ToSet(c.refs) \subseteq Names \ {<<>>}
<1>1. first \in Seq(ToSet(first)) /\ \A c \in ToSet(first) : Says(c)
  <2>1. CASE d.is \in TypeKinds
    <3>1. d.is \notin Callable
      BY <2>1 DEF TypeKinds, Callable
    <3> QED
      BY <2>1, <3>1 DEF IsDeclaration, ToTypes
  <2>2. CASE d.is = "field"
    <3> DEFINE c == [relation |-> "field_type", refs |-> <<d.type>>]
    <3>1. first = <<c>> /\ d.is \notin Callable /\ d.type \in Names \ {<<>>}
      BY <2>2 DEF TypeKinds, Callable, Variables, IsDeclaration
    <3>2. ToSet(<<d.type>>) = {d.type}
      BY DEF ToSet
    <3>3. Says(c)
      BY <3>1, <3>2 DEF ToTypes
    <3> HIDE DEF c
    <3>4. <<c>> \in Seq(ToSet(<<c>>)) /\ ToSet(<<c>>) = {c}
      BY DEF ToSet
    <3> HIDE DEF first
    <3> QED
      BY <3>1, <3>3, <3>4
  <2>3. CASE d.is \notin TypeKinds /\ d.is # "field"
    <3>1. first = <<>> /\ ToSet(<<>>) = {}
      BY <2>3 DEF ToSet
    <3> HIDE DEF first
    <3> QED
      BY <3>1
  <2> QED
    BY <2>1, <2>2, <2>3
<1>2. notes \in Seq(ToSet(notes)) /\ \A c \in ToSet(notes) : Says(c)
  <2>1. PICK m \in Nat : DOMAIN d.notes = 1 .. m
    BY DEF IsDeclaration
  <2>2. DOMAIN notes = 1 .. m /\ \A k \in 1 .. m : notes[k].relation = "annotated_with"
    BY <2>1
  <2>3. notes = [k \in 1 .. m |-> notes[k]]
    BY <2>1
  <2> HIDE DEF notes
  <2>4. \A c \in ToSet(notes) : c.relation = "annotated_with"
    BY <2>2 DEF ToSet
  <2>5. \A k \in 1 .. m : notes[k] \in ToSet(notes)
    BY <2>2 DEF ToSet
  <2>6. notes \in Seq(ToSet(notes))
    BY <2>3, <2>5
  <2> QED
    BY <2>4, <2>6 DEF ToTypes
<1>3. Clauses(d) = first \o notes
  BY DEF Clauses
<1> HIDE DEF first, notes, Says
<1>4. ToSet(first \o notes) = ToSet(first) \cup ToSet(notes)
  BY <1>1, <1>2, JoinedDeclarations
<1>5. Clauses(d)[n] \in ToSet(Clauses(d))
  BY DEF ToSet
<1>6. Says(Clauses(d)[n])
  BY <1>1, <1>2, <1>3, <1>4, <1>5
<1> QED
  BY <1>6 DEF Says

(* What is asked for a declaration.                                        *)
Question(f, text, d, relation, ref, at) ==
  [from |-> SymbolId(f, text, d), relation |-> relation, ref |-> ref, file |-> f,
   pkg |-> text.pkg, imports |-> text.imports, at |-> at]

Stated(d, relation) ==
  UNION {ToSet(Clauses(d)[n].refs) : n \in {n \in DOMAIN Clauses(d) : Clauses(d)[n].relation = relation}}

LEMMA PendingIs ==
  ASSUME NEW f, NEW text
  PROVE  \A p : p \in PendingOf(f, text) <=>
           \/ \E k \in VisitedIn(text) : /\ text.decls[k].in # <<>>
                                        /\ p = Question(f, text, text.decls[k], "belongs_to", Around(text, text.decls[k]), <<>>)
           \/ \E k \in VisitedIn(text) : \E n \in DOMAIN Clauses(text.decls[k]) :
                \E ref \in ToSet(Clauses(text.decls[k])[n].refs) :
                  p = Question(f, text, text.decls[k], Clauses(text.decls[k])[n].relation, ref, <<k, "clause", n, 0>>)
BY DEF PendingOf, Question

LEMMA OwnersAreAsked ==
  ASSUME NEW f, NEW text, NEW d \in ToSet(text.decls), Visited(text, d), d.in # <<>>
  PROVE  \E p \in PendingOf(f, text) : p.from = SymbolId(f, text, d) /\ p.relation = "belongs_to"
<1> DEFINE p == Question(f, text, d, "belongs_to", Around(text, d), <<>>)
<1>0. \E k \in VisitedIn(text) : text.decls[k] = d
  BY DEF ToSet, VisitedIn
<1>1. p \in PendingOf(f, text)
  BY <1>0, PendingIs
<1>2. p.from = SymbolId(f, text, d) /\ p.relation = "belongs_to"
  BY DEF Question
<1> QED
  BY <1>1, <1>2

LEMMA ClausesAreAsked ==
  ASSUME NEW f, NEW text, NEW d \in ToSet(text.decls), Visited(text, d), NEW relation, NEW ref \in Stated(d, relation)
  PROVE  \E p \in PendingOf(f, text) : p.from = SymbolId(f, text, d) /\ p.relation = relation /\ p.ref = ref
<1>1. PICK k \in VisitedIn(text) : text.decls[k] = d
  BY DEF ToSet, VisitedIn
<1>2. PICK n \in DOMAIN Clauses(d) : Clauses(d)[n].relation = relation /\ ref \in ToSet(Clauses(d)[n].refs)
  BY DEF Stated
<1> DEFINE p == Question(f, text, d, relation, ref, <<k, "clause", n, 0>>)
<1>3. p \in PendingOf(f, text)
  BY <1>1, <1>2, PendingIs
<1>4. p.from = SymbolId(f, text, d) /\ p.relation = relation /\ p.ref = ref
  BY DEF Question
<1> QED
  BY <1>3, <1>4

LEMMA AnswersAskedFor ==
  ASSUME NEW f, NEW text, Nested(text), NEW p \in PendingOf(f, text)
  PROVE  \E d \in ToSet(text.decls) :
           /\ p.from = SymbolId(f, text, d) /\ p.pkg = text.pkg /\ p.imports = text.imports /\ Visited(text, d)
           /\ p.relation \in ToTypes \cup {"belongs_to", "annotated_with"}
           /\ p.relation = "belongs_to" => p.ref = Around(text, d)
           /\ p.relation \in ToTypes => d.is \notin Callable /\ p.ref \in Stated(d, p.relation)
<1>1. CASE \E k \in VisitedIn(text) : p = Question(f, text, text.decls[k], "belongs_to", Around(text, text.decls[k]), <<>>)
  BY <1>1 DEF Question, ToTypes, VisitedIn, ToSet
<1>2. ASSUME NEW k \in VisitedIn(text), NEW n \in DOMAIN Clauses(text.decls[k]),
             NEW ref \in ToSet(Clauses(text.decls[k])[n].refs),
             p = Question(f, text, text.decls[k], Clauses(text.decls[k])[n].relation, ref, <<k, "clause", n, 0>>)
      PROVE  \E d \in ToSet(text.decls) :
           /\ p.from = SymbolId(f, text, d) /\ p.pkg = text.pkg /\ p.imports = text.imports /\ Visited(text, d)
           /\ p.relation \in ToTypes \cup {"belongs_to", "annotated_with"}
           /\ p.relation = "belongs_to" => p.ref = Around(text, d)
           /\ p.relation \in ToTypes => d.is \notin Callable /\ p.ref \in Stated(d, p.relation)
  <2> DEFINE d == text.decls[k]
             c == Clauses(d)[n]
  <2>1. d \in ToSet(text.decls) /\ IsDeclaration(d) /\ Visited(text, d)
    BY DEF ToSet, Nested, VisitedIn
  <2>2. /\ p.from = SymbolId(f, text, d) /\ p.pkg = text.pkg /\ p.imports = text.imports
        /\ p.relation = c.relation /\ p.ref = ref
    BY <1>2 DEF Question
  <2>3. c.relation \in ToTypes \cup {"annotated_with"} /\ (c.relation \in ToTypes => d.is \notin Callable)
    BY <2>1, ClausesSay
  <2>4. ref \in Stated(d, c.relation)
    BY DEF Stated
  <2> HIDE DEF d, c
  <2> QED
    BY <2>1, <2>2, <2>3, <2>4 DEF ToTypes
<1> QED
  BY <1>1, <1>2, PendingIs

-----------------------------------------------------------------------------
(* The names of types and fields tell the declarations of a text apart.    *)
LEMMA OneDeclaration ==
  ASSUME NamesInv, PlainProject, NEW f \in DOMAIN seen, NEW d \in ToSet(seen[f].decls), NEW e \in ToSet(seen[f].decls),
         Visited(seen[f], d), Visited(seen[f], e), d.is \notin Callable, SymbolId(f, seen[f], d) = SymbolId(f, seen[f], e)
  PROVE  d = e
<1> DEFINE x == Entry(f, seen[f], d)
           y == Entry(f, seen[f], e)
<1>1. x \in ToSet(declared) /\ y \in ToSet(declared) /\ IsDeclaration(d) /\ IsDeclaration(e)
  BY EntryOf DEF NamesInv
<1>2. x.decl = d /\ y.decl = e /\ x.qname = QName(seen[f], d) /\ y.qname = QName(seen[f], e) /\ x.visited /\ y.visited
  BY DEF Entry
<1>3. /\ QName(seen[f], d) = QName(seen[f], e)
      /\ d.is \in TypeKinds => e.is \in TypeKinds
      /\ d.is \notin TypeKinds => d.is = "field" /\ e.is = "field"
  <2>1. /\ QName(seen[f], d) = QName(seen[f], e)
        /\ d.is \in TypeKinds => e.is = d.is
        /\ d.is \notin TypeKinds \cup Callable => e.is \notin TypeKinds \cup Callable
    BY SameSymbol
  <2> QED
    BY <2>1 DEF Visited
<1> HIDE DEF x, y
<1>4. PICK i \in DOMAIN declared : declared[i] = x
  BY <1>1 DEF ToSet
<1>5. PICK j \in DOMAIN declared : declared[j] = y
  BY <1>1 DEF ToSet
<1>6. declared[i].qname = declared[j].qname
  BY <1>2, <1>3, <1>4, <1>5
<1>7. i = j
  <2>1. CASE d.is \in TypeKinds
    <3>1. i \in Types /\ j \in Types
      BY <1>2, <1>3, <1>4, <1>5, <2>1 DEF Types
    <3> QED
      BY <1>6, <3>1 DEF PlainProject
  <2>2. CASE d.is \notin TypeKinds
    <3>1. i \in Fields /\ j \in Fields
      BY <1>2, <1>3, <1>4, <1>5, <2>2 DEF Fields
    <3> QED
      BY <1>6, <3>1 DEF PlainProject
  <2> QED
    BY <2>1, <2>2
<1> QED
  BY <1>2, <1>4, <1>5, <1>7

(* The ends of the relations of a kind that leave a symbol.                *)
Ends(from, relation) == {r[2] : r \in {r \in index.relations : r[1] = from /\ r[3] = relation}}

AskedAs(from, relation) == {p \in pending : p.from = from /\ p.relation = relation}

LEMMA EndsAreTargets ==
  ASSUME RelatedInv, pass = "done", NEW from, NEW relation, relation \notin ScanKinds
  PROVE  Ends(from, relation) = UNION {Targets(p) : p \in AskedAs(from, relation)}
<1>1. index.relations = relations /\ \A r \in relations : r = <<r[1], r[2], r[3]>>
  BY DEF RelatedInv
<1>2. \A to : <<from, to, relation>> \in relations <=>
                \E p \in pending : p.from = from /\ p.relation = relation /\ to \in Targets(p)
  BY DEF RelatedInv
<1>3. \A to : to \in Ends(from, relation) <=> <<from, to, relation>> \in relations
  BY <1>1 DEF Ends
<1> QED
  BY <1>2, <1>3 DEF AskedAs

LEMMA TargetsOfTypes ==
  ASSUME NEW p, p.relation # "annotated_with"
  PROVE  Targets(p) = {t.id : t \in Resolve(p.ref, p.pkg, p.imports)}
BY DEF Targets

LEMMA NamesAreStrings ==
  ASSUME NEW text, Nested(text), NEW d \in ToSet(text.decls)
  PROVE  Name(d) \in STRING
<1>1. IsDeclaration(d) /\ d.in \in Names /\ d.name \in STRING
  BY DEF Nested, IsDeclaration
<1>2. CASE d.is = "constructor"
  <2>1. d.in # <<>>
    BY <1>1, <1>2 DEF IsDeclaration, TypeKinds
  <2>2. Len(d.in) \in 1 .. Len(d.in)
    BY <1>1, <2>1 DEF Names
  <2> QED
    BY <1>1, <1>2, <2>2 DEF Name, Last, Names
<1> QED
  BY <1>1, <1>2 DEF Name

LEMMA SameOwner ==
  ASSUME NEW text, Nested(text), NEW d \in ToSet(text.decls), NEW other, Nested(other), NEW e \in ToSet(other.decls),
         QName(text, d) = QName(other, e)
  PROVE  Around(text, d) = Around(other, e) /\ Name(d) = Name(e)
<1> DEFINE a == Around(text, d)
           b == Around(other, e)
           m == Name(d)
           n == Name(e)
<1>1. a \in Names /\ b \in Names
  <2>1. d.in \in Names /\ e.in \in Names /\ text.pkg \in Names /\ other.pkg \in Names
    BY DEF Nested, IsDeclaration
  <2> QED
    BY <2>1, Joined DEF Around
<1>2. Append(a, m) = Append(b, n)
  BY DEF QName
<1>3. m \in STRING /\ n \in STRING
  BY NamesAreStrings
<1> HIDE DEF a, b, m, n
<1>4. Len(a) + 1 = Len(b) + 1 /\ Len(a) \in Nat /\ Len(b) \in Nat
  BY <1>1, <1>2, <1>3, Appended
<1>5. Len(a) = Len(b) /\ \A i \in 1 .. Len(a) : a[i] = b[i]
  <2>1. Len(a) = Len(b)
    BY <1>4
  <2>2. \A i \in 1 .. Len(a) : Append(a, m)[i] = a[i]
    BY <1>1, <1>3, Appended
  <2>3. \A i \in 1 .. Len(b) : Append(b, n)[i] = b[i]
    BY <1>1, <1>3, Appended
  <2> QED
    BY <1>2, <2>1, <2>2, <2>3
<1>6. a = b
  BY <1>1, <1>5, SameNames
<1>7. m = n
  <2>1. Last(Append(a, m)) = m /\ Last(Append(b, n)) = n
    BY <1>1, <1>3, Appended
  <2> QED
    BY <1>2, <2>1
<1> QED
  BY <1>6, <1>7 DEF a, b, m, n

(* Who asks in the name of a declaration asks for that declaration.        *)
LEMMA AskedAsIs ==
  ASSUME NamesInv, PlainProject, NEW f \in DOMAIN seen, NEW d \in ToSet(seen[f].decls), Visited(seen[f], d)
  PROVE  /\ \A p \in AskedAs(SymbolId(f, seen[f], d), "belongs_to") :
              p.ref = Around(seen[f], d) /\ p.relation = "belongs_to"
         /\ \A relation \in ToTypes : \A p \in AskedAs(SymbolId(f, seen[f], d), relation) :
              /\ p.ref \in Stated(d, relation) /\ p.relation = relation
              /\ p.pkg = seen[f].pkg /\ p.imports = seen[f].imports
<1> SUFFICES ASSUME NEW p \in pending, p.from = SymbolId(f, seen[f], d)
             PROVE  /\ p.relation = "belongs_to" => p.ref = Around(seen[f], d)
                    /\ p.relation \in ToTypes =>
                         p.ref \in Stated(d, p.relation) /\ p.pkg = seen[f].pkg /\ p.imports = seen[f].imports
  BY DEF AskedAs
<1>1. PICK g \in DOMAIN seen : p \in PendingOf(g, seen[g])
  BY DEF NamesInv, AskedInv
<1>2. Nested(seen[g]) /\ Nested(seen[f])
  BY DEF NamesInv, ReadInv
<1>3. PICK e \in ToSet(seen[g].decls) :
           /\ p.from = SymbolId(g, seen[g], e) /\ p.pkg = seen[g].pkg /\ p.imports = seen[g].imports /\ Visited(seen[g], e)
           /\ p.relation \in ToTypes \cup {"belongs_to", "annotated_with"}
           /\ p.relation = "belongs_to" => p.ref = Around(seen[g], e)
           /\ p.relation \in ToTypes => e.is \notin Callable /\ p.ref \in Stated(e, p.relation)
  <2> HIDE DEF PendingOf
  <2> QED
    BY <1>1, <1>2, AnswersAskedFor
<1>4. f = g /\ QName(seen[f], d) = QName(seen[g], e)
  <2>1. SymbolId(f, seen[f], d) = SymbolId(g, seen[g], e)
    BY <1>3
  <2> QED
    BY <2>1, SameSymbol
<1>5. ASSUME p.relation = "belongs_to" PROVE p.ref = Around(seen[f], d)
  <2>1. Around(seen[f], d) = Around(seen[g], e)
    BY <1>2, <1>4, SameOwner
  <2> QED
    BY <1>3, <1>5, <2>1
<1>6. ASSUME p.relation \in ToTypes
      PROVE  p.ref \in Stated(d, p.relation) /\ p.pkg = seen[f].pkg /\ p.imports = seen[f].imports
  <2>1. e = d
    BY <1>3, <1>4, <1>6, OneDeclaration
  <2> QED
    BY <1>3, <1>4, <1>6, <2>1
<1> QED
  BY <1>5, <1>6

LEMMA OwnersAreMeant ==
  ASSUME NamesInv, PlainProject, pass = "done", NEW f \in DOMAIN seen, NEW d \in ToSet(seen[f].decls),
         Visited(seen[f], d), d.in # <<>>
  PROVE  Ends(SymbolId(f, seen[f], d), "belongs_to") = {Enclosing(f, seen[f], d)}
<1> DEFINE text == seen[f]
           asked == AskedAs(SymbolId(f, text, d), "belongs_to")
           o == OwnerOf(text, d)
<1>1. Nested(text)
  BY DEF NamesInv, ReadInv
<1>2. o \in ToSet(text.decls) /\ o.is \in TypeKinds /\ Append(o.in, o.name) = d.in
  <2>1. \E x \in ToSet(text.decls) : x.is \in TypeKinds /\ Append(x.in, x.name) = d.in
    BY <1>1 DEF Nested
  <2>2. o = CHOOSE x \in ToSet(text.decls) : x.is \in TypeKinds /\ Append(x.in, x.name) = d.in
    BY DEF OwnerOf
  <2> HIDE DEF o
  <2> QED
    BY <2>1, <2>2
<1>3. Entry(f, text, o) \in TypesMet /\ Entry(f, text, o).qname = Around(text, d) /\ Entry(f, text, o).id = SymbolId(f, text, o)
  BY <1>2, EntryOf DEF NamesInv, Around, Entry
<1>4. ByName(Around(text, d)) = {Entry(f, text, o)}
  BY <1>3, PlainTypesMet, TypesAreNamed DEF TypesNamed
<1>5. asked # {}
  <2>1. \E p \in PendingOf(f, text) : p.from = SymbolId(f, text, d) /\ p.relation = "belongs_to"
    BY OwnersAreAsked
  <2> QED
    BY <2>1 DEF AskedAs, NamesInv, AskedInv
<1>6. \A p \in asked : Targets(p) = {SymbolId(f, text, o)}
  <2> TAKE p \in asked
  <2>1. p.ref = Around(text, d) /\ p.relation = "belongs_to"
    BY AskedAsIs
  <2>2. Resolve(p.ref, p.pkg, p.imports) = {Entry(f, text, o)}
    BY <1>4, <2>1 DEF Resolve, Either
  <2> QED
    BY <1>3, <2>1, <2>2, TargetsOfTypes
<1>7. Ends(SymbolId(f, text, d), "belongs_to") = UNION {Targets(p) : p \in asked}
  BY EndsAreTargets DEF NamesInv, ScanKinds
<1>8. Enclosing(f, text, d) = SymbolId(f, text, o)
  BY DEF Enclosing
<1> HIDE DEF asked, o, text
<1>9. Ends(SymbolId(f, text, d), "belongs_to") = {Enclosing(f, text, d)}
  BY <1>5, <1>6, <1>7, <1>8
<1> QED
  BY <1>9 DEF text

LEMMA ClausesAreMeant ==
  ASSUME NamesInv, PlainProject, pass = "done", NEW f \in DOMAIN seen, NEW d \in ToSet(seen[f].decls),
         Visited(seen[f], d), NEW relation \in ToTypes,
         \A ref \in Stated(d, relation) : Settled(ref, seen[f].pkg, Scope(d), seen[f].imports)
  PROVE  Ends(SymbolId(f, seen[f], d), relation) =
           UNION {{t.id : t \in JavaType(ref, seen[f].pkg, Scope(d), seen[f].imports)} : ref \in Stated(d, relation)}
<1> DEFINE text == seen[f]
           asked == AskedAs(SymbolId(f, text, d), relation)
           Meant(ref) == {t.id : t \in JavaType(ref, text.pkg, Scope(d), text.imports)}
<1>1. Nested(text) /\ IsDeclaration(d)
  BY DEF NamesInv, ReadInv, Nested
<1>2. \A ref \in Stated(d, relation) : ref \in Names \ {<<>>}
  BY <1>1, ClausesSay DEF Stated
<1>3. PlainTypes /\ IsImports(text.imports) /\ KnownScope(text.pkg, Scope(d))
  BY PlainTypesMet, ScopesAreKnown DEF NamesInv
<1>4. \A ref \in Stated(d, relation) :
        Resolve(ref, text.pkg, text.imports) = JavaType(ref, text.pkg, Scope(d), text.imports)
  BY <1>2, <1>3, ResolverIsRight
<1>5. \A p \in asked : p.ref \in Stated(d, relation) /\ Targets(p) = Meant(p.ref)
  <2> TAKE p \in asked
  <2>1. /\ p.ref \in Stated(d, relation) /\ p.relation = relation
        /\ p.pkg = text.pkg /\ p.imports = text.imports
    BY AskedAsIs
  <2>2. Targets(p) = {t.id : t \in Resolve(p.ref, p.pkg, p.imports)}
    BY <2>1, TargetsOfTypes DEF ToTypes
  <2> QED
    BY <1>4, <2>1, <2>2
<1>6. \A ref \in Stated(d, relation) : \E p \in asked : p.ref = ref
  <2>1. \A ref \in Stated(d, relation) : \E p \in PendingOf(f, text) :
          p.from = SymbolId(f, text, d) /\ p.relation = relation /\ p.ref = ref
    BY ClausesAreAsked
  <2>2. PendingOf(f, text) \subseteq pending
    BY DEF NamesInv, AskedInv
  <2> QED
    BY <2>1, <2>2 DEF AskedAs
<1>7. Ends(SymbolId(f, text, d), relation) = UNION {Targets(p) : p \in asked}
  BY EndsAreTargets DEF NamesInv, ScanKinds, ToTypes
<1> HIDE DEF asked, Meant
<1>8. Ends(SymbolId(f, text, d), relation) = UNION {Meant(ref) : ref \in Stated(d, relation)}
  BY <1>5, <1>6, <1>7
<1> QED
  BY <1>8 DEF Meant

LEMMA NamesMean == NamesInv => NamesMeanWhatJavaSays
<1> SUFFICES ASSUME NamesInv, pass = "done", PlainProject,
                    NEW f \in DOMAIN seen, NEW d \in ToSet(seen[f].decls), Visited(seen[f], d)
             PROVE  LET text == seen[f]
                        from == SymbolId(f, text, d)
                        ends(relation) == {r[2] : r \in {r \in index.relations : r[1] = from /\ r[3] = relation}}
                        meant(ref) == {t.id : t \in JavaType(ref, text.pkg, Scope(d), text.imports)}
                        stated(relation) ==
                          UNION {ToSet(Clauses(d)[n].refs) : n \in {n \in DOMAIN Clauses(d) : Clauses(d)[n].relation = relation}}
                        settled(ref) == meant(ref) # {} \/ (Len(ref) = 1 /\ Shared(Last(ref)))
                    IN /\ d.in # <<>> => ends("belongs_to") = {Enclosing(f, text, d)}
                       /\ \A relation \in {"extends", "implements", "field_type"} :
                            (\A ref \in stated(relation) : settled(ref))
                              => ends(relation) = UNION {meant(ref) : ref \in stated(relation)}
  BY DEF NamesMeanWhatJavaSays
<1> DEFINE text == seen[f]
           meant(ref) == {t.id : t \in JavaType(ref, text.pkg, Scope(d), text.imports)}
           settled(ref) == meant(ref) # {} \/ (Len(ref) = 1 /\ Shared(Last(ref)))
<1>1. d.in # <<>> => Ends(SymbolId(f, text, d), "belongs_to") = {Enclosing(f, text, d)}
  BY OwnersAreMeant
<1>2. ASSUME NEW relation \in ToTypes, \A ref \in Stated(d, relation) : settled(ref)
      PROVE  Ends(SymbolId(f, text, d), relation) = UNION {meant(ref) : ref \in Stated(d, relation)}
  <2>1. \A ref \in Stated(d, relation) : Settled(ref, text.pkg, Scope(d), text.imports)
    BY <1>2 DEF Settled
  <2> QED
    BY <2>1, ClausesAreMeant
<1> QED
  BY <1>1, <1>2 DEF Ends, Stated, ToTypes

-----------------------------------------------------------------------------
(* As long as nobody edits, the calls are those of the bodies scanned.     *)
LEMMA SameHits ==
  ASSUME UNCHANGED <<tree, seen, declared>>
  PROVE  Listing' = Listing /\ \A f : ScanHits(f)' = ScanHits(f)
<1>1. Listing' = Listing
  BY DEF Listing
<1>2. \A f, text, d : Scanned(f, text, d)' = Scanned(f, text, d)
  BY DEF Scanned, Method, ByName, Types
<1>3. \A own, u, d, pkg, imports : Hits(own, u, d, pkg, imports)' = Hits(own, u, d, pkg, imports)
  BY DEF Hits, Receiver, LocalType, Method, Field, Fields, Resolve, ByName, ImportedType, Mates, Types
<1>4. \A f : ScanHits(f)' = ScanHits(f)
  BY <1>2, <1>3 DEF ScanHits
<1> QED
  BY <1>1, <1>4

LEMMA StillInvNext == TreeInv /\ NamesInv /\ StillInv /\ [SyntaxNext]_syntaxVars => StillInv'
<1> SUFFICES ASSUME TreeInv, NamesInv, StillInv, [SyntaxNext]_syntaxVars, still' PROVE StillInv'
  BY DEF StillInv
<1>1. CASE Collect
  <2>1. PICK i \in todo : Takes(i) /\
          LET f == JavaFiles[i]
              text == tree[f]
              read == text # Absent
          IN seen' = IF read THEN [g \in DOMAIN seen \cup {f} |-> IF g = f THEN text ELSE seen[g]] ELSE seen
    BY <1>1 DEF Collect
  <2>2. pass = "collect" /\ pass' = "collect" /\ UNCHANGED <<tree, still>>
    BY <1>1 DEF Collect
  <2>3. i \in Listing /\ todo' = todo \ {i} /\ JavaFiles[i] \in ToSet(JavaFiles) /\ tree[JavaFiles[i]] # Absent
    BY <2>1, <2>2 DEF Takes, StillInv, Listing, ToSet
  <2>4. /\ DOMAIN seen' = DOMAIN seen \cup {JavaFiles[i]}
        /\ \A g \in DOMAIN seen' : seen'[g] = IF g = JavaFiles[i] THEN tree[g] ELSE seen[g]
    BY <2>1, <2>3
  <2>5. Listing' = Listing
    BY <2>2 DEF Listing
  <2>6. \A f \in DOMAIN seen' : f \in ToSet(JavaFiles) /\ tree'[f] = seen'[f] /\ tree'[f] # Absent
    BY <2>2, <2>3, <2>4 DEF StillInv
  <2>7. \A j \in Listing' : JavaFiles[j] \in DOMAIN seen' \/ (pass' = "collect" /\ j \in todo')
    BY <2>2, <2>3, <2>4, <2>5 DEF StillInv
  <2> QED
    BY <2>2, <2>3, <2>5, <2>6, <2>7 DEF StillInv
<1>2. CASE Relate
  <2>1. /\ pass = "collect" /\ todo = {} /\ pass' = "scan" /\ todo' = Listing
        /\ relations' = relations \cup UNION {{<<p.from, t, p.relation>> : t \in Targets(p)} : p \in pending}
        /\ UNCHANGED <<tree, seen, declared, still>>
    BY <1>2 DEF Relate
  <2>2. \A p \in pending : p.relation # "calls"
    <3> TAKE p \in pending
    <3>1. PICK f \in DOMAIN seen : p \in PendingOf(f, seen[f])
      BY DEF NamesInv, AskedInv
    <3>2. Nested(seen[f])
      BY DEF NamesInv, ReadInv
    <3>3. p.relation \in ToTypes \cup {"belongs_to", "annotated_with"}
      <4> HIDE DEF PendingOf
      <4> QED
        BY <3>1, <3>2, AnswersAskedFor
    <3> QED
      BY <3>3 DEF ToTypes
  <2>3. \A from, to : <<from, to, "calls">> \notin relations'
    BY <2>1, <2>2 DEF NamesInv, RelatedInv
  <2>4. Listing' = Listing /\ Listing' \ todo' = {}
    BY <2>1 DEF Listing
  <2> QED
    BY <2>1, <2>3, <2>4 DEF StillInv
<1>3. CASE Scan
  <2>1. PICK i \in todo : Takes(i) /\
          relations' = relations \cup {<<x.from, x.hit.to, x.hit.relation>> : x \in ScanHits(JavaFiles[i])}
    BY <1>3 DEF Scan
  <2>2. pass = "scan" /\ pass' = "scan" /\ UNCHANGED <<tree, seen, declared, still>>
    BY <1>3 DEF Scan
  <2>3. Listing' = Listing /\ \A j : CallsOf(j)' = CallsOf(j)
    BY <2>2, SameHits DEF CallsOf
  <2>4. i \in Listing /\ todo' = todo \ {i} /\ relations' = relations \cup CallsOf(i)
    BY <2>1, <2>2 DEF Takes, StillInv, CallsOf
  <2>5. Listing' \ todo' = (Listing \ todo) \cup {i}
    BY <2>3, <2>4
  <2>6. \A from, to : <<from, to, "calls">> \in relations' <=>
          \E j \in Listing' \ todo' : <<from, to, "calls">> \in CallsOf(j)'
    BY <2>2, <2>3, <2>4, <2>5 DEF StillInv
  <2> QED
    BY <2>2, <2>3, <2>4, <2>6 DEF StillInv
<1>4. ASSUME UNCHANGED <<tree, seen, declared, relations, todo, still>>, pass # "collect", pass' # "collect",
             pass' \in {"store", "done"} => todo = {}
      PROVE  StillInv'
  <2>1. Listing' = Listing /\ \A j : CallsOf(j)' = CallsOf(j)
    BY <1>4, SameHits DEF CallsOf
  <2> QED
    BY <1>4, <2>1 DEF StillInv
<1>5. CASE ClearRows
  BY <1>4, <1>5 DEF ClearRows, rowVars
<1>6. CASE Store
  <2>1. pass = "store" /\ pass' = "done" /\ UNCHANGED <<tree, seen, declared, relations, todo, still>>
    BY <1>6 DEF Store, rowVars
  <2> QED
    BY <1>4, <2>1 DEF StillInv
<1>7. CASE Edit
  BY <1>7 DEF Edit
<1>8. CASE UNCHANGED syntaxVars
  <2>1. UNCHANGED <<tree, seen, declared, relations, todo, still, pass>>
    BY <1>8 DEF syntaxVars, rowVars
  <2>2. Listing' = Listing /\ \A j : CallsOf(j)' = CallsOf(j)
    BY <2>1, SameHits DEF CallsOf
  <2> QED
    BY <2>1, <2>2 DEF StillInv
<1> QED
  BY <1>1, <1>2, <1>3, <1>5, <1>6, <1>7, <1>8 DEF SyntaxNext

-----------------------------------------------------------------------------
(* What the bodies call.                                                   *)

(* A look-up for a declaration of a method gives that one, if any.         *)
LEMMA OneMethod ==
  ASSUME MetInv, NEW f \in DOMAIN seen, NEW d \in ToSet(seen[f].decls), d.is \in Callable,
         Visited(seen[f], d), NEW m \in Method(Around(seen[f], d), Name(d), d.arity, d.is)
  PROVE  m = Entry(f, seen[f], d)
<1> DEFINE x == Entry(f, seen[f], d)
           places == {i \in DOMAIN declared :
             /\ declared[i].visited /\ declared[i].decl.is \in Callable /\ declared[i].decl.is = d.is
             /\ declared[i].owner = Around(seen[f], d) /\ declared[i].name = Name(d) /\ declared[i].decl.arity = d.arity}
<1>1. x \in ToSet(declared)
  BY DEF MetInv
<1>2. x.decl = d /\ x.owner = Around(seen[f], d) /\ x.name = Name(d) /\ x.visited
  BY DEF Entry
<1> HIDE DEF x
<1>3. PICK i \in DOMAIN declared : declared[i] = x
  BY <1>1 DEF ToSet
<1>4. i \in places
  BY <1>2, <1>3
<1>5. m \in OnlyIn(declared, places)
  BY DEF Method
<1> HIDE DEF places
<1>6. m = declared[i]
  BY <1>4, <1>5 DEF OnlyIn
<1> QED
  BY <1>3, <1>6 DEF x

(* What is around a declaration is one type, of one file.                  *)
LEMMA SameClass ==
  ASSUME NamesInv, PlainProject, NEW f \in DOMAIN seen, NEW d \in ToSet(seen[f].decls), d.in # <<>>,
         NEW g \in DOMAIN seen, NEW e \in ToSet(seen[g].decls), e.in # <<>>, Around(seen[f], d) = Around(seen[g], e)
  PROVE  f = g /\ d.in = e.in
<1>1. Nested(seen[f]) /\ Nested(seen[g])
  BY DEF NamesInv, ReadInv
<1>2. PICK o \in ToSet(seen[f].decls) : o.is \in TypeKinds /\ Append(o.in, o.name) = d.in
  BY <1>1 DEF Nested
<1>3. PICK q \in ToSet(seen[g].decls) : q.is \in TypeKinds /\ Append(q.in, q.name) = e.in
  BY <1>1 DEF Nested
<1>4. Entry(f, seen[f], o) \in TypesMet /\ Entry(f, seen[f], o).qname = Around(seen[f], d)
  BY <1>2, EntryOf DEF NamesInv, Around
<1>5. Entry(g, seen[g], q) \in TypesMet /\ Entry(g, seen[g], q).qname = Around(seen[g], e)
  BY <1>3, EntryOf DEF NamesInv, Around
<1>6. Entry(f, seen[f], o) = Entry(g, seen[g], q)
  BY <1>4, <1>5, PlainTypesMet, TypesAreNamed
<1>7. /\ Entry(f, seen[f], o).decl = o /\ Entry(f, seen[f], o).id = SymbolId(f, seen[f], o)
      /\ Entry(g, seen[g], q).decl = q /\ Entry(g, seen[g], q).id = SymbolId(g, seen[g], q)
  BY DEF Entry
<1>8. o = q /\ SymbolId(f, seen[f], o) = SymbolId(g, seen[g], q)
  BY <1>6, <1>7
<1>9. f = g
  BY <1>8, SameSymbol
<1> QED
  BY <1>2, <1>3, <1>8, <1>9

(* Nothing is found for a body that was not visited.                       *)
LEMMA BodyIsVisited ==
  ASSUME NamesInv, PlainProject, NEW g \in DOMAIN seen, NEW e \in ToSet(seen[g].decls), e.is \in Callable,
         NEW m \in Method(Around(seen[g], e), Name(e), e.arity, e.is)
  PROVE  Visited(seen[g], e)
<1>1. m \in ToSet(declared) /\ m.visited /\ m.decl.is \in Callable /\ m.owner = Around(seen[g], e)
  <2> DEFINE places == {i \in DOMAIN declared : LET d == declared[i].decl IN
               declared[i].visited /\ d.is \in Callable /\ d.is = e.is /\ declared[i].owner = Around(seen[g], e)
               /\ declared[i].name = Name(e) /\ d.arity = e.arity}
  <2>1. m \in OnlyIn(declared, places)
    BY DEF Method
  <2> HIDE DEF places
  <2>2. PICK i \in places : m = declared[i]
    BY <2>1 DEF OnlyIn
  <2> USE DEF places
  <2> QED
    BY <2>2 DEF ToSet
<1>2. PICK h \in DOMAIN seen : \E x \in ToSet(seen[h].decls) : m = Entry(h, seen[h], x)
  BY <1>1 DEF NamesInv, MetInv
<1>3. PICK x \in ToSet(seen[h].decls) : m = Entry(h, seen[h], x)
  BY <1>2
<1>4. Visited(seen[h], x) /\ x.is \in Callable /\ Around(seen[h], x) = Around(seen[g], e)
  BY <1>1, <1>3 DEF Entry
<1>5. x.in # <<>> /\ e.in # <<>>
  BY <1>4, EntryOf DEF NamesInv, IsDeclaration, TypeKinds, Callable
<1>6. h = g /\ x.in = e.in
  BY <1>4, <1>5, SameClass
<1> QED
  BY <1>4, <1>6 DEF Visited

LEMMA OneBody ==
  ASSUME NamesInv, PlainProject, NEW f \in DOMAIN seen, NEW d \in ToSet(seen[f].decls), d.is \in Callable,
         NEW g \in DOMAIN seen, NEW e \in ToSet(seen[g].decls), e.is \in Callable,
         NEW m \in Method(Around(seen[g], e), Name(e), e.arity, e.is), m.id = SymbolId(f, seen[f], d)
  PROVE  f = g /\ d = e
<1>1. m = Entry(g, seen[g], e)
  BY OneMethod, BodyIsVisited DEF NamesInv
<1>2. SymbolId(f, seen[f], d) = SymbolId(g, seen[g], e)
  BY <1>1 DEF Entry
<1>3. f = g /\ QName(seen[f], d) = QName(seen[g], e) /\ e.is = d.is /\ e.arity = d.arity
  BY <1>2, SameSymbol
<1>4. Around(seen[f], d) = Around(seen[g], e) /\ Name(d) = Name(e)
  BY <1>3, SameOwner DEF NamesInv, ReadInv
<1>5. m = Entry(f, seen[f], d)
  <2>1. m \in Method(Around(seen[f], d), Name(d), d.arity, d.is)
    BY <1>3, <1>4
  <2> QED
    BY <2>1, OneMethod, BodyIsVisited DEF NamesInv
<1>6. Entry(f, seen[f], d).decl = d /\ Entry(g, seen[g], e).decl = e
  BY DEF Entry
<1> QED
  BY <1>1, <1>3, <1>5, <1>6

LEMMA BodiesAreScanned ==
  ASSUME NamesInv, PlainProject, NEW f \in DOMAIN seen, NEW d \in ToSet(seen[f].decls)
  PROVE  Scanned(f, seen[f], d) = Method(Around(seen[f], d), Name(d), d.arity, d.is)
<1>1. Nested(seen[f])
  BY DEF NamesInv, ReadInv
<1>2. \A n \in DOMAIN d.in : ByName(seen[f].pkg \o SubSeq(d.in, 1, n)) # {}
  <2> TAKE n \in DOMAIN d.in
  <2>1. PICK o \in ToSet(seen[f].decls) : o.is \in TypeKinds /\ Append(o.in, o.name) = SubSeq(d.in, 1, n)
    BY <1>1, AroundIsDeclared
  <2>2. /\ Entry(f, seen[f], o) \in TypesMet
        /\ Entry(f, seen[f], o).qname = seen[f].pkg \o SubSeq(d.in, 1, n)
    BY <2>1, EntryOf DEF NamesInv
  <2> QED
    BY <2>2, PlainTypesMet, TypesAreNamed DEF TypesNamed
<1> QED
  BY <1>2 DEF Scanned

(* The calls that a use of a body stands for.                              *)
CalledBy(u, own, d, pkg, imports) ==
  IF u.is = "call" THEN UNION {Method(o, u.name, u.args, "method") : o \in Receiver(own, u, d, pkg, imports)}
  ELSE IF u.is = "new" THEN UNION {Method(t.qname, t.name, u.args, "constructor") : t \in Resolve(u.path, pkg, imports)}
  ELSE {}

CallHit(to, u, own, d, pkg, imports) ==
  \E h \in Hits(own, u, d, pkg, imports) : h.relation = "calls" /\ h.to = to

LEMMA CallHits ==
  ASSUME NEW own, NEW u, NEW d, NEW pkg, NEW imports, NEW to
  PROVE  CallHit(to, u, own, d, pkg, imports) <=> \E m \in CalledBy(u, own, d, pkg, imports) : m.id = to
<1> USE DEF CallHit
<1> DEFINE fieldAt(name, j) == {[relation |-> "field_refs", to |-> x.id, token |-> j] : x \in Field(own, name)}
           tokens == UNION {fieldAt(u.path[j], j) : j \in FieldPlaces(d, u.path)}
           through == IF u.path \in {<<>>, <<"this">>} \/ IsLocal(d, u.path) THEN {} ELSE fieldAt(Last(u.path), 1)
           edges(ms) == {[relation |-> "calls", to |-> m.id, token |-> 0] : m \in ms}
           called == UNION {Method(o, u.name, u.args, "method") : o \in Receiver(own, u, d, pkg, imports)}
           built == UNION {Method(t.qname, t.name, u.args, "constructor") : t \in Resolve(u.path, pkg, imports)}
<1>1. Hits(own, u, d, pkg, imports) =
        IF u.is = "call" THEN edges(called) \cup through \cup tokens
        ELSE IF u.is = "new" THEN edges(built) ELSE tokens
  BY DEF Hits
<1>2. (\A h \in through : h.relation = "field_refs") /\ \A h \in tokens : h.relation = "field_refs"
  OBVIOUS
<1>3. ASSUME NEW ms
      PROVE  /\ \A h \in edges(ms) : h.relation = "calls" /\ \E m \in ms : h.to = m.id
             /\ \A m \in ms : \E h \in edges(ms) : h.relation = "calls" /\ h.to = m.id
  <2>1. \A h \in edges(ms) : h.relation = "calls" /\ \E m \in ms : h.to = m.id
    OBVIOUS
  <2>2. ASSUME NEW m \in ms PROVE \E h \in edges(ms) : h.relation = "calls" /\ h.to = m.id
    <3>1. [relation |-> "calls", to |-> m.id, token |-> 0] \in edges(ms)
      OBVIOUS
    <3> HIDE DEF edges
    <3> QED
      BY <3>1
  <2> QED
    BY <2>1, <2>2
<1>4. CalledBy(u, own, d, pkg, imports) = IF u.is = "call" THEN called ELSE IF u.is = "new" THEN built ELSE {}
  BY DEF CalledBy
<1> HIDE DEF through, tokens, edges, called, built
<1>5. CASE u.is = "call"
  BY <1>1, <1>2, <1>3, <1>4, <1>5
<1>6. CASE u.is = "new"
  BY <1>1, <1>3, <1>4, <1>6
<1>7. CASE u.is \notin {"call", "new"}
  BY <1>1, <1>2, <1>4, <1>7
<1> QED
  BY <1>5, <1>6, <1>7

BodyCalls(text, d) == UNION {CalledBy(u, Around(text, d), d, text.pkg, text.imports) : u \in ToSet(d.uses)}

LEMMA HitsOfBodies ==
  ASSUME NEW f \in DOMAIN seen, tree[f] = seen[f], NEW from, NEW to
  PROVE  (\E x \in ScanHits(f) : x.from = from /\ x.hit.to = to /\ x.hit.relation = "calls") <=>
           \E d \in ToSet(seen[f].decls) : /\ d.is \in Callable
                                           /\ \E m \in Scanned(f, seen[f], d) : m.id = from
                                           /\ \E m \in BodyCalls(seen[f], d) : m.id = to
<1> DEFINE text == seen[f]
           Found(d, u) == Hits(Around(text, d), u, d, text.pkg, text.imports)
           hit(k, n, m, h) == [from |-> m.id, hit |-> h, at |-> <<k, "use", n, h.token>>]
           inBody(k, d) == UNION {{hit(k, n, m, h) : m \in Scanned(f, text, d), h \in Found(d, d.uses[n])} :
                                    n \in DOMAIN d.uses}
           bodies == {k \in DOMAIN text.decls : text.decls[k].is \in Callable}
           Called(d) == (\E m \in Scanned(f, text, d) : m.id = from) /\ \E m \in BodyCalls(text, d) : m.id = to
<1>1. ScanHits(f) = UNION {inBody(k, text.decls[k]) : k \in bodies}
  BY DEF ScanHits
<1>2. \A d, u : (\E h \in Found(d, u) : h.relation = "calls" /\ h.to = to) <=>
                   \E m \in CalledBy(u, Around(text, d), d, text.pkg, text.imports) : m.id = to
  <2> TAKE d, u
  <2>1. CallHit(to, u, Around(text, d), d, text.pkg, text.imports) <=>
          \E m \in CalledBy(u, Around(text, d), d, text.pkg, text.imports) : m.id = to
    BY CallHits
  <2> QED
    BY <2>1 DEF CallHit
<1>3. \A d : (\E m \in BodyCalls(text, d) : m.id = to) <=>
               \E n \in DOMAIN d.uses : \E h \in Found(d, d.uses[n]) : h.relation = "calls" /\ h.to = to
  <2> TAKE d
  <2>1. (\E m \in BodyCalls(text, d) : m.id = to) <=>
          \E n \in DOMAIN d.uses : \E m \in CalledBy(d.uses[n], Around(text, d), d, text.pkg, text.imports) : m.id = to
    BY DEF BodyCalls, ToSet
  <2> HIDE DEF Found
  <2> QED
    BY <1>2, <2>1
<1>4. ASSUME NEW k, NEW d
      PROVE  (\E x \in inBody(k, d) : x.from = from /\ x.hit.to = to /\ x.hit.relation = "calls") <=> Called(d)
  <2> HIDE DEF Found
  <2>1. ASSUME NEW x \in inBody(k, d), x.from = from, x.hit.to = to, x.hit.relation = "calls" PROVE Called(d)
    <3>1. PICK n \in DOMAIN d.uses : \E m \in Scanned(f, text, d), h \in Found(d, d.uses[n]) : x.from = m.id /\ x.hit = h
      OBVIOUS
    <3> QED
      BY <1>3, <2>1, <3>1
  <2>2. ASSUME Called(d) PROVE \E x \in inBody(k, d) : x.from = from /\ x.hit.to = to /\ x.hit.relation = "calls"
    <3>1. PICK m \in Scanned(f, text, d) : m.id = from
      BY <2>2
    <3>2. PICK n \in DOMAIN d.uses : \E h \in Found(d, d.uses[n]) : h.relation = "calls" /\ h.to = to
      BY <1>3, <2>2
    <3>3. PICK h \in Found(d, d.uses[n]) : h.relation = "calls" /\ h.to = to
      BY <3>2
    <3> DEFINE x == hit(k, n, m, h)
    <3>4. x \in inBody(k, d)
      <4> HIDE DEF hit
      <4> QED
        OBVIOUS
    <3>5. x.from = from /\ x.hit.to = to /\ x.hit.relation = "calls"
      BY <3>1, <3>3
    <3> HIDE DEF inBody, x
    <3> QED
      BY <3>4, <3>5
  <2> HIDE DEF inBody, Called
  <2> QED
    BY <2>1, <2>2
<1> HIDE DEF inBody, Called
<1>5. (\E x \in ScanHits(f) : x.from = from /\ x.hit.to = to /\ x.hit.relation = "calls") <=>
        \E k \in bodies : Called(text.decls[k])
  BY <1>1, <1>4
<1>6. (\E k \in bodies : Called(text.decls[k])) <=> \E d \in ToSet(text.decls) : d.is \in Callable /\ Called(d)
  BY DEF ToSet
<1> QED
  BY <1>5, <1>6 DEF Called

(* At the end the edges of a method are the calls of its own body.         *)
LEMMA EndsAreCalls ==
  ASSUME NamesInv, StillInv, still, pass = "done", PlainProject,
         NEW f \in DOMAIN seen, NEW d \in ToSet(seen[f].decls), d.is \in Callable,
         Method(Around(seen[f], d), Name(d), d.arity, d.is) # {}
  PROVE  Ends(SymbolId(f, seen[f], d), "calls") = {m.id : m \in BodyCalls(seen[f], d)}
<1> DEFINE from == SymbolId(f, seen[f], d)
           Reached(g, e, to) == /\ \E m \in Scanned(g, seen[g], e) : m.id = from
                                /\ \E m \in BodyCalls(seen[g], e) : m.id = to
<1>1. /\ index.relations = relations /\ \A r \in relations : r = <<r[1], r[2], r[3]>>
      /\ \A to : <<from, to, "calls">> \in relations <=> \E i \in Listing : <<from, to, "calls">> \in CallsOf(i)
  BY DEF NamesInv, RelatedInv, StillInv
<1>2. \A to : to \in Ends(from, "calls") <=> \E i \in Listing : <<from, to, "calls">> \in CallsOf(i)
  BY <1>1 DEF Ends
<1>3. \A to : (\E i \in Listing : <<from, to, "calls">> \in CallsOf(i)) <=>
                 \E g \in DOMAIN seen : \E x \in ScanHits(g) : x.from = from /\ x.hit.to = to /\ x.hit.relation = "calls"
  <2>1. \A i \in Listing : JavaFiles[i] \in DOMAIN seen
    BY DEF StillInv
  <2>2. \A g \in DOMAIN seen : \E i \in Listing : JavaFiles[i] = g
    BY DEF StillInv, Listing, ToSet
  <2>3. \A i, to : <<from, to, "calls">> \in CallsOf(i) <=>
                     \E x \in ScanHits(JavaFiles[i]) : x.from = from /\ x.hit.to = to /\ x.hit.relation = "calls"
    BY DEF CallsOf
  <2> HIDE DEF from
  <2> QED
    BY <2>1, <2>2, <2>3
<1>4. \A to : \A g \in DOMAIN seen :
        (\E x \in ScanHits(g) : x.from = from /\ x.hit.to = to /\ x.hit.relation = "calls") <=>
          \E e \in ToSet(seen[g].decls) : e.is \in Callable /\ Reached(g, e, to)
  <2> HIDE DEF from
  <2> QED
    BY HitsOfBodies DEF StillInv
<1>5. \A g \in DOMAIN seen : \A e \in ToSet(seen[g].decls) :
        e.is \in Callable /\ (\E m \in Scanned(g, seen[g], e) : m.id = from) => g = f /\ e = d
  BY BodiesAreScanned, OneBody
<1>6. \E m \in Scanned(f, seen[f], d) : m.id = from
  <2>1. PICK m \in Method(Around(seen[f], d), Name(d), d.arity, d.is) : TRUE
    OBVIOUS
  <2>2. m = Entry(f, seen[f], d)
    BY OneMethod, BodyIsVisited DEF NamesInv
  <2> QED
    BY <2>1, <2>2, BodiesAreScanned DEF Entry
<1> HIDE DEF from
<1>7. \A to : to \in Ends(from, "calls") <=> \E m \in BodyCalls(seen[f], d) : m.id = to
  <2> TAKE to
  <2>1. to \in Ends(from, "calls") <=>
          \E g \in DOMAIN seen : \E e \in ToSet(seen[g].decls) : e.is \in Callable /\ Reached(g, e, to)
    BY <1>2, <1>3, <1>4, ZenonT(30)
  <2>2. (\E g \in DOMAIN seen : \E e \in ToSet(seen[g].decls) : e.is \in Callable /\ Reached(g, e, to))
          <=> Reached(f, d, to)
    BY <1>5
  <2>3. Reached(f, d, to) <=> \E m \in BodyCalls(seen[f], d) : m.id = to
    BY <1>6
  <2> QED
    BY <2>1, <2>2, <2>3
<1> QED
  BY <1>7 DEF from

(* The scan resolves a name of one type as Java does.                      *)
LEMMA TypeIsFollowed ==
  ASSUME NamesInv, PlainProject, NEW f \in DOMAIN seen, NEW d \in ToSet(seen[f].decls),
         NEW ref \in Names \ {<<>>}, JavaType(ref, seen[f].pkg, d.in, seen[f].imports) # {}
  PROVE  Resolve(ref, seen[f].pkg, seen[f].imports) = JavaType(ref, seen[f].pkg, d.in, seen[f].imports)
<1>1. PlainTypes /\ IsImports(seen[f].imports) /\ KnownScope(seen[f].pkg, d.in)
  BY PlainTypesMet, ScopesAreKnown DEF NamesInv
<1>2. Settled(ref, seen[f].pkg, d.in, seen[f].imports)
  BY DEF Settled
<1> QED
  BY <1>1, <1>2, ResolverIsRight

(* Locals that the scan sees as Java does.                                 *)
LocalMeans(text, d, name) ==
  UNION {JavaType(l.type, text.pkg, d.in, text.imports) : l \in LocalsNamed(d, name)}

LocalsPlain(text, d, name) ==
  \A l \in ToSet(d.locals) : name \in {l.name, l.found} => LocalIsSeen(l, name, d, text)

LEMMA LocalsAreTyped ==
  ASSUME NEW text, NEW d, NEW name, LocalsPlain(text, d, name)
  PROVE  /\ LocalsNamed(d, name) = {l \in ToSet(d.locals) : l.is \in Typed /\ l.found = name}
         /\ name \in LocalNames(d) <=> LocalsNamed(d, name) # {}
<1>1. \A l \in ToSet(d.locals) : l.found = name \/ l.name = name => l.is \in Typed /\ l.found = name /\ l.name = name
  BY DEF LocalsPlain, LocalIsSeen
<1>2. LocalsNamed(d, name) = {l \in ToSet(d.locals) : l.is \in Typed /\ l.found = name}
  BY <1>1 DEF LocalsNamed
<1>3. name \in LocalNames(d) <=> \E l \in ToSet(d.locals) : l.is \in Collected /\ l.found = name
  BY DEF LocalNames, ToSet
<1>4. Typed \subseteq Collected
  BY DEF Collected
<1> QED
  BY <1>1, <1>2, <1>3, <1>4

LEMMA LocalIsFollowed ==
  ASSUME NamesInv, PlainProject, NEW f \in DOMAIN seen, NEW d \in ToSet(seen[f].decls), d.is \in Callable,
         NEW name, NEW t, LocalMeans(seen[f], d, name) = {t}, LocalsPlain(seen[f], d, name)
  PROVE  LocalType(d, name, seen[f].pkg, seen[f].imports) = {t}
<1> DEFINE Found(l) == Resolve(l.type, seen[f].pkg, seen[f].imports)
           Meant(l) == JavaType(l.type, seen[f].pkg, d.in, seen[f].imports)
           places == {k \in DOMAIN d.locals :
                        d.locals[k].is \in Typed /\ d.locals[k].found = name /\ Found(d.locals[k]) # {}}
<1>1. d.locals \in Seq(ToSet(d.locals)) /\ \A l \in ToSet(d.locals) : l.type \in Names \ {<<>>}
  BY EntryOf DEF NamesInv, IsDeclaration
<1>2. PlainTypes /\ IsImports(seen[f].imports)
  BY PlainTypesMet
<1>3. \A l \in LocalsNamed(d, name) : Found(l) = {t} \/ Found(l) = {}
  <2> TAKE l \in LocalsNamed(d, name)
  <2>1. l.type \in Names \ {<<>>}
    BY <1>1 DEF LocalsNamed
  <2>2. CASE Meant(l) # {}
    <3>1. Found(l) = Meant(l)
      BY <2>1, <2>2, TypeIsFollowed
    <3>2. Meant(l) \subseteq {t}
      BY DEF LocalMeans
    <3> HIDE DEF Found, Meant
    <3> QED
      BY <2>2, <3>1, <3>2
  <2>3. CASE Meant(l) = {}
    <3>1. \A u \in TypesMet : u.name # Last(l.type)
      BY <2>3 DEF LocalsPlain, LocalIsSeen, LocalsNamed
    <3>2. Found(l) \subseteq Namesakes(Last(l.type))
      BY <1>2, ResolvedToNamesakes
    <3> HIDE DEF Found
    <3> QED
      BY <3>1, <3>2 DEF Namesakes
  <2> QED
    BY <2>2, <2>3
<1>4. PICK l \in LocalsNamed(d, name) : Meant(l) # {}
  <2>1. t \in UNION {Meant(l) : l \in LocalsNamed(d, name)}
    BY DEF LocalMeans
  <2> HIDE DEF Meant
  <2> QED
    BY <2>1
<1>5. Found(l) # {} /\ l \in ToSet(d.locals) /\ l.is \in Typed /\ l.found = name
  <2>1. l \in ToSet(d.locals) /\ l.is \in Typed /\ l.found = name
    BY LocalsAreTyped
  <2>2. Found(l) = Meant(l)
    BY <1>1, <1>4, <2>1, TypeIsFollowed
  <2> QED
    BY <1>4, <2>1, <2>2
<1> HIDE DEF Found
<1>6. places # {}
  BY <1>5 DEF ToSet
<1>7. PICK i \in places : LatestIn(d.locals, places) = {d.locals[i]}
  <2>1. places \subseteq DOMAIN d.locals
    OBVIOUS
  <2> HIDE DEF places
  <2> QED
    BY <1>1, <1>6, <2>1, LatestIsThere
<1>8. Found(d.locals[i]) = {t}
  <2>1. d.locals[i] \in LocalsNamed(d, name) /\ Found(d.locals[i]) # {}
    BY LocalsAreTyped DEF ToSet
  <2> QED
    BY <1>3, <2>1
<1>9. LocalType(d, name, seen[f].pkg, seen[f].imports) = UNION {Found(l1) : l1 \in LatestIn(d.locals, places)}
  BY DEF LocalType, Found
<1> HIDE DEF places
<1> QED
  BY <1>7, <1>8, <1>9

(* Fields of the class around: there is one of a name, declared in the     *)
(* class that is meant.                                                    *)
LEMMA FieldIsOwn ==
  ASSUME NamesInv, PlainProject, NEW f \in DOMAIN seen, NEW d \in ToSet(seen[f].decls), d.is \in Callable,
         NEW name, \A x \in OwnFields(seen[f], d, name) : x.visited
  PROVE  /\ Field(Around(seen[f], d), name) = OwnFields(seen[f], d, name)
         /\ \A x, y \in OwnFields(seen[f], d, name) : x = y
         /\ \A x \in OwnFields(seen[f], d, name) : x.pkg = seen[f].pkg /\ x.decl.type \in Names \ {<<>>}
<1> DEFINE own == Around(seen[f], d)
           places == {i \in Fields : declared[i].owner = own /\ declared[i].name = name}
<1>1. \A i \in Fields : i \in Int /\ declared[i] \in ToSet(declared) /\ declared[i].decl.is = "field"
  <2>1. DOMAIN declared \subseteq Int
    BY DEF NamesInv, MetInv
  <2> QED
    BY <2>1 DEF Fields, ToSet
<1>2. ASSUME NEW i \in places
      PROVE  /\ declared[i].qname = Append(own, name)
             /\ declared[i].pkg = seen[f].pkg /\ declared[i].decl.type \in Names \ {<<>>}
  <2> DEFINE x == declared[i]
  <2>1. x \in ToSet(declared) /\ x.decl.is = "field" /\ x.owner = own /\ x.name = name
    BY <1>1
  <2> HIDE DEF x
  <2>2. PICK g \in DOMAIN seen : \E e \in ToSet(seen[g].decls) : x = Entry(g, seen[g], e)
    BY <2>1 DEF NamesInv, MetInv
  <2>3. PICK e \in ToSet(seen[g].decls) : x = Entry(g, seen[g], e)
    BY <2>2
  <2>4. /\ x.decl = e /\ x.pkg = seen[g].pkg /\ x.qname = Append(Around(seen[g], e), Name(e))
        /\ Around(seen[g], e) = own /\ Name(e) = name
    BY <2>1, <2>3 DEF Entry, QName
  <2>5. Nested(seen[f]) /\ Nested(seen[g]) /\ IsDeclaration(d) /\ IsDeclaration(e)
    BY DEF NamesInv, ReadInv, Nested
  <2>6. e.type \in Names \ {<<>>} /\ e.in # <<>> /\ d.in # <<>>
    BY <2>1, <2>4, <2>5 DEF IsDeclaration, TypeKinds, Callable, Variables
  <2>7. f = g
    BY <2>4, <2>6, SameClass
  <2> QED
    BY <2>1, <2>4, <2>6, <2>7 DEF x
<1>3. \A i, j \in places : i = j
  BY <1>2, SMTT(30) DEF PlainProject
<1>4. OwnFields(seen[f], d, name) = {declared[i] : i \in places}
  <2>1. ASSUME NEW i \in DOMAIN declared, declared[i].decl.is \in Variables, declared[i].visited
        PROVE  declared[i].decl.is = "field"
    <3>1. PICK g \in DOMAIN seen : \E e \in ToSet(seen[g].decls) : declared[i] = Entry(g, seen[g], e)
      BY DEF ToSet, NamesInv, MetInv
    <3>2. PICK e \in ToSet(seen[g].decls) : declared[i] = Entry(g, seen[g], e)
      BY <3>1
    <3>3. declared[i].decl = e /\ Visited(seen[g], e)
      BY <2>1, <3>2 DEF Entry
    <3> QED
      BY <2>1, <3>3 DEF Visited, Variables, TypeKinds, Callable
  <2>2. \A i \in DOMAIN declared : declared[i].decl.is = "field" => declared[i].decl.is \in Variables
    BY DEF Variables
  <2> QED
    BY <2>1, <2>2 DEF OwnFields, Fields
<1>5. Field(own, name) = OnlyIn(declared, places)
  BY DEF Field
<1>6. \A i \in places : i \in Int
  BY <1>1
<1> HIDE DEF places
<1>7. OnlyIn(declared, places) = {declared[i] : i \in places}
  BY <1>3, <1>6 DEF OnlyIn
<1> QED
  BY <1>2, <1>3, <1>4, <1>5, <1>7

LEMMA ReceiverIsFollowed ==
  ASSUME NamesInv, PlainProject, NEW f \in DOMAIN seen, NEW d \in ToSet(seen[f].decls), d.is \in Callable,
         NEW u \in ToSet(d.uses), u.is = "call", Followed(u, d, seen[f])
  PROVE  Receiver(Around(seen[f], d), u, d, seen[f].pkg, seen[f].imports) = {t.qname : t \in JavaReceiver(u, d, seen[f])}
<1> DEFINE text == seen[f]
           own == Around(text, d)
           last == Last(u.path)
           Meant(ref) == JavaType(ref, text.pkg, d.in, text.imports)
           Found(ref) == Resolve(ref, text.pkg, text.imports)
           fields == OwnFields(text, d, last)
           met == Receiver(own, u, d, text.pkg, text.imports)
           java == JavaReceiver(u, d, text)
<1>1. PICK t \in TypesMet : java = {t}
  BY DEF Followed
<1>2. u.path \in Names
  BY EntryOf DEF NamesInv, IsDeclaration
<1>3. u.is # "new" /\ (u.path # <<>> => LocalsAreSeen(u, d, text) /\ FieldsAreSeen(u, d, text))
  BY DEF Followed
<1>4. CASE u.path \in {<<>>, <<"this">>}
  <2>1. met = {own}
    BY <1>4 DEF Receiver
  <2>2. java = TypesNamed(own)
    BY <1>3, <1>4 DEF JavaReceiver, ReadAs
  <2>3. t.qname = own
    BY <1>1, <2>2 DEF TypesNamed
  <2> QED
    BY <1>1, <2>1, <2>3
<1>5. CASE u.path \notin {<<>>, <<"this">>} /\ Len(u.path) = 1 /\ LocalsNamed(d, u.path[1]) # {}
  <2>1. last = u.path[1]
    BY <1>5 DEF Last
  <2>2. LocalsPlain(text, d, last)
    BY <1>3, <1>5, <2>1 DEF LocalsAreSeen, LocalsPlain
  <2>3. IsLocal(d, u.path)
    BY <1>5, <2>1, <2>2, LocalsAreTyped DEF IsLocal
  <2>4. met = {x.qname : x \in LocalType(d, last, text.pkg, text.imports)}
    BY <1>5, <2>1, <2>3 DEF Receiver
  <2>5. java = LocalMeans(text, d, last)
    <3>1. ReadAs(u, d, text) = "local"
      BY <1>3, <1>5 DEF ReadAs
    <3> QED
      BY <3>1 DEF JavaReceiver, LocalMeans
  <2>6. LocalType(d, last, text.pkg, text.imports) = {t}
    BY <1>1, <2>2, <2>5, LocalIsFollowed
  <2> QED
    BY <1>1, <2>4, <2>6
<1>6. ASSUME u.path \notin {<<>>, <<"this">>}, ~ (Len(u.path) = 1 /\ LocalsNamed(d, u.path[1]) # {})
      PROVE  met = {x.qname : x \in java}
  <2>1. ~ IsLocal(d, u.path)
    <3>1. CASE Len(u.path) = 1
      <4>1. LocalsPlain(text, d, u.path[1])
        BY <1>3, <1>6, <3>1 DEF LocalsAreSeen, LocalsPlain
      <4> QED
        BY <1>6, <3>1, <4>1, LocalsAreTyped DEF IsLocal
    <3> QED
      BY <3>1 DEF IsLocal
  <2>2. (fields # {} => u.path \in {<<last>>, <<"this", last>>}) /\ \A x \in fields : x.visited
    BY <1>3, <1>6 DEF FieldsAreSeen
  <2>3. /\ Field(own, last) = fields /\ \A x, y \in fields : x = y
        /\ \A x \in fields : x.pkg = text.pkg /\ x.decl.type \in Names \ {<<>>}
    BY <2>2, FieldIsOwn
  <2>4. CASE fields # {}
    <3>1. java = UNION {Meant(x.decl.type) : x \in fields}
      <4>1. ReadAs(u, d, text) = "field"
        BY <1>3, <1>6, <2>2, <2>4 DEF ReadAs
      <4> QED
        BY <4>1 DEF JavaReceiver
    <3>2. PICK x \in fields : fields = {x}
      BY <2>3, <2>4
    <3>3. Meant(x.decl.type) = {t}
      BY <1>1, <3>1, <3>2
    <3>4. Resolve(x.decl.type, x.pkg, text.imports) = {t}
      BY <2>3, <3>3, TypeIsFollowed
    <3>5. UNION {Resolve(y.decl.type, y.pkg, text.imports) : y \in Field(own, last)} = {t}
      BY <2>3, <3>2, <3>4
    <3>6. met = {t.qname}
      BY <1>6, <2>1, <2>3, <2>4, <3>5 DEF Receiver
    <3> QED
      BY <1>1, <3>6
  <2>5. CASE fields = {}
    <3>1. java = Meant(u.path)
      <4>1. ReadAs(u, d, text) = "type"
        BY <1>3, <1>6, <2>5 DEF ReadAs
      <4> QED
        BY <4>1 DEF JavaReceiver
    <3>2. Found(u.path) = {t}
      BY <1>1, <1>2, <1>6, <3>1, TypeIsFollowed
    <3>3. met = {t.qname}
      BY <1>6, <2>1, <2>3, <2>5, <3>2 DEF Receiver
    <3> QED
      BY <1>1, <3>3
  <2> QED
    BY <2>4, <2>5
<1> QED
  BY <1>4, <1>5, <1>6

(* The methods that a use calls in Java.                                   *)
MeantBy(u, d, text) ==
  UNION {IF u.is = "new" THEN JavaMethod(t.qname, t.name, u.args, "constructor")
         ELSE JavaMethod(t.qname, u.name, u.args, "method") : t \in JavaReceiver(u, d, text)}

(* Where all functions of a type are visited, none is missed.              *)
LEMMA MethodsAreVisited ==
  ASSUME NEW o, \A i \in DOMAIN declared :
           declared[i].decl.is \in Routines /\ declared[i].owner = o => declared[i].visited
  PROVE  \A name, arity, is : Method(o, name, arity, is) = JavaMethod(o, name, arity, is)
<1>1. Callable \subseteq Routines
  BY DEF Routines
<1> TAKE name, arity, is
<1> DEFINE IsOne(i) == LET d == declared[i].decl IN
             d.is \in Callable /\ d.is = is /\ declared[i].owner = o /\ declared[i].name = name /\ d.arity = arity
<1>2. {i \in DOMAIN declared : declared[i].visited /\ IsOne(i)} = {i \in DOMAIN declared : IsOne(i)}
  BY <1>1
<1>3. Method(o, name, arity, is) = OnlyIn(declared, {i \in DOMAIN declared : declared[i].visited /\ IsOne(i)})
  BY DEF Method
<1>4. JavaMethod(o, name, arity, is) = OnlyIn(declared, {i \in DOMAIN declared : IsOne(i)})
  BY DEF JavaMethod
<1> HIDE DEF IsOne
<1> QED
  BY <1>2, <1>3, <1>4

LEMMA UseIsFollowed ==
  ASSUME NamesInv, PlainProject, NEW f \in DOMAIN seen, NEW d \in ToSet(seen[f].decls), d.is \in Callable,
         NEW u \in ToSet(d.uses), u.is \in {"call", "new"}, Followed(u, d, seen[f])
  PROVE  CalledBy(u, Around(seen[f], d), d, seen[f].pkg, seen[f].imports) = MeantBy(u, d, seen[f])
<1> DEFINE text == seen[f]
           own == Around(text, d)
<1>0. PICK r \in TypesMet : /\ JavaReceiver(u, d, text) = {r}
                           /\ \A name, arity, is : Method(r.qname, name, arity, is) = JavaMethod(r.qname, name, arity, is)
  BY MethodsAreVisited DEF Followed
<1>1. CASE u.is = "call"
  <2>1. Receiver(own, u, d, text.pkg, text.imports) = {t.qname : t \in JavaReceiver(u, d, text)}
    BY <1>1, ReceiverIsFollowed
  <2>2. CalledBy(u, own, d, text.pkg, text.imports) =
          UNION {Method(o, u.name, u.args, "method") : o \in Receiver(own, u, d, text.pkg, text.imports)}
    BY <1>1 DEF CalledBy
  <2>3. MeantBy(u, d, text) = UNION {JavaMethod(t.qname, u.name, u.args, "method") : t \in JavaReceiver(u, d, text)}
    BY <1>1 DEF MeantBy
  <2> QED
    BY <1>0, <2>1, <2>2, <2>3
<1>2. CASE u.is = "new"
  <2>1. JavaReceiver(u, d, text) = JavaType(u.path, text.pkg, d.in, text.imports)
    BY <1>2 DEF JavaReceiver, ReadAs
  <2>2. u.path \in Names \ {<<>>}
    BY <1>2, EntryOf DEF NamesInv, IsDeclaration
  <2>3. JavaReceiver(u, d, text) # {}
    BY <1>0
  <2>4. Resolve(u.path, text.pkg, text.imports) = JavaReceiver(u, d, text)
    BY <2>1, <2>2, <2>3, TypeIsFollowed
  <2>5. CalledBy(u, own, d, text.pkg, text.imports) =
          UNION {Method(t.qname, t.name, u.args, "constructor") : t \in JavaReceiver(u, d, text)}
    BY <1>2, <2>4 DEF CalledBy
  <2>6. MeantBy(u, d, text) = UNION {JavaMethod(t.qname, t.name, u.args, "constructor") : t \in JavaReceiver(u, d, text)}
    BY <1>2 DEF MeantBy
  <2> QED
    BY <1>0, <2>5, <2>6
<1> QED
  BY <1>1, <1>2

LEMMA CallsReach == NamesInv /\ StillInv => CallsReachTheReceiver
<1> SUFFICES ASSUME NamesInv, StillInv, pass = "done", still, PlainProject,
                    NEW f \in DOMAIN seen, NEW d \in ToSet(seen[f].decls), d.is \in Callable,
                    Method(Around(seen[f], d), Name(d), d.arity, d.is) # {},
                    \A u \in {u \in ToSet(d.uses) : u.is \in {"call", "new"}} : Followed(u, d, seen[f])
             PROVE  {r[2] : r \in {r \in index.relations : r[1] = SymbolId(f, seen[f], d) /\ r[3] = "calls"}} =
                      {m.id : m \in UNION {MeantBy(u, d, seen[f]) : u \in {u \in ToSet(d.uses) : u.is \in {"call", "new"}}}}
  BY DEF CallsReachTheReceiver, MeantBy
<1> DEFINE uses == {u \in ToSet(d.uses) : u.is \in {"call", "new"}}
           Called(u) == CalledBy(u, Around(seen[f], d), d, seen[f].pkg, seen[f].imports)
<1>1. Ends(SymbolId(f, seen[f], d), "calls") = {m.id : m \in BodyCalls(seen[f], d)}
  BY EndsAreCalls
<1>2. \A u \in uses : Called(u) = MeantBy(u, d, seen[f])
  BY UseIsFollowed
<1>3. \A u \in ToSet(d.uses) \ uses : Called(u) = {}
  BY DEF CalledBy
<1>4. BodyCalls(seen[f], d) = UNION {Called(u) : u \in ToSet(d.uses)}
  BY DEF BodyCalls
<1> HIDE DEF Called
<1>5. BodyCalls(seen[f], d) = UNION {MeantBy(u, d, seen[f]) : u \in uses}
  BY <1>2, <1>3, <1>4
<1> QED
  BY <1>1, <1>5 DEF Ends

-----------------------------------------------------------------------------
(* Whatever is edited while the files are read, the relations of a type or *)
(* a member that visit reaches end, in a plain project, where Java's       *)
(* scoping rules lead, wherever these lead into the repository             *)
(* (resolve_type_obj, resolve_annotation_symbol; NamesMeanWhatJavaSays).   *)
THEOREM NamesAlwaysMeanWhatJavaSays == SyntaxSpec => []NamesMeanWhatJavaSays
<1>1. SyntaxInit => SyntaxInv /\ NamesInv
  BY SyntaxInvInit, NamesInvInit
<1>2. SyntaxInv /\ NamesInv /\ [SyntaxNext]_syntaxVars => (SyntaxInv /\ NamesInv)'
  BY SyntaxInvNext, NamesInvNext DEF SyntaxInv
<1>3. SyntaxInv /\ NamesInv => NamesMeanWhatJavaSays
  BY NamesMean
<1> QED
  BY <1>1, <1>2, <1>3, PTL DEF SyntaxSpec

(* Where nobody edits, the calls of a method of a plain project are those  *)
(* of the types that its receivers have in Java, provided that the scan    *)
(* can follow them: that it sees the locals and fields they go through and *)
(* has collected their types' methods (scan_references_for_document;       *)
(* CallsReachTheReceiver).                                                 *)
THEOREM CallsAlwaysReachTheReceiver == SyntaxSpec => []CallsReachTheReceiver
<1>1. SyntaxInit => SyntaxInv /\ NamesInv /\ StillInv
  BY SyntaxInvInit, NamesInvInit
<1>2. SyntaxInv /\ NamesInv /\ StillInv /\ [SyntaxNext]_syntaxVars => (SyntaxInv /\ NamesInv /\ StillInv)'
  BY SyntaxInvNext, NamesInvNext, StillInvNext DEF SyntaxInv
<1>3. SyntaxInv /\ NamesInv /\ StillInv => CallsReachTheReceiver
  BY CallsReach
<1> QED
  BY <1>1, <1>2, <1>3, PTL DEF SyntaxSpec

-----------------------------------------------------------------------------
(* Progress: the messages of a build come in the order of the percentages  *)
(* that they stand for.                                                    *)

Messages ==
  [phase : {"pipeline.stage", "build_chunks.start", "build_chunks.progress", "build_chunks.done",
            "embed.start", "embed.progress", "embed.done"},
   stage : {"", "scip_java", "ingest", "build_code_graph", "chunk", "embed"},
   status : {"", "start", "done"}, current : Nat, total : Nat \cup {NoTotal}]

(* Messages of the code graph leave the percentage alone.                  *)
Tells(m) == m.phase = "pipeline.stage" => m.stage # "build_code_graph"
Mark(m) == Clamped(PhasePercent(m, 0))

Rising(s, low, high) ==
  \A i \in DOMAIN s : Tells(s[i]) =>
    /\ low <= Mark(s[i]) /\ Mark(s[i]) <= high
    /\ \A j \in DOMAIN s : j < i /\ Tells(s[j]) => Mark(s[j]) <= Mark(s[i])

ProgressInv ==
  /\ DOMAIN record = {"status", "stage", "percent", "messages"}
  /\ record.percent \in 0..Hundred
  /\ record.status = "queued" => record.percent = 0
  /\ script \in Seq(Messages)
  /\ record.status = "running" => Rising(script, record.percent, Hundred)

LEMMA DivIsMonotone ==
  ASSUME NEW a \in Nat, NEW b \in Nat, NEW d \in Nat \ {0}, a <= b
  PROVE  a \div d \in Nat /\ a \div d <= b \div d
<1> DEFINE q == a \div d
           r == b \div d
<1>1. q \in Nat /\ r \in Nat /\ d * q <= a /\ b < d * (r + 1)
  OBVIOUS
<1> HIDE DEF q, r
<1>2. SUFFICES ASSUME r + 1 <= q PROVE FALSE
  BY <1>1 DEF q, r
<1>3. d * (r + 1) <= d * q
  BY <1>1, <1>2
<1> QED
  BY <1>1, <1>3

LEMMA DivOfMultiple ==
  ASSUME NEW k \in Nat, NEW d \in Nat \ {0}
  PROVE  (k * d) \div d = k
  OBVIOUS

(* What a message does to a percentage.                                    *)
LEMMA MarkIsReached ==
  ASSUME NEW m \in Messages, NEW p \in 0..Hundred
  PROVE  /\ Mark(m) \in 0..Hundred
         /\ p <= Mark(m) => Clamped(PhasePercent(m, p)) = Mark(m)
         /\ ~Tells(m) => Clamped(PhasePercent(m, p)) = p
<1>11. ASSUME ~Tells(m) PROVE Clamped(PhasePercent(m, p)) = p
  <2>1. PhasePercent(m, p) = p
    BY <1>11 DEF Tells, PhasePercent, StagePercent
  <2> QED
    BY <2>1 DEF Clamped, AtLeast, Hundred
<1> SUFFICES /\ Mark(m) \in 0..Hundred
             /\ p <= Mark(m) => Clamped(PhasePercent(m, p)) = Mark(m)
  BY <1>11
<1>1. m.current \in Nat
  BY DEF Messages
<1>10. m.total \in Int /\ m.total >= -1
  <2>1. m.total \in Nat \/ m.total = -1
    BY DEF Messages, NoTotal
  <2> QED
    BY <2>1
<1>2. p \in Int /\ 0 <= p /\ p <= 10000 /\ Hundred = 10000
  BY DEF Hundred
<1>3. /\ \A x \in Int : Clamped(x) \in 0..Hundred
      /\ \A x \in 0..Hundred : Clamped(x) = x
  <2>1. ASSUME NEW x \in Int PROVE Clamped(x) \in 0..Hundred
    BY DEF Clamped, AtLeast, Hundred
  <2>2. ASSUME NEW x \in 0..Hundred PROVE Clamped(x) = x
    BY DEF Clamped, AtLeast, Hundred
  <2> QED
    BY <2>1, <2>2
<1>4. CASE m.phase = "pipeline.stage"
  <2>1. CASE m.stage = "scip_java"
    BY <1>2, <1>4, <2>1 DEF Mark, Clamped, PhasePercent, StagePercent, AtLeast
  <2>2. CASE m.stage = "ingest"
    BY <1>2, <1>4, <2>2 DEF Mark, Clamped, PhasePercent, StagePercent, AtLeast
  <2>3. CASE m.stage = "chunk"
    BY <1>2, <1>4, <2>3 DEF Mark, Clamped, PhasePercent, StagePercent, AtLeast
  <2>4. CASE m.stage = "embed"
    BY <1>2, <1>4, <2>4 DEF Mark, Clamped, PhasePercent, StagePercent, AtLeast
  <2>5. CASE m.stage \notin {"scip_java", "ingest", "chunk", "embed"}
    BY <1>2, <1>4, <2>5 DEF Mark, Clamped, PhasePercent, StagePercent, AtLeast
  <2> QED
    BY <2>1, <2>2, <2>3, <2>4, <2>5
<1>5. CASE m.phase \in {"build_chunks.start", "build_chunks.done", "embed.start", "embed.done"}
  <2>1. CASE m.phase = "build_chunks.start"
    BY <1>2, <2>1 DEF Mark, Clamped, PhasePercent, AtLeast
  <2>2. CASE m.phase = "build_chunks.done"
    BY <1>2, <2>2 DEF Mark, Clamped, PhasePercent, AtLeast
  <2>3. CASE m.phase = "embed.start"
    BY <1>2, <2>3 DEF Mark, Clamped, PhasePercent, AtLeast
  <2>4. CASE m.phase = "embed.done"
    BY <1>2, <2>4 DEF Mark, Clamped, PhasePercent, AtLeast
  <2> QED
    BY <1>5, <2>1, <2>2, <2>3, <2>4
<1>6. CASE m.phase = "build_chunks.progress" /\ m.total > 0
  <2>1. (4000 * m.current) \div m.total \in Int
    BY <1>1, <1>10, <1>6
  <2>2. \A x \in 0..Hundred : PhasePercent(m, x) = 3000 + (4000 * m.current) \div m.total
    BY <1>6 DEF PhasePercent
  <2>3. 0 \in 0..Hundred
    BY DEF Hundred
  <2>4. Mark(m) = Clamped(PhasePercent(m, p))
    BY <2>2, <2>3 DEF Mark
  <2> DEFINE v == (4000 * m.current) \div m.total
  <2>5. 3000 + v \in Int
    BY <2>1
  <2> HIDE DEF v
  <2>6. Mark(m) = Clamped(3000 + v)
    BY <2>2, <2>3 DEF Mark, v
  <2> QED
    BY <1>3, <1>6, <2>4, <2>5, <2>6
<1>7. CASE m.phase = "embed.progress" /\ m.total > 0
  <2>1. (3000 * m.current) \div m.total \in Int
    BY <1>1, <1>10, <1>7
  <2>2. \A x \in 0..Hundred : PhasePercent(m, x) = 7000 + (3000 * m.current) \div m.total
    BY <1>7 DEF PhasePercent
  <2>3. 0 \in 0..Hundred
    BY DEF Hundred
  <2>4. Mark(m) = Clamped(PhasePercent(m, p))
    BY <2>2, <2>3 DEF Mark
  <2> DEFINE v == (3000 * m.current) \div m.total
  <2>5. 7000 + v \in Int
    BY <2>1
  <2> HIDE DEF v
  <2>6. Mark(m) = Clamped(7000 + v)
    BY <2>2, <2>3 DEF Mark, v
  <2> QED
    BY <1>3, <1>7, <2>4, <2>5, <2>6
<1>8. CASE m.phase \in {"build_chunks.progress", "embed.progress"} /\ ~(m.total > 0)
  <2>1. \A x \in 0..Hundred : PhasePercent(m, x) = x
    BY <1>8 DEF PhasePercent
  <2>2. 0 \in 0..Hundred
    BY DEF Hundred
  <2>3. Mark(m) = 0
    BY <1>3, <2>1, <2>2 DEF Mark
  <2> QED
    BY <1>2, <1>3, <1>8, <2>1, <2>3
<1>9. m.phase \in {"pipeline.stage", "build_chunks.start", "build_chunks.progress", "build_chunks.done",
                   "embed.start", "embed.progress", "embed.done"}
  BY DEF Messages
<1> QED
  BY <1>4, <1>5, <1>6, <1>7, <1>8, <1>9

LEMMA TailRises ==
  ASSUME NEW s \in Seq(Messages), s # <<>>, NEW low \in Int, NEW high \in Int, Rising(s, low, high)
  PROVE  /\ Head(s) \in Messages /\ Tail(s) \in Seq(Messages)
         /\ Rising(Tail(s), low, high)
         /\ Tells(Head(s)) => low <= Mark(Head(s)) /\ Mark(Head(s)) <= high /\ Rising(Tail(s), Mark(Head(s)), high)
<1>1. Head(s) = s[1] /\ s[1] \in Messages /\ 1 \in DOMAIN s /\ Tail(s) \in Seq(Messages)
  BY HeadTailProperties, ElementOfSeq
<1>2. \A i \in DOMAIN Tail(s) : i + 1 \in DOMAIN s /\ Tail(s)[i] = s[i + 1] /\ i \in Nat /\ 1 < i + 1
  BY HeadTailProperties
<1>3. \A i, j \in DOMAIN Tail(s) : j < i => j + 1 < i + 1
  BY <1>2
<1>4. Rising(Tail(s), low, high)
  BY <1>2, <1>3 DEF Rising
<1>5. Tells(s[1]) => low <= Mark(s[1]) /\ Mark(s[1]) <= high
  BY <1>1 DEF Rising
<1>6. Tells(s[1]) => \A i \in DOMAIN Tail(s) : Tells(Tail(s)[i]) => Mark(s[1]) <= Mark(Tail(s)[i])
  BY <1>1, <1>2 DEF Rising
<1>7. Tells(s[1]) => Rising(Tail(s), Mark(s[1]), high)
  BY <1>4, <1>6 DEF Rising
<1> QED
  BY <1>1, <1>4, <1>5, <1>7

(* Messages that follow higher ones.                                       *)
LEMMA JoinedRise ==
  ASSUME NEW s \in Seq(Messages), NEW t \in Seq(Messages),
         NEW low \in Int, NEW mid \in Int, NEW high \in Int, low <= mid, mid <= high,
         Rising(s, low, mid), Rising(t, mid, high)
  PROVE  s \o t \in Seq(Messages) /\ Rising(s \o t, low, high)
<1>1. s \o t \in Seq(Messages) /\ DOMAIN (s \o t) = 1..(Len(s) + Len(t)) /\ DOMAIN s = 1..Len(s) /\ DOMAIN t = 1..Len(t)
      /\ Len(s) \in Nat /\ Len(t) \in Nat
  BY ConcatProperties, LenProperties
<1>2. \A i \in 1..(Len(s) + Len(t)) : (s \o t)[i] = IF i <= Len(s) THEN s[i] ELSE t[i - Len(s)]
  BY ConcatProperties
<1>3. \A m \in Messages : Mark(m) \in Int
  <2>1. 0 \in 0..Hundred /\ 0..Hundred \subseteq Int
    BY DEF Hundred
  <2> QED
    BY <2>1, MarkIsReached
<1>4. /\ \A i \in DOMAIN s : s[i] \in Messages
      /\ \A i \in DOMAIN t : t[i] \in Messages
  BY ElementOfSeq, <1>1
<1> SUFFICES ASSUME NEW i \in DOMAIN (s \o t), Tells((s \o t)[i])
             PROVE  /\ low <= Mark((s \o t)[i]) /\ Mark((s \o t)[i]) <= high
                    /\ \A j \in DOMAIN (s \o t) :
                         j < i /\ Tells((s \o t)[j]) => Mark((s \o t)[j]) <= Mark((s \o t)[i])
  BY <1>1 DEF Rising
<1>5. CASE i <= Len(s)
  <2>1. i \in DOMAIN s /\ (s \o t)[i] = s[i] /\ \A j \in DOMAIN (s \o t) : j < i => j \in DOMAIN s /\ (s \o t)[j] = s[j]
    BY <1>1, <1>2, <1>5
  <2>2. Mark(s[i]) \in Int /\ low <= Mark(s[i]) /\ Mark(s[i]) <= mid
    BY <1>3, <1>4, <2>1 DEF Rising
  <2>3. \A j \in DOMAIN s : j < i /\ Tells(s[j]) => Mark(s[j]) <= Mark(s[i])
    BY <2>1 DEF Rising
  <2> HIDE DEF Mark, Tells
  <2>4. Mark(s[i]) <= high
    BY <2>2
  <2> QED
    BY <2>1, <2>2, <2>3, <2>4
<1>6. CASE ~(i <= Len(s))
  <2> DEFINE k == i - Len(s)
  <2>1. k \in DOMAIN t /\ (s \o t)[i] = t[k]
    BY <1>1, <1>2, <1>6
  <2>2. \A j \in DOMAIN (s \o t) : j < i =>
          \/ j \in DOMAIN s /\ (s \o t)[j] = s[j]
          \/ j - Len(s) \in DOMAIN t /\ j - Len(s) < k /\ (s \o t)[j] = t[j - Len(s)]
    BY <1>1, <1>2, <1>6
  <2> HIDE DEF k, Mark, Tells
  <2>3. Tells(t[k]) /\ Mark(t[k]) \in Int /\ mid <= Mark(t[k]) /\ Mark(t[k]) <= high
    BY <1>3, <1>4, <2>1 DEF Rising
  <2>4. low <= Mark(t[k])
    BY <2>3
  <2>5. \A j \in DOMAIN s : Tells(s[j]) => Mark(s[j]) \in Int /\ Mark(s[j]) <= mid
    BY <1>3, <1>4 DEF Rising
  <2>6. \A j \in DOMAIN s : Tells(s[j]) => Mark(s[j]) <= Mark(t[k])
    BY <2>3, <2>5
  <2>7. \A j \in DOMAIN t : j < k /\ Tells(t[j]) => Mark(t[j]) <= Mark(t[k])
    BY <2>1, <2>3 DEF Rising
  <2> QED
    BY <2>1, <2>2, <2>3, <2>4, <2>6, <2>7
<1> QED
  BY <1>5, <1>6

(* The percentages of the messages of a build.                             *)
LEMMA Marks ==
  /\ \A stage \in {"scip_java", "ingest", "build_code_graph", "chunk", "embed"}, status \in {"start", "done"} :
       StageMessage(stage, status) \in Messages
  /\ \A phase \in {"build_chunks.start", "build_chunks.done", "embed.start", "embed.done"} : Bare(phase) \in Messages
  /\ Mark(StageMessage("scip_java", "start")) = 200 /\ Mark(StageMessage("scip_java", "done")) = 1500
  /\ Mark(StageMessage("ingest", "start")) = 1500 /\ Mark(StageMessage("ingest", "done")) = 3000
  /\ Mark(StageMessage("chunk", "start")) = 3000 /\ Mark(StageMessage("chunk", "done")) = 7000
  /\ Mark(StageMessage("embed", "start")) = 7000 /\ Mark(StageMessage("embed", "done")) = Hundred
  /\ Mark(Bare("build_chunks.start")) = 3000 /\ Mark(Bare("build_chunks.done")) = 7000
  /\ Mark(Bare("embed.start")) = 7000 /\ Mark(Bare("embed.done")) = Hundred
  /\ \A status : ~Tells(StageMessage("build_code_graph", status))
<1>1. \A stage \in {"scip_java", "ingest", "build_code_graph", "chunk", "embed"}, status \in {"start", "done"} :
        StageMessage(stage, status) \in Messages
  BY DEF StageMessage, Messages, NoTotal
<1>2. \A phase \in {"build_chunks.start", "build_chunks.done", "embed.start", "embed.done"} : Bare(phase) \in Messages
  BY DEF Bare, Messages, NoTotal
<1>3. Mark(StageMessage("scip_java", "start")) = 200 /\ Mark(StageMessage("scip_java", "done")) = 1500
  BY DEF Mark, StageMessage, PhasePercent, StagePercent, Clamped, AtLeast, Hundred
<1>4. Mark(StageMessage("ingest", "start")) = 1500 /\ Mark(StageMessage("ingest", "done")) = 3000
  BY DEF Mark, StageMessage, PhasePercent, StagePercent, Clamped, AtLeast, Hundred
<1>5. Mark(StageMessage("chunk", "start")) = 3000 /\ Mark(StageMessage("chunk", "done")) = 7000
  BY DEF Mark, StageMessage, PhasePercent, StagePercent, Clamped, AtLeast, Hundred
<1>6. Mark(StageMessage("embed", "start")) = 7000 /\ Mark(StageMessage("embed", "done")) = Hundred
  BY DEF Mark, StageMessage, PhasePercent, StagePercent, Clamped, AtLeast, Hundred
<1>7. Mark(Bare("build_chunks.start")) = 3000 /\ Mark(Bare("build_chunks.done")) = 7000
  BY DEF Mark, Bare, PhasePercent, Clamped, AtLeast, Hundred
<1>8. Mark(Bare("embed.start")) = 7000 /\ Mark(Bare("embed.done")) = Hundred
  BY DEF Mark, Bare, PhasePercent, Clamped, AtLeast, Hundred
<1>9. \A status : ~Tells(StageMessage("build_code_graph", status))
  BY DEF Tells, StageMessage
<1> QED
  BY <1>1, <1>2, <1>3, <1>4, <1>5, <1>6, <1>7, <1>8, <1>9

LEMMA OneRises ==
  ASSUME NEW m \in Messages, NEW low \in Int, NEW high \in Int, Tells(m) => low <= Mark(m) /\ Mark(m) <= high
  PROVE  <<m>> \in Seq(Messages) /\ Rising(<<m>>, low, high)
<1>1. <<m>> \in Seq(Messages) /\ DOMAIN <<m>> = 1..1 /\ <<m>>[1] = m
  OBVIOUS
<1>2. \A i \in 1..1 : i = 1 /\ ~(i < 1)
  OBVIOUS
<1> QED
  BY <1>1, <1>2 DEF Rising

LEMMA ClampedRises ==
  ASSUME NEW x \in Int, NEW y \in Int, x <= y
  PROVE  Clamped(x) <= Clamped(y)
BY DEF Clamped, AtLeast, Hundred

LEMMA CountedSays ==
  ASSUME NEW phase, NEW current, NEW total
  PROVE  LET m == Counted(phase, current, total) IN m.phase = phase /\ m.current = current /\ m.total = total
BY DEF Counted

(* Every document of a build is told of once, at most.                     *)
LEMMA DocumentsRise ==
  ASSUME NEW docs \in Nat
  PROVE  LET s == [n \in 1..docs |-> Counted("build_chunks.progress", n, docs)] IN
         s \in Seq(Messages) /\ Rising(s, 3000, 7000)
<1> DEFINE s == [n \in 1..docs |-> Counted("build_chunks.progress", n, docs)]
           v(n) == (4000 * n) \div docs
<1>1. \A n \in 1..docs : n \in Nat /\ s[n] \in Messages
  BY DEF Counted, Messages
<1>2. s \in Seq(Messages) /\ DOMAIN s = 1..docs
  <2>1. s \in [1..docs -> Messages]
    BY <1>1
  <2> HIDE DEF s
  <2> QED
    BY <2>1, SeqDef
<1>3. \A n \in 1..docs : PhasePercent(s[n], 0) = 3000 + v(n)
  <2> SUFFICES ASSUME NEW n \in 1..docs PROVE PhasePercent(s[n], 0) = 3000 + v(n)
    OBVIOUS
  <2>1. s[n].phase = "build_chunks.progress" /\ s[n].current = n /\ s[n].total = docs
    BY CountedSays
  <2>3. docs > 0
    OBVIOUS
  <2> HIDE DEF s
  <2>2. PhasePercent(s[n], 0) = 3000 + (4000 * s[n].current) \div s[n].total
    BY <2>1, <2>3 DEF PhasePercent
  <2> QED
    BY <2>1, <2>2 DEF Mark
<1>4. \A k, n \in 1..docs : k <= n => v(k) \in Nat /\ v(n) \in Nat /\ v(k) <= v(n) /\ v(n) <= 4000
  <2> SUFFICES ASSUME NEW k \in 1..docs, NEW n \in 1..docs, k <= n
               PROVE  v(k) \in Nat /\ v(n) \in Nat /\ v(k) <= v(n) /\ v(n) <= 4000
    OBVIOUS
  <2>1. docs \in Nat \ {0} /\ 4000 * k \in Nat /\ 4000 * n \in Nat /\ 4000 * docs \in Nat
        /\ 4000 * k <= 4000 * n /\ 4000 * n <= 4000 * docs
    OBVIOUS
  <2>2. v(docs) = 4000
    BY <2>1, DivOfMultiple
  <2>3. v(k) \in Nat /\ v(k) <= v(n)
    BY <2>1, DivIsMonotone
  <2>4. v(n) \in Nat /\ v(n) <= v(docs)
    BY <2>1, DivIsMonotone
  <2> QED
    BY <2>2, <2>3, <2>4
<1> HIDE DEF v
<1>5. \A n \in 1..docs : v(n) \in Nat /\ Mark(s[n]) = 3000 + v(n) /\ 3000 <= Mark(s[n]) /\ Mark(s[n]) <= 7000
  <2> SUFFICES ASSUME NEW n \in 1..docs
               PROVE  v(n) \in Nat /\ Mark(s[n]) = 3000 + v(n) /\ 3000 <= Mark(s[n]) /\ Mark(s[n]) <= 7000
    OBVIOUS
  <2>1. v(n) \in Nat /\ v(n) <= 4000
    BY <1>4
  <2>2. Clamped(3000 + v(n)) = 3000 + v(n)
    BY <2>1 DEF Clamped, AtLeast, Hundred
  <2>3. Mark(s[n]) = 3000 + v(n)
    BY <1>3, <2>2 DEF Mark
  <2> QED
    BY <2>1, <2>3
<1>6. \A k, n \in 1..docs : k < n => Mark(s[k]) <= Mark(s[n])
  <2> SUFFICES ASSUME NEW k \in 1..docs, NEW n \in 1..docs, k < n
               PROVE  Mark(s[k]) <= Mark(s[n])
    OBVIOUS
  <2>1. v(k) \in Nat /\ v(n) \in Nat /\ v(k) <= v(n)
    BY <1>4
  <2>2. Mark(s[k]) = 3000 + v(k) /\ Mark(s[n]) = 3000 + v(n)
    BY <1>5
  <2> HIDE DEF s
  <2> QED
    BY <2>1, <2>2
<1> HIDE DEF s
<1>7. Rising(s, 3000, 7000)
  BY <1>2, <1>5, <1>6 DEF Rising
<1> QED
  BY <1>2, <1>7 DEF s

(* However many batches come, and however few were announced.              *)
LEMMA BatchesRise ==
  ASSUME NEW made \in Nat, NEW announced \in Nat \ {0}
  PROVE  LET s == [n \in 1..made |-> Counted("embed.progress", n, announced)] IN
         s \in Seq(Messages) /\ Rising(s, 7000, Hundred)
<1> DEFINE s == [n \in 1..made |-> Counted("embed.progress", n, announced)]
           v(n) == (3000 * n) \div announced
<1>1. \A n \in 1..made : n \in Nat /\ s[n] \in Messages
  BY DEF Counted, Messages
<1>2. s \in Seq(Messages) /\ DOMAIN s = 1..made
  <2>1. s \in [1..made -> Messages]
    BY <1>1
  <2> HIDE DEF s
  <2> QED
    BY <2>1, SeqDef
<1>3. \A n \in 1..made : Mark(s[n]) = Clamped(7000 + v(n))
  <2> SUFFICES ASSUME NEW n \in 1..made PROVE Mark(s[n]) = Clamped(7000 + v(n))
    OBVIOUS
  <2>1. s[n].phase = "embed.progress" /\ s[n].current = n /\ s[n].total = announced
    BY CountedSays
  <2>3. announced > 0
    OBVIOUS
  <2> HIDE DEF s
  <2>2. PhasePercent(s[n], 0) = 7000 + (3000 * s[n].current) \div s[n].total
    BY <2>1, <2>3 DEF PhasePercent
  <2> QED
    BY <2>1, <2>2 DEF Mark
<1>4. \A k, n \in 1..made : k <= n => v(k) \in Nat /\ v(n) \in Nat /\ v(k) <= v(n)
  <2> SUFFICES ASSUME NEW k \in 1..made, NEW n \in 1..made, k <= n
               PROVE  v(k) \in Nat /\ v(n) \in Nat /\ v(k) <= v(n)
    OBVIOUS
  <2>1. 3000 * k \in Nat /\ 3000 * n \in Nat /\ 3000 * k <= 3000 * n
    OBVIOUS
  <2>2. v(k) \in Nat /\ v(k) <= v(n)
    BY <2>1, DivIsMonotone
  <2>3. v(n) \in Nat
    BY <2>1, DivIsMonotone
  <2> QED
    BY <2>2, <2>3
<1> HIDE DEF v
<1>5. \A n \in 1..made : 7000 <= Mark(s[n]) /\ Mark(s[n]) <= Hundred
  <2> SUFFICES ASSUME NEW n \in 1..made
               PROVE  7000 <= Mark(s[n]) /\ Mark(s[n]) <= Hundred
    OBVIOUS
  <2>1. v(n) \in Nat
    BY <1>4
  <2>2. 7000 <= Clamped(7000 + v(n)) /\ Clamped(7000 + v(n)) <= Hundred
    BY <2>1 DEF Clamped, AtLeast, Hundred
  <2> QED
    BY <1>3, <2>2
<1>6. \A k, n \in 1..made : k < n => Mark(s[k]) <= Mark(s[n])
  <2> SUFFICES ASSUME NEW k \in 1..made, NEW n \in 1..made, k < n
               PROVE  Mark(s[k]) <= Mark(s[n])
    OBVIOUS
  <2>1. v(k) \in Nat /\ v(n) \in Nat /\ v(k) <= v(n)
    BY <1>4
  <2>2. Clamped(7000 + v(k)) <= Clamped(7000 + v(n))
    BY <2>1, ClampedRises
  <2> QED
    BY <1>3, <2>2
<1> HIDE DEF s
<1>7. Rising(s, 7000, Hundred)
  BY <1>2, <1>5, <1>6 DEF Rising
<1> QED
  BY <1>2, <1>7 DEF s

LEMMA MadeAreCounted ==
  ASSUME NEW chunks \in Nat
  PROVE  Made(chunks) \in Nat /\ (chunks # 0 => Announced(chunks) \in Nat \ {0})
<1>1. BatchSize \in Nat \ {0} /\ FetchLimit \in Nat \ {0}
  BY ProgressAssumption
<1>2. ASSUME NEW a \in Nat PROVE Ceil(a, BatchSize) \in Nat
  <2>1. a + BatchSize - 1 \in Nat
    BY <1>1
  <2> QED
    BY <1>1, <2>1, DivIsMonotone DEF Ceil
<1>3. chunks % FetchLimit \in Nat /\ chunks \div FetchLimit \in Nat
  BY <1>1
<1>4. Made(chunks) \in Nat
  <2> DEFINE a == chunks \div FetchLimit
             b == Ceil(FetchLimit, BatchSize)
             c == Ceil(chunks % FetchLimit, BatchSize)
  <2>1. a \in Nat /\ b \in Nat /\ c \in Nat
    BY <1>1, <1>2, <1>3
  <2>2. Made(chunks) = a * b + c
    BY DEF Made
  <2> HIDE DEF a, b, c
  <2> QED
    BY <2>1, <2>2
<1>5. ASSUME chunks # 0 PROVE Announced(chunks) # 0
  <2>1. BatchSize \in Nat /\ chunks + BatchSize - 1 \in Nat /\ BatchSize <= chunks + BatchSize - 1
    BY <1>1, <1>5
  <2>2. (1 * BatchSize) \div BatchSize = 1 /\ 1 * BatchSize = BatchSize
    BY <1>1, DivOfMultiple
  <2>3. BatchSize \div BatchSize <= (chunks + BatchSize - 1) \div BatchSize
    BY <1>1, <2>1, DivIsMonotone
  <2>4. Announced(chunks) = (chunks + BatchSize - 1) \div BatchSize
    BY DEF Announced, Ceil
  <2> QED
    BY <2>2, <2>3, <2>4
<1>6. Announced(chunks) \in Nat
  BY <1>2 DEF Announced
<1> QED
  BY <1>4, <1>5, <1>6

LEMMA NothingRises ==
  ASSUME NEW low \in Int, NEW high \in Int
  PROVE  <<>> \in Seq(Messages) /\ Rising(<<>>, low, high)
BY DEF Rising

LEMMA ScriptRises ==
  ASSUME NEW scipJava \in BOOLEAN, NEW graph \in BOOLEAN, NEW docs \in Nat, NEW chunks \in Nat
  PROVE  LET s == Script(scipJava, graph, docs, chunks) IN s \in Seq(Messages) /\ Rising(s, 0, Hundred)
<1> DEFINE Runs(s, low, high) == s \in Seq(Messages) /\ Rising(s, low, high)
<1>1. ASSUME NEW s, NEW t, NEW low \in Int, NEW mid \in Int, NEW high \in Int, low <= mid, mid <= high,
             Runs(s, low, mid), Runs(t, mid, high)
      PROVE  Runs(s \o t, low, high)
  BY <1>1, JoinedRise
<1>2. ASSUME NEW m \in Messages, NEW low \in Int, NEW high \in Int, Tells(m) => low <= Mark(m) /\ Mark(m) <= high
      PROVE  Runs(<<m>>, low, high)
  BY <1>2, OneRises
<1>3. Hundred = 10000
  BY DEF Hundred
<1>4. Runs(SourceStages(scipJava), 0, 3000)
  <2> DEFINE a == StageMessage("scip_java", "start")
             b == StageMessage("scip_java", "done")
             c == StageMessage("ingest", "start")
             d == StageMessage("ingest", "done")
             sa == <<a>>
             sb == <<b>>
             sc == <<c>>
             sd == <<d>>
             ab == <<a, b>>
             cd == <<c, d>>
  <2>1. /\ a \in Messages /\ b \in Messages /\ c \in Messages /\ d \in Messages
        /\ Mark(a) = 200 /\ Mark(b) = 1500 /\ Mark(c) = 1500 /\ Mark(d) = 3000
    BY Marks
  <2>2. SourceStages(scipJava) = (IF scipJava THEN ab ELSE <<>>) \o cd
    BY DEF SourceStages
  <2>3. ab = sa \o sb /\ cd = sc \o sd
    OBVIOUS
  <2> HIDE DEF a, b, c, d, Runs
  <2>4. Runs(sa, 0, 200) /\ Runs(sb, 200, 1500) /\ Runs(sc, 1500, 1500) /\ Runs(sd, 1500, 3000)
    BY <1>2, <2>1
  <2> HIDE DEF sa, sb, sc, sd, ab, cd
  <2>9. Runs(sa \o sb, 0, 1500) /\ Runs(sc \o sd, 1500, 3000)
    BY <1>1, <2>4
  <2>5. Runs(ab, 0, 1500)
    BY <2>3, <2>9
  <2>6. Runs(cd, 1500, 3000)
    BY <2>3, <2>9
  <2>7. Runs(<<>>, 0, 1500)
    BY NothingRises DEF Runs
  <2>8. Runs(IF scipJava THEN ab ELSE <<>>, 0, 1500)
    BY <2>5, <2>7
  <2> QED
    BY <1>1, <2>2, <2>6, <2>8
<1>5. Runs(GraphStages(graph), 3000, 3000)
  <2> DEFINE a == StageMessage("build_code_graph", "start")
             b == StageMessage("build_code_graph", "done")
             sa == <<a>>
             sb == <<b>>
             ab == <<a, b>>
  <2>1. a \in Messages /\ b \in Messages /\ ~Tells(a) /\ ~Tells(b)
    BY Marks
  <2>2. GraphStages(graph) = IF graph THEN ab ELSE <<>>
    BY DEF GraphStages
  <2>3. ab = sa \o sb
    OBVIOUS
  <2> HIDE DEF a, b, Runs
  <2>4. Runs(sa, 3000, 3000) /\ Runs(sb, 3000, 3000)
    BY <1>2, <2>1
  <2> HIDE DEF sa, sb, ab
  <2>7. Runs(sa \o sb, 3000, 3000)
    BY <1>1, <2>4
  <2>5. Runs(ab, 3000, 3000)
    BY <2>3, <2>7
  <2>6. Runs(<<>>, 3000, 3000)
    BY NothingRises DEF Runs
  <2> QED
    BY <2>2, <2>5, <2>6
<1>6. Runs(ChunkMessages(docs), 3000, 7000)
  <2> DEFINE s == [n \in 1..docs |-> Counted("build_chunks.progress", n, docs)]
             a == Bare("build_chunks.start")
             b == Bare("build_chunks.done")
             sa == <<a>>
             sb == <<b>>
  <2>1. Runs(s, 3000, 7000)
    BY DocumentsRise
  <2>2. a \in Messages /\ b \in Messages /\ Mark(a) = 3000 /\ Mark(b) = 7000
    BY Marks
  <2>3. ChunkMessages(docs) = sa \o s \o sb
    BY DEF ChunkMessages
  <2> HIDE DEF s, a, b, Runs
  <2>4. Runs(sa, 3000, 3000) /\ Runs(sb, 7000, 7000)
    BY <1>2, <2>2
  <2> HIDE DEF sa, sb
  <2>5. Runs(sa \o s, 3000, 7000)
    BY <1>1, <2>1, <2>4
  <2>6. Runs(sa \o s \o sb, 3000, 7000)
    BY <1>1, <2>4, <2>5
  <2> QED
    BY <2>3, <2>6
<1>7. Runs(EmbedMessages(chunks), 7000, 10000)
  <2> DEFINE made == Made(chunks)
             announced == Announced(chunks)
             s == [n \in 1..made |-> Counted("embed.progress", n, announced)]
             a == Bare("embed.start")
             b == Bare("embed.done")
             sa == <<a>>
             sb == <<b>>
  <2>1. a \in Messages /\ b \in Messages /\ Mark(a) = 7000 /\ Mark(b) = 10000
    BY <1>3, Marks
  <2>2. CASE chunks = 0
    <3>1. EmbedMessages(chunks) = <<b>>
      BY <2>2 DEF EmbedMessages
    <3> HIDE DEF a, b, s, Runs
    <3> QED
      BY <1>2, <2>1, <3>1
  <2>3. CASE chunks # 0
    <3>1. made \in Nat /\ announced \in Nat \ {0}
      BY <2>3, MadeAreCounted
    <3>2. EmbedMessages(chunks) = sa \o s \o sb
      BY <2>3 DEF EmbedMessages
    <3> HIDE DEF made, announced
    <3>3. Runs(s, 7000, 10000)
      BY <1>3, <3>1, BatchesRise
    <3> HIDE DEF s, a, b, Runs
    <3>4. Runs(sa, 7000, 7000) /\ Runs(sb, 10000, 10000)
      BY <1>2, <2>1
    <3> HIDE DEF sa, sb
    <3>5. Runs(sa \o s, 7000, 10000)
      BY <1>1, <3>3, <3>4
    <3>6. Runs(sa \o s \o sb, 7000, 10000)
      BY <1>1, <3>4, <3>5
    <3> QED
      BY <3>2, <3>6
  <2> QED
    BY <2>2, <2>3
<1>8. LET c == StageMessage("chunk", "start") d == StageMessage("chunk", "done")
          e == StageMessage("embed", "start") f == StageMessage("embed", "done") IN
      Runs(<<c>>, 3000, 3000) /\ Runs(<<d>>, 7000, 7000) /\ Runs(<<e>>, 7000, 7000) /\ Runs(<<f>>, 10000, 10000)
  <2> DEFINE c == StageMessage("chunk", "start")
             d == StageMessage("chunk", "done")
             e == StageMessage("embed", "start")
             f == StageMessage("embed", "done")
  <2>1. /\ c \in Messages /\ d \in Messages /\ e \in Messages /\ f \in Messages
        /\ Mark(c) = 3000 /\ Mark(d) = 7000 /\ Mark(e) = 7000 /\ Mark(f) = 10000
    BY <1>3, Marks
  <2> HIDE DEF c, d, e, f, Runs
  <2>2. Runs(<<c>>, 3000, 3000) /\ Runs(<<d>>, 7000, 7000) /\ Runs(<<e>>, 7000, 7000) /\ Runs(<<f>>, 10000, 10000)
    BY <1>2, <2>1
  <2> QED
    BY <2>2 DEF c, d, e, f
<1> DEFINE c == <<StageMessage("chunk", "start")>>
           d == <<StageMessage("chunk", "done")>>
           e == <<StageMessage("embed", "start")>>
           f == <<StageMessage("embed", "done")>>
           A == SourceStages(scipJava)
           B == GraphStages(graph)
           C == ChunkMessages(docs)
           E == EmbedMessages(chunks)
<1>9. Script(scipJava, graph, docs, chunks) = A \o B \o c \o C \o d \o e \o E \o f
  BY DEF Script
<1>10. Runs(A, 0, 3000) /\ Runs(B, 3000, 3000) /\ Runs(c, 3000, 3000) /\ Runs(C, 3000, 7000)
       /\ Runs(d, 7000, 7000) /\ Runs(e, 7000, 7000) /\ Runs(E, 7000, 10000) /\ Runs(f, 10000, 10000)
  BY <1>4, <1>5, <1>6, <1>7, <1>8
<1> HIDE DEF A, B, C, E, c, d, e, f, Runs
<1>11. Runs(A \o B, 0, 3000)
  BY <1>1, <1>10
<1>12. Runs(A \o B \o c, 0, 3000)
  BY <1>1, <1>10, <1>11
<1>13. Runs(A \o B \o c \o C, 0, 7000)
  BY <1>1, <1>10, <1>12
<1>14. Runs(A \o B \o c \o C \o d, 0, 7000)
  BY <1>1, <1>10, <1>13
<1>15. Runs(A \o B \o c \o C \o d \o e, 0, 7000)
  BY <1>1, <1>10, <1>14
<1>16. Runs(A \o B \o c \o C \o d \o e \o E, 0, 10000)
  BY <1>1, <1>10, <1>15
<1>17. Runs(A \o B \o c \o C \o d \o e \o E \o f, 0, 10000)
  BY <1>1, <1>10, <1>16
<1> QED
  BY <1>3, <1>9, <1>17 DEF Runs

-----------------------------------------------------------------------------
LEMMA ProgressInvInit == ProgressInit => ProgressInv
<1> SUFFICES ASSUME ProgressInit PROVE ProgressInv
  OBVIOUS
<1>1. script \in Seq(Messages)
  BY EmptySeq DEF ProgressInit
<1> QED
  BY <1>1 DEF ProgressInit, ProgressInv, Hundred

(* The step that every message takes is one up, or none.                   *)
LEMMA ProgressInvNext ==
  ASSUME ProgressInv, [ProgressNext]_progressVars
  PROVE  /\ ProgressInv'
         /\ \/ UNCHANGED progressVars
            \/ record'.percent >= record.percent /\ (record'.status = "succeeded" => record'.percent = Hundred)
<1>9. record.percent \in 0..Hundred
  BY DEF ProgressInv
<1>10. /\ 0 \in 0..Hundred /\ Hundred \in 0..Hundred /\ Hundred \in Int
       /\ \A n \in 0..Hundred : n \in Int /\ n <= Hundred /\ n >= n
  BY DEF Hundred
<1>1. record.percent \in Int /\ record.percent \in 0..Hundred /\ 0 \in 0..Hundred /\ Hundred \in 0..Hundred /\ Hundred \in Int
      /\ record.percent <= Hundred /\ record.percent >= record.percent
  BY <1>9, <1>10
<1>2. ASSUME NEW scipJava \in BOOLEAN, NEW graph \in BOOLEAN, NEW docs \in Docs, NEW chunks \in Pending,
             SetRunning(scipJava, graph, docs, chunks)
      PROVE  /\ ProgressInv' /\ record'.percent = record.percent /\ record'.status = "running"
  <2>1. docs \in Nat /\ chunks \in Nat
    BY ProgressAssumption
  <2>2. script' \in Seq(Messages) /\ Rising(script', 0, Hundred)
    BY <1>2, <2>1, ScriptRises DEF SetRunning
  <2>3. /\ DOMAIN record' = {"status", "stage", "percent", "messages"}
        /\ record'.percent = record.percent /\ record'.status = "running" /\ record.percent = 0
    BY <1>2 DEF SetRunning, ProgressInv
  <2> QED
    BY <1>1, <2>2, <2>3 DEF ProgressInv
<1>3. ASSUME Apply
      PROVE  ProgressInv' /\ record'.percent >= record.percent /\ record'.status = "running"
  <2> DEFINE m == Head(script)
             p == record.percent
             q == Clamped(PhasePercent(m, p))
  <2>1. /\ record.status = "running" /\ script # <<>> /\ script' = Tail(script)
        /\ script \in Seq(Messages) /\ Rising(script, p, Hundred)
    BY <1>3 DEF Apply, ProgressInv
  <2>2. /\ DOMAIN record' = {"status", "stage", "percent", "messages"}
        /\ record'.status = "running" /\ record'.percent = q
    BY <1>3, <2>1 DEF Apply, ProgressInv
  <2> HIDE DEF m, p
  <2>3. /\ m \in Messages /\ script' \in Seq(Messages) /\ Rising(script', p, Hundred)
        /\ Tells(m) => p <= Mark(m) /\ Rising(script', Mark(m), Hundred)
    BY <1>1, <2>1, TailRises DEF m, p
  <2>4. /\ Mark(m) \in 0..Hundred
        /\ p <= Mark(m) => q = Mark(m)
        /\ ~Tells(m) => q = p
    BY <1>1, <2>3, MarkIsReached DEF p
  <2> HIDE DEF q
  <2>5. q \in 0..Hundred /\ p <= q /\ Rising(script', q, Hundred)
    BY <1>1, <2>3, <2>4 DEF p
  <2>6. q \in Int
    BY <2>5, <1>1
  <2>7. record'.percent >= record.percent
    BY <1>1, <2>2, <2>5, <2>6 DEF p
  <2> QED
    BY <2>2, <2>3, <2>5, <2>7 DEF ProgressInv
<1>4. ASSUME Skip PROVE ProgressInv' /\ record'.percent = record.percent /\ record'.status = "running"
  <2>1. /\ record.status = "running" /\ script # <<>> /\ script' = Tail(script) /\ record' = record
        /\ script \in Seq(Messages) /\ Rising(script, record.percent, Hundred)
    BY <1>4 DEF Skip, ProgressInv
  <2>2. script' \in Seq(Messages) /\ Rising(script', record.percent, Hundred)
    BY <1>1, <2>1, TailRises
  <2> QED
    BY <2>1, <2>2 DEF ProgressInv
<1>5. ASSUME Succeed PROVE ProgressInv' /\ record'.percent = Hundred /\ Hundred >= record.percent
  <2>1. /\ DOMAIN record' = {"status", "stage", "percent", "messages"}
        /\ record'.status = "succeeded" /\ record'.percent = Hundred /\ script' = script
    BY <1>5 DEF Succeed, ProgressInv
  <2> QED
    BY <1>1, <2>1 DEF ProgressInv
<1>6. ASSUME Fail PROVE ProgressInv' /\ record'.percent = record.percent /\ record'.status = "failed"
  <2>1. /\ DOMAIN record' = {"status", "stage", "percent", "messages"}
        /\ record'.status = "failed" /\ record'.percent = record.percent /\ script' = <<>>
    BY <1>6 DEF Fail, ProgressInv
  <2>2. script' \in Seq(Messages)
    BY <2>1, EmptySeq
  <2> QED
    BY <1>1, <2>1, <2>2 DEF ProgressInv
<1>7. ASSUME UNCHANGED progressVars PROVE ProgressInv' /\ record' = record
  BY <1>7 DEF progressVars, ProgressInv
<1> QED
  BY <1>1, <1>2, <1>3, <1>4, <1>5, <1>6, <1>7 DEF ProgressNext

(* PercentNeverFalls: a client that polls a job never sees its percentage  *)
(* fall, and a job that succeeded shows one hundred: whatever the numbers  *)
(* of documents and chunks, the sizes of a batch and a page, the stages of *)
(* the backend, and the messages that are left out.                        *)
THEOREM PercentNeverFallsEver == ProgressSpec => PercentNeverFalls
<1>1. ProgressInv /\ [ProgressNext]_progressVars =>
        [/\ record'.percent >= record.percent
         /\ record'.status = "succeeded" => record'.percent = Hundred]_progressVars
  BY ProgressInvNext
<1>2. ProgressInv /\ [ProgressNext]_progressVars => ProgressInv'
  BY ProgressInvNext
<1> QED
  BY <1>1, <1>2, ProgressInvInit, PTL DEF ProgressSpec, PercentNeverFalls

-----------------------------------------------------------------------------
(* The settings of an embedding pipeline.                                  *)

(* The merge n calls above the last one.                                   *)
Merged(n, base, override) ==
  CASE n = 4 -> DeepMerge(base, override)
    [] n = 3 -> MergeSection(base, override)
    [] n = 2 -> MergeLlama(base, override)
    [] n = 1 -> MergeArguments(base, override)
    [] OTHER -> override

(* values is what the merge makes of what is said at a place.              *)
Silent(values, place) == place.said = {} /\ values = place.default
BothSay(n, values, place, b, o) ==
  /\ place.said = {o} /\ place.default = {b} /\ IsDict(o) /\ IsDict(b)
  /\ values = {Dict(Merged(n, b.dict, o.dict))}
Replaced(values, place, o) ==
  /\ place.said = {o} /\ values = {o}
  /\ ~IsDict(o) \/ \A b \in place.default : ~IsDict(b)
Stands(n, values, place) ==
  \/ Silent(values, place)
  \/ \E b, o : BothSay(n, values, place, b, o)
  \/ \E o : Replaced(values, place, o)

LEMMA LeafIsNoDict ==
  ASSUME NEW t
  PROVE  ~IsDict(Leaf(t)) /\ Leaf(t).leaf = t /\ "leaf" \in DOMAIN Leaf(t)
BY DEF IsDict, Leaf

LEMMA NoneIsNoDict ==
  ASSUME NEW v, IsNone(v)
  PROVE  ~IsDict(v)
<1>1. ~IsDict(Null) /\ ~IsDict(Zero)
  BY DEF IsDict, Null, Zero
<1>2. v = Leaf("") \/ v = Null \/ v = Zero
  BY Zenon DEF IsNone
<1>3. \A t : ~IsDict(Leaf(t))
  BY LeafIsNoDict
<1> QED
  BY <1>1, <1>2, <1>3, Zenon

LEMMA DictIsDict ==
  ASSUME NEW f
  PROVE  IsDict(Dict(f)) /\ Dict(f).dict = f
BY DEF IsDict, Dict

MergeShape(m, n, base, override) ==
  /\ DOMAIN m = DOMAIN base \cup DOMAIN override
  /\ \A k \in DOMAIN base \cup DOMAIN override :
       m[k] = IF k \notin DOMAIN override THEN base[k]
              ELSE IF k \in DOMAIN base /\ IsDict(base[k]) /\ IsDict(override[k])
                   THEN Dict(Merged(n, base[k].dict, override[k].dict))
                   ELSE override[k]

LEMMA MergedIs ==
  ASSUME NEW base, NEW override
  PROVE  /\ MergeShape(Merged(4, base, override), 3, base, override)
         /\ MergeShape(Merged(3, base, override), 2, base, override)
         /\ MergeShape(Merged(2, base, override), 1, base, override)
         /\ MergeShape(Merged(1, base, override), 0, base, override)
<1>1. MergeShape(Merged(4, base, override), 3, base, override)
  BY DEF Merged, DeepMerge, Merge, Both, MergeShape
<1>2. MergeShape(Merged(3, base, override), 2, base, override)
  BY DEF Merged, MergeSection, Merge, Both, MergeShape
<1>3. MergeShape(Merged(2, base, override), 1, base, override)
  BY DEF Merged, MergeLlama, Merge, Both, MergeShape
<1>4. MergeShape(Merged(1, base, override), 0, base, override)
  BY DEF Merged, MergeArguments, Merge, Both, MergeShape
<1> QED
  BY <1>1, <1>2, <1>3, <1>4

LEMMA SaidOfOne ==
  ASSUME NEW v, NEW k
  PROVE  Said({v}, k) = IF IsDict(v) /\ k \in DOMAIN v.dict THEN {v.dict[k]} ELSE {}
BY DEF Said

LEMMA SaidOfNone ==
  ASSUME NEW k
  PROVE  Said({}, k) = {}
BY DEF Said

(* One step down: what is found in the merged object is the merge of what  *)
(* is found below.                                                         *)
LEMMA StandsBelow ==
  ASSUME NEW n \in 1..4, NEW values, NEW place, NEW k, Stands(n, values, place)
  PROVE  Stands(n - 1, Said(values, k), Below(place, k))
<1> DEFINE under == Below(place, k)
           found == Said(values, k)
<1>0. /\ under.said = Said(place.said, k)
      /\ under.default = IF \A v \in place.said : IsDict(v) THEN Said(place.default, k) ELSE {}
  BY DEF Below
<1>1. CASE Silent(values, place)
  <2>1. under.said = {} /\ under.default = Said(values, k)
    BY <1>0, <1>1, SaidOfNone DEF Silent
  <2> QED
    BY <2>1 DEF Stands, Silent
<1>2. ASSUME NEW b, NEW o, BothSay(n, values, place, b, o)
      PROVE  Stands(n - 1, found, under)
  <2> DEFINE m == Merged(n, b.dict, o.dict)
  <2>1. MergeShape(m, n - 1, b.dict, o.dict)
    BY MergedIs
  <2>2. under.said = Said({o}, k) /\ under.default = Said({b}, k)
    BY <1>0, <1>2 DEF BothSay
  <2>3. IsDict(o) /\ IsDict(b)
    BY <1>2 DEF BothSay
  <2>4. found = IF k \in DOMAIN m THEN {m[k]} ELSE {}
    BY <1>2, SaidOfOne, DictIsDict DEF BothSay
  <2> HIDE DEF m, found, under
  <2>5. CASE k \notin DOMAIN o.dict
    <3>1. under.said = {} /\ found = under.default
      BY <2>1, <2>2, <2>3, <2>4, <2>5, SaidOfOne DEF MergeShape
    <3> QED
      BY <3>1 DEF Stands, Silent
  <2>6. CASE k \in DOMAIN o.dict /\ k \in DOMAIN b.dict /\ IsDict(b.dict[k]) /\ IsDict(o.dict[k])
    <3>1. /\ under.said = {o.dict[k]} /\ under.default = {b.dict[k]}
          /\ found = {Dict(Merged(n - 1, b.dict[k].dict, o.dict[k].dict))}
      BY <2>1, <2>2, <2>3, <2>4, <2>6, SaidOfOne DEF MergeShape
    <3>2. BothSay(n - 1, found, under, b.dict[k], o.dict[k])
      BY <2>6, <3>1 DEF BothSay
    <3> QED
      BY <3>2 DEF Stands
  <2>7. CASE k \in DOMAIN o.dict /\ ~(k \in DOMAIN b.dict /\ IsDict(b.dict[k]) /\ IsDict(o.dict[k]))
    <3>1. under.said = {o.dict[k]} /\ found = {o.dict[k]}
      BY <2>1, <2>2, <2>3, <2>4, <2>7, SaidOfOne DEF MergeShape
    <3>2. ~IsDict(o.dict[k]) \/ \A c \in under.default : ~IsDict(c)
      <4>1. under.default = IF k \in DOMAIN b.dict THEN {b.dict[k]} ELSE {}
        BY <2>2, <2>3, SaidOfOne
      <4> QED
        BY <2>7, <4>1
    <3>3. Replaced(found, under, o.dict[k])
      BY <3>1, <3>2 DEF Replaced
    <3> QED
      BY <3>3 DEF Stands
  <2> QED
    BY <2>5, <2>6, <2>7 DEF found, under
<1>3. ASSUME NEW o, Replaced(values, place, o)
      PROVE  Stands(n - 1, found, under)
  <2>1. under.said = Said({o}, k) /\ found = Said({o}, k)
    BY <1>0, <1>3 DEF Replaced
  <2>2. under.default = {}
    <3>1. CASE ~IsDict(o)
      BY <1>0, <1>3, <3>1 DEF Replaced
    <3>2. CASE \A b \in place.default : ~IsDict(b)
      BY <1>0, <3>2 DEF Said
    <3> QED
      BY <1>3, <3>1, <3>2 DEF Replaced
  <2> HIDE DEF found, under
  <2>3. CASE Said({o}, k) = {}
    BY <2>1, <2>2, <2>3 DEF Stands, Silent
  <2>4. CASE Said({o}, k) = {o.dict[k]}
    <3>1. Replaced(found, under, o.dict[k])
      BY <2>1, <2>2, <2>4 DEF Replaced
    <3> QED
      BY <3>1 DEF Stands
  <2> QED
    BY <2>3, <2>4, SaidOfOne DEF found, under
<1> QED
  BY <1>1, <1>2, <1>3 DEF Stands

(* Where the defaults have no object, what stands is what is in force.     *)
LEMMA StandsIsInForce ==
  ASSUME NEW n, NEW values, NEW place, Stands(n, values, place), \A b \in place.default : ~IsDict(b)
  PROVE  values = InForce(place)
<1>1. CASE Silent(values, place)
  BY <1>1 DEF Silent, InForce
<1>2. ASSUME NEW b, NEW o, BothSay(n, values, place, b, o)
      PROVE  FALSE
  BY <1>2 DEF BothSay
<1>3. ASSUME NEW o, Replaced(values, place, o)
      PROVE  values = InForce(place)
  BY <1>3 DEF Replaced, InForce
<1> QED
  BY <1>1, <1>2, <1>3 DEF Stands

LEMMA DefaultBelow ==
  ASSUME NEW place, NEW k, NEW b \in Below(place, k).default
  PROVE  \E v \in place.default : IsDict(v) /\ k \in DOMAIN v.dict /\ b = v.dict[k]
BY DEF Below, Said

LEMMA DefaultsAre ==
  /\ DOMAIN Defaults = {"embedding", "vector"}
  /\ IsDict(Defaults.embedding) /\ IsDict(Defaults.vector)
  /\ \A k \in {"backend", "write_mode"} : ~IsDict(Defaults.vector.dict[k])
  /\ \A k \in {"model", "api_key", "dim", "api_base"} :
       k \in DOMAIN Defaults.embedding.dict /\ ~IsDict(Defaults.embedding.dict[k])
  /\ \A k \in DOMAIN Defaults.embedding.dict["llama"].dict["kwargs"].dict :
       ~IsDict(Defaults.embedding.dict["llama"].dict["kwargs"].dict[k])
  /\ \A k \in DOMAIN Defaults.embedding.dict["llama"].dict["common_arg_map"].dict :
       ~IsDict(Defaults.embedding.dict["llama"].dict["common_arg_map"].dict[k])
<1>1. DOMAIN Defaults = {"embedding", "vector"}
  BY DEF Defaults
<1>2. Defaults.vector = Dict([backend |-> Leaf("lancedb"), write_mode |-> Leaf("dual"), lancedb |-> Dict([uri |-> Leaf("")])])
  BY DEF Defaults
<1> DEFINE kwargs == [model_name |-> Leaf(""), voyage_api_key |-> Leaf(""), output_dimension |-> Leaf("")]
           argMap == [model |-> Leaf("model_name"), api_key |-> Leaf("voyage_api_key"),
                      dim |-> Leaf("output_dimension"), api_base |-> Leaf("")]
           llama == [class_path |-> Leaf("VoyageEmbedding"), kwargs |-> Dict(kwargs), common_arg_map |-> Dict(argMap)]
           embedding == [provider |-> Leaf("llamaindex"), model |-> Leaf("voyage-code-3"), dim |-> Leaf("256"),
                         api_base |-> Leaf(""), api_key |-> Leaf(""), llama |-> Dict(llama)]
<1>3. Defaults.embedding = Dict(embedding)
  BY DEF Defaults
<1>0. \A t : ~IsDict(Leaf(t))
  BY LeafIsNoDict
<1>4. \A k \in DOMAIN kwargs : ~IsDict(kwargs[k])
  <2>1. DOMAIN kwargs = {"model_name", "voyage_api_key", "output_dimension"}
    OBVIOUS
  <2>2. kwargs["model_name"] = Leaf("") /\ kwargs["voyage_api_key"] = Leaf("") /\ kwargs["output_dimension"] = Leaf("")
    OBVIOUS
  <2> HIDE DEF kwargs
  <2> QED
    BY <1>0, <2>1, <2>2, Zenon
<1>5. \A k \in DOMAIN argMap : ~IsDict(argMap[k])
  <2>1. DOMAIN argMap = {"model", "api_key", "dim", "api_base"}
    OBVIOUS
  <2>2. /\ argMap["model"] = Leaf("model_name") /\ argMap["api_key"] = Leaf("voyage_api_key")
        /\ argMap["dim"] = Leaf("output_dimension") /\ argMap["api_base"] = Leaf("")
    OBVIOUS
  <2> HIDE DEF argMap
  <2> QED
    BY <1>0, <2>1, <2>2, Zenon
<1>6. llama["kwargs"] = Dict(kwargs) /\ llama["common_arg_map"] = Dict(argMap)
  OBVIOUS
<1>7. /\ embedding["llama"] = Dict(llama)
      /\ \A k \in {"model", "api_key", "dim", "api_base"} : k \in DOMAIN embedding /\ ~IsDict(embedding[k])
  <2>1. embedding["llama"] = Dict(llama)
    OBVIOUS
  <2>2. /\ embedding["model"] = Leaf("voyage-code-3") /\ embedding["api_key"] = Leaf("")
        /\ embedding["dim"] = Leaf("256") /\ embedding["api_base"] = Leaf("")
    OBVIOUS
  <2>3. DOMAIN embedding = {"provider", "model", "dim", "api_base", "api_key", "llama"}
    OBVIOUS
  <2> HIDE DEF embedding
  <2> QED
    BY <1>0, <2>1, <2>2, <2>3, Zenon
<1> HIDE DEF kwargs, argMap, llama, embedding
<1>8. /\ Defaults.embedding.dict["llama"].dict["kwargs"].dict = kwargs
      /\ Defaults.embedding.dict["llama"].dict["common_arg_map"].dict = argMap
      /\ Defaults.embedding.dict = embedding
  BY <1>3, <1>6, <1>7, DictIsDict
<1>9. \A k \in {"backend", "write_mode"} : ~IsDict(Defaults.vector.dict[k])
  <2> DEFINE vector == [backend |-> Leaf("lancedb"), write_mode |-> Leaf("dual"), lancedb |-> Dict([uri |-> Leaf("")])]
  <2>1. Defaults.vector.dict = vector
    BY <1>2, DictIsDict
  <2>2. vector["backend"] = Leaf("lancedb") /\ vector["write_mode"] = Leaf("dual")
    OBVIOUS
  <2> HIDE DEF vector
  <2> QED
    BY <1>0, <2>1, <2>2, Zenon
<1>10. IsDict(Defaults.embedding) /\ IsDict(Defaults.vector)
  BY <1>2, <1>3, DictIsDict
<1> QED
  BY <1>1, <1>4, <1>5, <1>7, <1>8, <1>9, <1>10

(* No object is the default of a setting, an argument or a name.           *)
LEMMA NoObjectsThere ==
  ASSUME NEW d
  PROVE  /\ \A k \in {"backend", "write_mode"} : \A b \in Below(Vector(d), k).default : ~IsDict(b)
         /\ \A k \in {"model", "api_key", "dim", "api_base"} : \A b \in Below(Embedding(d), k).default : ~IsDict(b)
         /\ \A k : \A b \in Below(Kwargs(d), k).default : ~IsDict(b)
         /\ \A k : \A b \in Below(ArgMap(d), k).default : ~IsDict(b)
<1>0. Top(d).default = {Dict(Defaults)}
  BY DEF Top
<1>1. \A b \in Vector(d).default : b = Defaults.vector
  BY <1>0, DefaultBelow, DictIsDict DEF Vector
<1>2. \A b \in Embedding(d).default : b = Defaults.embedding
  BY <1>0, DefaultBelow, DictIsDict DEF Embedding
<1>3. \A b \in Llama(d).default : b = Defaults.embedding.dict["llama"]
  BY <1>2, DefaultBelow DEF Llama
<1>4. \A b \in Kwargs(d).default : b = Defaults.embedding.dict["llama"].dict["kwargs"]
  BY <1>3, DefaultBelow DEF Kwargs
<1>5. \A b \in ArgMap(d).default : b = Defaults.embedding.dict["llama"].dict["common_arg_map"]
  BY <1>3, DefaultBelow DEF ArgMap
<1>6. ASSUME NEW k \in {"backend", "write_mode"}, NEW b \in Below(Vector(d), k).default
      PROVE  ~IsDict(b)
  BY <1>1, <1>6, DefaultBelow, DefaultsAre
<1>7. ASSUME NEW k \in {"model", "api_key", "dim", "api_base"}, NEW b \in Below(Embedding(d), k).default
      PROVE  ~IsDict(b)
  BY <1>2, <1>7, DefaultBelow, DefaultsAre
<1>8. ASSUME NEW k, NEW b \in Below(Kwargs(d), k).default
      PROVE  ~IsDict(b)
  BY <1>4, <1>8, DefaultBelow, DefaultsAre
<1>9. ASSUME NEW k, NEW b \in Below(ArgMap(d), k).default
      PROVE  ~IsDict(b)
  BY <1>5, <1>9, DefaultBelow, DefaultsAre
<1> QED
  BY <1>6, <1>7, <1>8, <1>9

(* The merged document, at its top and in its sections.                    *)
LEMMA SectionsStand ==
  ASSUME NEW d
  PROVE  /\ Stands(3, {MergeWithDefaults(d).vector}, Vector(d))
         /\ Stands(3, {MergeWithDefaults(d).embedding}, Embedding(d))
<1> DEFINE cfg == MergeWithDefaults(d)
<1>1. BothSay(4, {Dict(cfg)}, Top(d), Dict(Defaults), Dict(d))
  BY DictIsDict DEF BothSay, Top, Merged, MergeWithDefaults
<1>2. Stands(4, {Dict(cfg)}, Top(d))
  BY <1>1 DEF Stands
<1>3. DOMAIN cfg = DOMAIN Defaults \cup DOMAIN d
  BY DEF MergeWithDefaults, DeepMerge, Merge
<1> HIDE DEF cfg
<1>4. Said({Dict(cfg)}, "vector") = {cfg.vector} /\ Said({Dict(cfg)}, "embedding") = {cfg.embedding}
  <2>1. IsDict(Dict(cfg)) /\ Dict(cfg).dict = cfg
    BY DictIsDict
  <2>2. "vector" \in DOMAIN cfg /\ "embedding" \in DOMAIN cfg
    BY <1>3, DefaultsAre
  <2>3. Said({Dict(cfg)}, "vector") = {cfg["vector"]} /\ Said({Dict(cfg)}, "embedding") = {cfg["embedding"]}
    BY <2>1, <2>2, SaidOfOne
  <2> QED
    BY <2>3
<1>5. \A k : Stands(3, Said({Dict(cfg)}, k), Below(Top(d), k))
  BY <1>2, StandsBelow
<1> QED
  BY <1>4, <1>5 DEF Vector, Embedding, cfg

(* What is found in an object or, if there is none, in nothing.            *)
LEMMA SaidOfKey ==
  ASSUME NEW v, NEW k, IsDict(v)
  PROVE  /\ {w \in Said({v}, k) : ~IsNone(w)} = IF IsNone(Key(v, k)) THEN {} ELSE {Key(v, k)}
         /\ {w \in Said({v}, k) : IsName(w)} = IF IsName(Key(v, k)) THEN {Key(v, k)} ELSE {}
<1>1. CASE k \in DOMAIN v.dict
  BY <1>1, SaidOfOne DEF Key
<1>2. CASE k \notin DOMAIN v.dict
  <2>1. Key(v, k) = Null /\ "leaf" \notin DOMAIN Null
    BY <1>2 DEF Key, Null
  <2>2. Said({v}, k) = {}
    BY <1>2, SaidOfOne
  <2> QED
    BY <2>1, <2>2 DEF IsNone, IsName
<1> QED
  BY <1>1, <1>2

LEMMA SaidOfObject ==
  ASSUME NEW v, NEW k, NEW j, IsDict(v)
  PROVE  Said({Object(Key(v, k))}, j) = Said(Said({v}, k), j)
<1>1. CASE IsNone(Key(v, k))
  <2>1. Said({Object(Key(v, k))}, j) = {}
    <3>1. IsDict(Dict(<<>>)) /\ Dict(<<>>).dict = <<>>
      BY DictIsDict
    <3>2. j \notin DOMAIN <<>>
      OBVIOUS
    <3>3. Said({Dict(<<>>)}, j) = {}
      BY <3>1, <3>2, SaidOfOne
    <3> QED
      BY <1>1, <3>3 DEF Object
  <2>2. Said(Said({v}, k), j) = {}
    BY <1>1, SaidOfOne, SaidOfNone, NoneIsNoDict DEF Key
  <2> QED
    BY <2>1, <2>2
<1>2. CASE ~IsNone(Key(v, k))
  BY <1>2, SaidOfOne DEF Key, IsNone, Null, Object
<1> QED
  BY <1>1, <1>2

(* A section that is an object says what is in force in it.                *)
LEMMA SettingsStand ==
  ASSUME NEW d, ~Fails(MergeWithDefaults(d))
  PROVE  /\ IsDict(MergeWithDefaults(d).vector) /\ IsDict(MergeWithDefaults(d).embedding)
         /\ \A k \in {"backend", "write_mode"} :
              Said({MergeWithDefaults(d).vector}, k) = InForce(Below(Vector(d), k))
         /\ \A k \in {"model", "api_key", "dim", "api_base"} :
              Said({MergeWithDefaults(d).embedding}, k) = InForce(Below(Embedding(d), k))
<1> DEFINE cfg == MergeWithDefaults(d)
<1>1. IsDict(cfg["vector"]) /\ IsDict(cfg["embedding"])
  BY DEF Fails
<1>2. Stands(3, {cfg.vector}, Vector(d)) /\ Stands(3, {cfg.embedding}, Embedding(d))
  BY SectionsStand
<1> HIDE DEF cfg
<1>3. \A k : /\ Stands(2, Said({cfg.vector}, k), Below(Vector(d), k))
             /\ Stands(2, Said({cfg.embedding}, k), Below(Embedding(d), k))
  BY <1>2, StandsBelow
<1>4. \A k \in {"backend", "write_mode"} : Said({cfg.vector}, k) = InForce(Below(Vector(d), k))
  BY <1>3, NoObjectsThere, StandsIsInForce
<1>5. \A k \in {"model", "api_key", "dim", "api_base"} : Said({cfg.embedding}, k) = InForce(Below(Embedding(d), k))
  BY <1>3, NoObjectsThere, StandsIsInForce
<1> QED
  BY <1>1, <1>4, <1>5 DEF cfg

(* The arguments of a class and the map of names, with what is in force.   *)
LlamaOf(d) == Object(Key(MergeWithDefaults(d).embedding, "llama"))
KwargsOf(d) == Object(Key(LlamaOf(d), "kwargs"))
ArgMapOf(d) == Object(Key(LlamaOf(d), "common_arg_map"))

LEMMA ArgumentsStand ==
  ASSUME NEW d, IsDict(MergeWithDefaults(d).embedding), IsDict(LlamaOf(d)), NEW k
  PROVE  /\ Said({KwargsOf(d)}, k) = InForce(Below(Kwargs(d), k))
         /\ Said({ArgMapOf(d)}, k) = InForce(Below(ArgMap(d), k))
<1> DEFINE e == MergeWithDefaults(d).embedding
           found == Said({e}, "llama")
<1>1. Stands(3, {e}, Embedding(d))
  BY SectionsStand
<1>2. \A j : Said({LlamaOf(d)}, j) = Said(found, j)
  BY SaidOfObject DEF LlamaOf
<1> HIDE DEF e
<1>3. Stands(2, found, Llama(d))
  BY <1>1, StandsBelow DEF Llama
<1> HIDE DEF found
<1>4. Stands(1, Said(found, "kwargs"), Kwargs(d)) /\ Stands(1, Said(found, "common_arg_map"), ArgMap(d))
  BY <1>3, StandsBelow DEF Kwargs, ArgMap
<1>5. /\ Stands(0, Said(Said(found, "kwargs"), k), Below(Kwargs(d), k))
      /\ Stands(0, Said(Said(found, "common_arg_map"), k), Below(ArgMap(d), k))
  BY <1>4, StandsBelow
<1>6. /\ Said(Said(found, "kwargs"), k) = InForce(Below(Kwargs(d), k))
      /\ Said(Said(found, "common_arg_map"), k) = InForce(Below(ArgMap(d), k))
  BY <1>5, NoObjectsThere, StandsIsInForce
<1>7. /\ Said({KwargsOf(d)}, k) = Said(Said({LlamaOf(d)}, "kwargs"), k)
      /\ Said({ArgMapOf(d)}, k) = Said(Said({LlamaOf(d)}, "common_arg_map"), k)
  BY SaidOfObject DEF KwargsOf, ArgMapOf
<1> QED
  BY <1>2, <1>6, <1>7

(* What is in force of the vector section is what the stores are chosen by. *)
LEMMA SelectsIsKey ==
  ASSUME NEW d, ~Fails(MergeWithDefaults(d)), NEW k \in {"backend", "write_mode"}, NEW t
  PROVE  Selects(d, k, t) <=> Key(MergeWithDefaults(d).vector, k) = Leaf(t)
<1> DEFINE v == MergeWithDefaults(d).vector
<1>1. IsDict(v) /\ Said({v}, k) = InForce(Below(Vector(d), k))
  BY SettingsStand
<1> HIDE DEF v
<1>2. CASE k \in DOMAIN v.dict
  <2>1. Said({v}, k) = {Key(v, k)}
    BY <1>1, <1>2, SaidOfOne DEF Key
  <2> QED
    BY <1>1, <2>1 DEF Selects, v
<1>3. CASE k \notin DOMAIN v.dict
  <2>1. Said({v}, k) = {} /\ Key(v, k) = Null
    BY <1>1, <1>3, SaidOfOne DEF Key
  <2>2. Null # Leaf(t)
    BY LeafIsNoDict DEF Null
  <2> QED
    BY <1>1, <2>1, <2>2 DEF Selects, v
<1> QED
  BY <1>2, <1>3

LEMMA SearchFits ==
  ASSUME NEW d, ~Fails(MergeWithDefaults(d))
  PROVE  SearchArrives(d, Pipeline(MergeWithDefaults(d)))
<1> DEFINE v == MergeWithDefaults(d).vector
           p == Pipeline(MergeWithDefaults(d))
           backend == Key(v, "backend")
           mode == Key(v, "write_mode")
<1>1. /\ Selects(d, "backend", "lancedb") <=> backend = Leaf("lancedb")
      /\ Selects(d, "write_mode", "sqlite_only") <=> mode = Leaf("sqlite_only")
      /\ Selects(d, "write_mode", "lancedb_only") <=> mode = Leaf("lancedb_only")
  <2> HIDE DEF v
  <2>1. Selects(d, "backend", "lancedb") <=> backend = Leaf("lancedb")
    BY SelectsIsKey DEF v
  <2>2. Selects(d, "write_mode", "sqlite_only") <=> mode = Leaf("sqlite_only")
    BY SelectsIsKey DEF v
  <2>3. Selects(d, "write_mode", "lancedb_only") <=> mode = Leaf("lancedb_only")
    BY SelectsIsKey DEF v
  <2> QED
    BY <2>1, <2>2, <2>3
<1>2. p.search = IF backend = Leaf("lancedb") THEN "lancedb" ELSE "sqlite"
  BY DEF Pipeline, SearchStore
<1>3. p.writes = WritesOf[mode.leaf]
  BY DEF Pipeline
<1>4. \E m \in DOMAIN WritesOf : mode = Leaf(m)
  BY DEF Fails, VectorStoresFail
<1> HIDE DEF p, v, backend, mode
<1>5. DOMAIN WritesOf = {"sqlite_only", "lancedb_only", "dual"}
  BY DEF WritesOf
<1>6. /\ WritesOf["sqlite_only"] = {"sqlite"} /\ WritesOf["lancedb_only"] = {"lancedb"}
      /\ WritesOf["dual"] = {"sqlite", "lancedb"}
  BY DEF WritesOf
<1>7. PICK m \in {"sqlite_only", "lancedb_only", "dual"} : mode = Leaf(m)
  BY <1>4, <1>5
<1>8. p.writes = WritesOf[m]
  BY <1>3, <1>7, LeafIsNoDict
<1>9. /\ Selects(d, "write_mode", "sqlite_only") <=> m = "sqlite_only"
      /\ Selects(d, "write_mode", "lancedb_only") <=> m = "lancedb_only"
  BY <1>1, <1>7, LeafIsNoDict
<1>10. SearchArrives(d, p)
  <2>1. CASE m = "sqlite_only"
    BY <1>1, <1>2, <1>6, <1>8, <1>9, <2>1 DEF SearchArrives
  <2>2. CASE m = "lancedb_only"
    BY <1>1, <1>2, <1>6, <1>8, <1>9, <2>2 DEF SearchArrives
  <2>3. CASE m = "dual"
    BY <1>1, <1>2, <1>6, <1>8, <1>9, <2>3 DEF SearchArrives
  <2> QED
    BY <2>1, <2>2, <2>3
<1> QED
  BY <1>10 DEF p

(* The places of Common are 1 to 4, so a set of them has a first one.      *)
LEMMA CommonIs ==
  /\ DOMAIN Common = 1..4
  /\ \A i \in DOMAIN Common : Common[i] \in {"model", "api_key", "dim", "api_base"}
BY DEF Common

LEMMA FirstPlace ==
  ASSUME NEW S \in SUBSET (1..4), S # {}
  PROVE  (CHOOSE i \in S : \A j \in S : i <= j) \in S
<1>1. \E i \in S : \A j \in S : i <= j
  <2>1. CASE 1 \in S
    BY <2>1
  <2>2. CASE 1 \notin S /\ 2 \in S
    BY <2>2
  <2>3. CASE 1 \notin S /\ 2 \notin S /\ 3 \in S
    BY <2>3
  <2>4. CASE 1 \notin S /\ 2 \notin S /\ 3 \notin S
    <3>1. PICK i \in S : TRUE
      OBVIOUS
    <3>2. \A j \in S : j \in 1..4 /\ j # 1 /\ j # 2 /\ j # 3
      BY <2>4
    <3>3. \A j \in S : j = 4
      BY <3>2
    <3> QED
      BY <3>1, <3>3
  <2> QED
    BY <2>1, <2>2, <2>3, <2>4
<1> QED
  BY <1>1

(* The defaults have all settings, so the merged section has them.         *)
LEMMA SettingsAreThere ==
  ASSUME NEW d, IsDict(MergeWithDefaults(d).embedding), NEW k \in {"model", "api_key", "dim", "api_base"}
  PROVE  k \in DOMAIN MergeWithDefaults(d).embedding.dict
<1> DEFINE e == MergeWithDefaults(d).embedding
           standard == Defaults.embedding
<1>1. Stands(3, {e}, Embedding(d))
  BY SectionsStand
<1>2. Embedding(d).default = {standard}
  <2>1. Top(d).default = {Dict(Defaults)} /\ Top(d).said = {Dict(d)}
    BY DEF Top
  <2>2. Said({Dict(Defaults)}, "embedding") = {Defaults["embedding"]}
    BY DefaultsAre, DictIsDict, SaidOfOne
  <2>3. \A v \in Top(d).said : IsDict(v)
    BY <2>1, DictIsDict
  <2> QED
    BY <2>1, <2>2, <2>3 DEF Embedding, Below
<1>3. IsDict(standard) /\ k \in DOMAIN standard.dict
  BY DefaultsAre
<1> HIDE DEF e, standard
<1>4. CASE Silent({e}, Embedding(d))
  BY <1>2, <1>3, <1>4 DEF Silent, e
<1>5. ASSUME NEW b, NEW o, BothSay(3, {e}, Embedding(d), b, o)
      PROVE  k \in DOMAIN e.dict
  <2>1. b = standard /\ e = Dict(Merged(3, b.dict, o.dict))
    BY <1>2, <1>5 DEF BothSay
  <2>2. MergeShape(e.dict, 2, b.dict, o.dict)
    BY <2>1, MergedIs, DictIsDict
  <2> QED
    BY <1>3, <2>1, <2>2 DEF MergeShape
<1>6. ASSUME NEW o, Replaced({e}, Embedding(d), o)
      PROVE  FALSE
  BY <1>2, <1>3, <1>6 DEF Replaced, e
<1> QED
  BY <1>1, <1>4, <1>5, <1>6 DEF Stands, e

(* What is not changed on its way is what is in force.                     *)
LEMMA UnchangedArrive ==
  ASSUME NEW d, IsDict(MergeWithDefaults(d).embedding), NEW i \in DOMAIN Common \ Changed(d),
         Said({MergeWithDefaults(d).embedding}, Common[i]) = InForce(Below(Embedding(d), Common[i]))
  PROVE  Runtime(MergeWithDefaults(d).embedding)[Common[i]] = Key(MergeWithDefaults(d).embedding, Common[i])
<1> DEFINE e == MergeWithDefaults(d).embedding
           v == Key(e, Common[i])
<1>1. Common[i] \in {"model", "api_key", "dim", "api_base"}
  BY CommonIs
<1>2. Common[i] \in DOMAIN e.dict
  BY <1>1, SettingsAreThere
<1> HIDE DEF e
<1>3. Said({e}, Common[i]) = {v}
  BY <1>2, SaidOfOne DEF Key, e
<1>4. v \in InForce(Below(Embedding(d), Common[i]))
  BY <1>3 DEF e
<1>5. IF Common[i] = "dim" THEN v # Leaf("0") ELSE v # Null /\ v # Zero /\ ~IsDict(v)
  <2> HIDE DEF v
  <2> QED
    BY <1>4 DEF Changed
<1>6. Runtime(e)[Common[i]] = IF Common[i] = "dim" THEN NumberOf(v) ELSE TextOf(v)
  <2>1. CASE Common[i] = "model"
    BY <2>1 DEF Runtime
  <2>2. CASE Common[i] = "api_key"
    BY <2>2 DEF Runtime
  <2>3. CASE Common[i] = "dim"
    BY <2>3 DEF Runtime
  <2>4. CASE Common[i] = "api_base"
    BY <2>4 DEF Runtime
  <2> QED
    BY <1>1, <2>1, <2>2, <2>3, <2>4
<1> HIDE DEF v
<1>7. Runtime(e)[Common[i]] = v
  BY <1>5, <1>6 DEF NumberOf, TextOf
<1> QED
  BY <1>7 DEF e, v

(* What the class gets, place by place.                                    *)
LEMMA ArgumentsFit ==
  ASSUME NEW d, ~Fails(MergeWithDefaults(d)), IsDict(LlamaOf(d)), IsDict(KwargsOf(d)), IsDict(ArgMapOf(d))
  PROVE  ArgumentsArrive(d, ResolveLlamaInitKwargs(KwargsOf(d), ArgMapOf(d), Runtime(MergeWithDefaults(d).embedding)))
<1> DEFINE e == MergeWithDefaults(d).embedding
           rt == Runtime(e)
           kw == KwargsOf(d)
           am == ArgMapOf(d)
           args == ResolveLlamaInitKwargs(kw, am, rt)
<1>1. IsDict(e) /\ IsDict(kw) /\ IsDict(am)
  BY SettingsStand
<1>2. \A a : Said({kw}, a) = InForce(Below(Kwargs(d), a))
  BY <1>1, ArgumentsStand
<1>3. \A i \in DOMAIN Common : /\ Said({e}, Common[i]) = InForce(Below(Embedding(d), Common[i]))
                               /\ Said({am}, Common[i]) = InForce(Below(ArgMap(d), Common[i]))
  BY <1>1, ArgumentsStand, SettingsStand, CommonIs
<1>0. \A i \in DOMAIN Common \ Changed(d) : rt[Common[i]] = Key(e, Common[i])
  BY <1>1, <1>3, UnchangedArrive
<1> HIDE DEF e, rt, kw, am
<1>4. \A a : OwnArgument(d, a) = IF IsNone(Key(kw, a)) THEN {} ELSE {Key(kw, a)}
  BY <1>1, <1>2, SaidOfKey DEF OwnArgument
<1>5. \A i \in DOMAIN Common :
        /\ Setting(d, i) = IF IsNone(Key(e, Common[i])) THEN {} ELSE {Key(e, Common[i])}
        /\ MappedTo(d, i) = IF IsName(Key(am, Common[i])) THEN {Key(am, Common[i])} ELSE {}
  BY <1>1, <1>3, SaidOfKey DEF Setting, MappedTo
<1>6. ASSUME NEW a, ~\E i \in Changed(d) : \E v \in MappedTo(d, i) : v.leaf = a
      PROVE  SettingsFor(d, a) = Offers(a, am, rt)
  <2>1. ASSUME NEW i \in DOMAIN Common
        PROVE  i \in SettingsFor(d, a) <=> i \in Offers(a, am, rt)
    <3>1. CASE i \in Changed(d)
      <4>1. \A v \in MappedTo(d, i) : v.leaf # a
        BY <1>6, <3>1
      <4> QED
        BY <1>5, <4>1 DEF SettingsFor, Offers, Mapped
    <3>2. CASE i \notin Changed(d)
      BY <1>0, <1>5, <3>2 DEF SettingsFor, Offers, Mapped
    <3> QED
      BY <3>1, <3>2
  <2> QED
    BY <2>1 DEF SettingsFor, Offers, Mapped
<1>7. DOMAIN args = Arguments(kw, am, rt)
  BY DEF ResolveLlamaInitKwargs
<1>8. \A a \in DOMAIN args : args[a] = IF ~IsNone(Key(kw, a)) THEN Key(kw, a) ELSE Offered(a, am, rt)
  BY DEF ResolveLlamaInitKwargs
<1> HIDE DEF args
<1>9. ASSUME NEW a \in DOMAIN args
      PROVE  IF OwnArgument(d, a) # {} THEN args[a] \in OwnArgument(d, a)
             ELSE \/ \E i \in Changed(d) : \E v \in MappedTo(d, i) : v.leaf = a
                  \/ SettingsFor(d, a) = {} /\ IsNone(args[a])
                  \/ \E i \in SettingsFor(d, a) : args[a] \in Setting(d, i)
  <2>0. CASE \E i \in Changed(d) : \E v \in MappedTo(d, i) : v.leaf = a
    <3>1. CASE IsNone(Key(kw, a))
      BY <1>4, <2>0, <3>1
    <3>2. CASE ~IsNone(Key(kw, a))
      BY <1>4, <1>8, <3>2
    <3> QED
      BY <3>1, <3>2
  <2> DEFINE Open == \E i \in Changed(d) : \E v \in MappedTo(d, i) : v.leaf = a
  <2>1. CASE ~IsNone(Key(kw, a))
    BY <1>4, <1>8, <2>1
  <2>2. CASE ~Open /\ IsNone(Key(kw, a)) /\ Offers(a, am, rt) = {}
    <3>1. args[a] = Null
      BY <1>8, <2>2 DEF Offered
    <3>2. IsNone(args[a])
      BY <3>1 DEF IsNone
    <3>3. SettingsFor(d, a) = {} /\ OwnArgument(d, a) = {}
      BY <1>4, <1>6, <2>2
    <3> QED
      BY <3>2, <3>3
  <2>3. CASE ~Open /\ IsNone(Key(kw, a)) /\ Offers(a, am, rt) # {}
    <3> DEFINE S == Offers(a, am, rt)
               i == CHOOSE x \in S : \A y \in S : x <= y
    <3>1. S \in SUBSET (1..4)
      BY CommonIs DEF Offers, Mapped
    <3>2. i \in S
      BY <2>3, <3>1, FirstPlace
    <3>3. args[a] = rt[Common[i]]
      BY <1>8, <2>3 DEF Offered
    <3>4. /\ i \in DOMAIN Common /\ IsName(Key(am, Common[i])) /\ Key(am, Common[i]).leaf = a
          /\ ~IsNone(rt[Common[i]])
      BY <3>2 DEF Offers, Mapped
    <3> HIDE DEF S, i
    <3>5. i \notin Changed(d)
      BY <1>5, <2>3, <3>4
    <3>6. args[a] \in Setting(d, i)
      BY <1>0, <1>5, <3>3, <3>4, <3>5
    <3>7. OwnArgument(d, a) = {} /\ i \in SettingsFor(d, a)
      BY <1>4, <1>6, <2>3, <3>2 DEF S
    <3> QED
      BY <3>6, <3>7
  <2> QED
    BY <2>0, <2>1, <2>2, <2>3
<1>10. ASSUME NEW v \in Kwargs(d).said, IsDict(v), NEW a \in DOMAIN v.dict
       PROVE  a \in DOMAIN args
  <2>1. v.dict[a] \in Below(Kwargs(d), a).said
    BY <1>10 DEF Below, Said
  <2>2. Said({kw}, a) # {}
    BY <1>2, <2>1 DEF InForce
  <2>3. a \in DOMAIN kw.dict
    BY <2>2, SaidOfOne
  <2> QED
    BY <1>7, <2>3 DEF Arguments
<1>11. ASSUME NEW i \in DOMAIN Common \ Changed(d), NEW v \in MappedTo(d, i), Setting(d, i) # {}
       PROVE  v.leaf \in DOMAIN args
  <2>1. v = Key(am, Common[i]) /\ i \in Mapped(am, rt)
    BY <1>0, <1>5, <1>11 DEF Mapped
  <2> QED
    BY <1>7, <2>1 DEF Arguments
<1>12. ArgumentsArrive(d, args)
  BY <1>9, <1>10, <1>11 DEF ArgumentsArrive
<1> QED
  BY <1>12 DEF args, rt, e, kw, am

LEMMA PipelineFits ==
  ASSUME NEW d, ~Fails(MergeWithDefaults(d)), Pipeline(MergeWithDefaults(d)).embedder = "LlamaIndexEmbedder"
  PROVE  ArgumentsArrive(d, Pipeline(MergeWithDefaults(d)).args)
<1> DEFINE cfg == MergeWithDefaults(d)
           provider == Key(cfg.embedding, "provider")
<1>1. Embedder(provider) = "LlamaIndexEmbedder"
  BY DEF Pipeline
<1>2. provider = Leaf("llamaindex")
  <2> HIDE DEF provider
  <2>1. PICK name \in DOMAIN EmbedderOf : provider = Leaf(name)
    BY <1>1 DEF Embedder
  <2>2. EmbedderOf[name] = "LlamaIndexEmbedder"
    BY <1>1, <2>1, LeafIsNoDict DEF Embedder
  <2>3. name = "llamaindex"
    BY <2>2 DEF EmbedderOf
  <2> QED
    BY <2>1, <2>3
<1>3. ~EmbedderFails(cfg.embedding)
  BY DEF Fails
<1>4. IsDict(LlamaOf(d)) /\ IsDict(KwargsOf(d)) /\ IsDict(ArgMapOf(d))
  BY <1>2, <1>3 DEF EmbedderFails, LlamaOf, KwargsOf, ArgMapOf
<1>5. Pipeline(cfg).args = ResolveLlamaInitKwargs(KwargsOf(d), ArgMapOf(d), Runtime(cfg.embedding))
  BY <1>1 DEF Pipeline, LlamaOf, KwargsOf, ArgMapOf
<1> HIDE DEF cfg
<1> QED
  BY <1>4, <1>5, ArgumentsFit DEF cfg

(* A pipeline is the one of its document.                                  *)
ConfigInv ==
  \/ configured = <<>>
  \/ configured.raised
  \/ /\ ~Fails(MergeWithDefaults(configured.document))
     /\ configured.pipeline = Pipeline(MergeWithDefaults(configured.document))

LEMMA ConfigInvHolds == ConfigSpec => []ConfigInv
<1>1. ConfigInit => ConfigInv
  BY DEF ConfigInit, ConfigInv
<1>2. ConfigInv /\ [Configure]_configured => ConfigInv'
  <2> SUFFICES ASSUME ConfigInv, [Configure]_configured
               PROVE  ConfigInv'
    OBVIOUS
  <2>1. CASE Configure
    <3>1. PICK d \in Documents :
            configured' = IF Fails(MergeWithDefaults(d)) THEN [document |-> d, raised |-> TRUE]
                          ELSE [document |-> d, raised |-> FALSE, pipeline |-> Pipeline(MergeWithDefaults(d))]
      BY <2>1 DEF Configure
    <3>2. CASE Fails(MergeWithDefaults(d))
      BY <3>1, <3>2 DEF ConfigInv
    <3>3. CASE ~Fails(MergeWithDefaults(d))
      BY <3>1, <3>3 DEF ConfigInv
    <3> QED
      BY <3>2, <3>3
  <2>2. CASE UNCHANGED configured
    BY <2>2 DEF ConfigInv
  <2> QED
    BY <2>1, <2>2
<1> QED
  BY <1>1, <1>2, PTL DEF ConfigSpec

(* SettingsArrive, for any documents: what is said or mapped arrives, but  *)
(* for what str() and int() make of null, 0 and objects (Changed).         *)
THEOREM SettingsAlwaysArrive == ConfigSpec => []SettingsArrive
<1>1. ConfigInv => SettingsArrive
  <2> SUFFICES ASSUME ConfigInv, configured # <<>>, ~configured.raised
               PROVE  /\ SearchArrives(configured.document, configured.pipeline)
                      /\ configured.pipeline.embedder = "LlamaIndexEmbedder" =>
                           ArgumentsArrive(configured.document, configured.pipeline.args)
    BY DEF SettingsArrive
  <2>1. /\ ~Fails(MergeWithDefaults(configured.document))
        /\ configured.pipeline = Pipeline(MergeWithDefaults(configured.document))
    BY DEF ConfigInv
  <2> QED
    BY <2>1, SearchFits, PipelineFits
<1> QED
  BY <1>1, ConfigInvHolds, PTL
=============================================================================
