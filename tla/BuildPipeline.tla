--------------------------- MODULE BuildPipeline ---------------------------
(***************************************************************************)
(* run_java_full_index_pipeline (index_build_runner.py): scip-java, or the *)
(* source indexer the configuration names, or the fallbacks syntax and     *)
(* document, writes the rows of an index; then the code graph, the chunks  *)
(* and the vectors are derived from them.  Every stage commits on its own, *)
(* and a build may raise or die between any two of them.                   *)
(*                                                                         *)
(* Builds of one database run one after the other (see IndexJobScheduler). *)
(* A row is known by the build and the source mode that wrote it; derived  *)
(* rows by the build whose rows they were computed from.                   *)
(***************************************************************************)
EXTENDS Integers

CONSTANTS
  Snapshots,  \* repository and commit
  None,
  MaxBuilds   \* bound on the builds explored

ASSUME BoundAssumption == MaxBuilds \in Nat

Modes == {"scip", "syntax", "document"}
Backends == {"", "scip-java", "tree-sitter-java", "document"}
Fallbacks == {"off", "syntax", "document"}
Builds == 1..MaxBuilds

(* java_index.source_backend, empty for the legacy chain, and              *)
(* java_index.fallback_mode.                                               *)
Requests == [snapshot : Snapshots, backend : Backends, fallback : Fallbacks]

Infos == [snapshot : Snapshots, mode : Modes, failure : BOOLEAN, stats : BOOLEAN, build : Builds]

ASSUME NoneAssumption == None \notin Infos

VARIABLES
  disk,     \* the database as committed: index_info, rows, graph, chunks, vectors
  tx,       \* the same as the build's connection sees it
  cache,    \* _index_info_cache
  pc,       \* the next stage; "done", "raised" or "dead" after a build
  request,
  source,   \* the mode of the source indexer under way
  failure,  \* build_failure: scip-java has failed
  builds

vars == <<disk, tx, cache, pc, request, source, failure, builds>>

Ended == {"done", "raised", "dead"}

Init ==
  /\ disk = [info |-> None, rows |-> {}, graph |-> {}, chunks |-> {}, vectors |-> {}]
  /\ tx = disk /\ cache = None
  /\ pc = "done" /\ request = None /\ source = "scip" /\ failure = FALSE
  /\ builds = 0

-----------------------------------------------------------------------------
(* Source indexers *)

(* The tables a source indexer fills.                                      *)
TablesOf(mode) == IF mode = "document" THEN {"documents"} ELSE {"documents", "symbols"}

RowsOf(build, mode) == {[build |-> build, mode |-> mode, table |-> t] : t \in TablesOf(mode)}

HasData(db) == db.rows \cup db.graph \cup db.chunks \cup db.vectors # {}

(* _validate_index_info_contract: data without index_info is refused.      *)
Openable(db) == db.info # None \/ ~HasData(db)

InfoNow(stats) ==
  [snapshot |-> request.snapshot, mode |-> source, failure |-> failure,
   stats |-> stats, build |-> builds]

Existing == IF cache # None THEN cache ELSE tx.info

(* The build raises: the caller closes the store, which rolls back.        *)
Abort == pc' = "raised" /\ tx' = disk /\ UNCHANGED source

(* A source indexer raises.  Only the syntax indexer of the legacy chain   *)
(* is caught: the document indexer goes on in the same open transaction.   *)
IndexerRaises ==
  /\ IF source = "syntax" /\ request.backend = ""
     THEN pc' = "prepare" /\ source' = "document" /\ tx' = tx
     ELSE Abort
  /\ UNCHANGED <<disk, cache, request, failure, builds>>

(* Open the store and choose the source indexer.                           *)
Start ==
  /\ pc \in Ended /\ builds < MaxBuilds
  /\ builds' = builds + 1
  /\ request' \in Requests
  /\ cache' = disk.info /\ tx' = disk /\ failure' = FALSE
  /\ source' = CASE request'.backend = "tree-sitter-java" -> "syntax"
                 [] request'.backend = "document" -> "document"
                 [] OTHER -> "scip"
  /\ pc' = IF ~Openable(disk) THEN "raised"
           ELSE IF source' = "scip" THEN "scip_java" ELSE "prepare"
  /\ UNCHANGED disk

ScipJavaDone ==
  /\ pc = "scip_java" /\ pc' = "prepare"
  /\ UNCHANGED <<disk, tx, cache, request, source, failure, builds>>

(* Faulty: the failure is not handed to the fallback.                      *)
ScipJavaFailsSilently ==
  /\ pc = "scip_java"
  /\ failure' = FALSE
  /\ IF request.backend = "scip-java" \/ request.fallback = "off"
     THEN Abort
     ELSE pc' = "prepare" /\ source' = request.fallback /\ tx' = tx
  /\ UNCHANGED <<disk, cache, request, builds>>

(* scip-java fails: recorded, and raised unless a fallback is configured.  *)
ScipJavaFails ==
  /\ pc = "scip_java"
  /\ failure' = TRUE
  /\ IF request.backend = "scip-java" \/ request.fallback = "off"
     THEN Abort
     ELSE pc' = "prepare" /\ source' = request.fallback /\ tx' = tx
  /\ UNCHANGED <<disk, cache, request, builds>>

(* Faulty: takes over an index of another snapshot.                        *)
PrepareAny ==
  /\ pc = "prepare" /\ pc' = "clear"
  /\ tx' = [tx EXCEPT !.info = InfoNow(source = "scip")]
  /\ cache' = tx'.info
  /\ UNCHANGED <<disk, request, source, failure, builds>>

(* Faulty: index_info is committed at once, before the old rows are gone.  *)
PrepareCommitting ==
  /\ pc = "prepare"
  /\ IF Existing # None /\ Existing.snapshot # request.snapshot
     THEN IndexerRaises
     ELSE /\ pc' = "clear"
          /\ tx' = [tx EXCEPT !.info = InfoNow(source = "scip")]
          /\ cache' = tx'.info /\ disk' = tx'
          /\ UNCHANGED <<request, source, failure, builds>>

(* prepare_index: one snapshot per database; index_info waits for the next *)
(* commit.                                                                 *)
Prepare ==
  /\ pc = "prepare"
  /\ IF Existing # None /\ Existing.snapshot # request.snapshot
     THEN IndexerRaises
     ELSE /\ pc' = "clear"
          /\ tx' = [tx EXCEPT !.info = InfoNow(source = "scip")]
          /\ cache' = tx'.info
          /\ UNCHANGED <<disk, request, source, failure, builds>>

(* Faulty: leaves the tables of the later stages alone.                    *)
ClearSourceOnly ==
  /\ pc = "clear" /\ pc' = "documents"
  /\ tx' = [tx EXCEPT !.rows = {}]
  /\ disk' = tx'
  /\ UNCHANGED <<cache, request, source, failure, builds>>

(* clear_index_data, after the scan of the sources: all tables but         *)
(* index_info are emptied, and this and the new index_info committed.      *)
Clear ==
  /\ pc = "clear" /\ pc' = "documents"
  /\ tx' = [tx EXCEPT !.rows = {}, !.graph = {}, !.chunks = {}, !.vectors = {}]
  /\ disk' = tx'
  /\ UNCHANGED <<cache, request, source, failure, builds>>

Write(table) == tx' = [tx EXCEPT !.rows = @ \cup {r \in RowsOf(builds, source) : r.table = table}]

WriteDocuments ==
  /\ pc = "documents" /\ pc' = "symbols"
  /\ Write("documents")
  /\ UNCHANGED <<disk, cache, request, source, failure, builds>>

WriteSymbols ==
  /\ pc = "symbols" /\ pc' = "commit"
  /\ Write("symbols")
  /\ UNCHANGED <<disk, cache, request, source, failure, builds>>

(* The rows are committed.                                                 *)
CommitRows ==
  /\ pc = "commit" /\ disk' = tx
  /\ pc' = IF source = "scip" THEN "code_graph" ELSE "stats"
  /\ UNCHANGED <<tx, cache, request, source, failure, builds>>

(* The source indexers write index_info again, now with their statistics.  *)
RecordStats ==
  /\ pc = "stats" /\ pc' = "code_graph"
  /\ tx' = [tx EXCEPT !.info = InfoNow(TRUE)] /\ disk' = tx' /\ cache' = tx'.info
  /\ UNCHANGED <<request, source, failure, builds>>

(* A source indexer raises anywhere before its rows are complete.          *)
SourceFails == pc \in {"clear", "documents", "symbols", "commit", "stats"} /\ IndexerRaises

-----------------------------------------------------------------------------
(* Derived stages *)

BuildsOf(rows) == {r.build : r \in rows}

Stage(now, next, new) ==
  /\ pc = now /\ pc' = next
  /\ tx' = new /\ disk' = new
  /\ UNCHANGED <<cache, request, source, failure, builds>>

(* CodeGraphBuilder.build: the old graph goes; documents alone have none.  *)
BuildCodeGraph ==
  Stage("code_graph", "chunk",
        [tx EXCEPT !.graph = IF cache.mode = "document" THEN {} ELSE BuildsOf(tx.rows)])

(* build_chunks adds chunks for the documents that are there.              *)
BuildChunks ==
  Stage("chunk", "embed", [tx EXCEPT !.chunks = @ \cup BuildsOf(tx.rows)])

(* A commit of EmbeddingPipeline.run: vectors for chunks that have none.   *)
EmbedSome == Stage("embed", "embed", [tx EXCEPT !.vectors = @ \cup tx.chunks])

(* run returns, with or without vectors for every chunk.                   *)
EmbedDone == Stage("embed", "done", tx)

(* A later stage raises.                                                   *)
StageFails ==
  /\ pc \in {"code_graph", "chunk", "embed"}
  /\ Abort
  /\ UNCHANGED <<disk, cache, request, failure, builds>>

(* The process dies.                                                       *)
Crash ==
  /\ pc \notin Ended /\ pc' = "dead" /\ tx' = disk
  /\ UNCHANGED <<disk, cache, request, source, failure, builds>>

Next ==
  \/ Start \/ ScipJavaDone \/ ScipJavaFails
  \/ Prepare \/ Clear \/ WriteDocuments \/ WriteSymbols \/ CommitRows \/ RecordStats \/ SourceFails
  \/ BuildCodeGraph \/ BuildChunks \/ EmbedSome \/ EmbedDone \/ StageFails
  \/ Crash

Spec == Init /\ [][Next]_vars

-----------------------------------------------------------------------------
(* Properties *)

Databases ==
  [info : Infos \cup {None},
   rows : SUBSET [build : Builds, mode : Modes, table : {"documents", "symbols"}],
   graph : SUBSET Builds, chunks : SUBSET Builds, vectors : SUBSET Builds]

(* Every variable holds a value of the shape the code gives it.            *)
TypeOK ==
  /\ disk \in Databases /\ tx \in Databases
  /\ cache \in Infos \cup {None}
  /\ pc \in Ended \cup {"scip_java", "prepare", "clear", "documents", "symbols", "commit", "stats",
                        "code_graph", "chunk", "embed"}
  /\ request \in Requests \cup {None} /\ source \in Modes /\ failure \in BOOLEAN
  /\ builds \in 0..MaxBuilds

(* Whoever opens the database, at any instant and after any failure, finds *)
(* rows of one build only, all of them or none, and an index_info that     *)
(* tells that build's mode (and so its capabilities): a fallback never     *)
(* leaves rows of the indexer it replaces, and no database is refused as   *)
(* one without index_info.                                                 *)
InfoDescribesRows ==
  /\ Openable(disk)
  /\ disk.rows # {} => disk.rows = RowsOf(disk.info.build, disk.info.mode)

(* Graph, chunks and vectors are derived from the rows that are there, and *)
(* never from those of an earlier build, another mode or another snapshot. *)
DerivedFromRows ==
  /\ disk.graph \cup disk.chunks \cup disk.vectors \subseteq BuildsOf(disk.rows)
  /\ disk.vectors \subseteq disk.chunks
  /\ disk.rows # {} /\ disk.info.mode = "document" => disk.graph = {}

(* A fallback is never silent: the index of the legacy chain is not SCIP   *)
(* exactly when index_info records scip-java's failure, fallback_mode off  *)
(* allows none, and a configured backend is the one that wrote the index.  *)
FallbackIsRecorded ==
  disk.info # None /\ disk.info.build = builds =>
    IF request.backend = ""
    THEN /\ disk.info.failure <=> disk.info.mode # "scip"
         /\ request.fallback = "off" => disk.info.mode = "scip"
    ELSE /\ ~disk.info.failure
         /\ request.backend = "scip-java" <=> disk.info.mode = "scip"
         /\ request.backend = "document" <=> disk.info.mode = "document"

(* A database belongs to one snapshot for ever; a build of another one is  *)
(* refused before it changes anything, also at the end of the fallbacks.   *)
OneSnapshot ==
  [][disk.info # None => disk'.info # None /\ disk'.info.snapshot = disk.info.snapshot]_vars
=============================================================================
