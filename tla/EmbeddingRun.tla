---------------------------- MODULE EmbeddingRun ----------------------------
(***************************************************************************)
(* EmbeddingPipeline.run (embedding.py): page through the chunks that have *)
(* no vector yet, embed them in batches on a thread pool, and write the    *)
(* vectors out through a buffer, to SQLite inside a transaction that is    *)
(* committed every few flushes and to LanceDB at once.                     *)
(*                                                                         *)
(* Chunks are numbered in the order of chunk_id.  A run may be interrupted *)
(* anywhere: the process dies, or a store or the progress callback raises  *)
(* and the caller closes the store; what SQLite did not commit is lost.    *)
(***************************************************************************)
EXTENDS Integers, Sequences, FiniteSets

CONSTANTS
  ChunkCount,    \* chunks in the index
  BatchSize,
  FetchLimit,    \* stream_fetch_limit
  CommitEvery,   \* stream_commit_every_batches
  Settings,      \* the configurations a run may start with: its write stores
                 \* (vector.write_mode), workers (max_workers) and write buffer
                 \* (stream_write_buffer_chunks, 0 for none)
  MaxRuns,       \* bound on the runs explored
  Interruptions  \* whether a run may be interrupted

Stores == {"sqlite", "lance"}
WriteModes == {<<"sqlite">>, <<"lance">>, <<"sqlite", "lance">>}

ASSUME SizeAssumption ==
  /\ {ChunkCount, MaxRuns} \subseteq Nat
  /\ {BatchSize, FetchLimit, CommitEvery} \subseteq Nat \ {0}
  /\ FetchLimit >= BatchSize
ASSUME SettingAssumption ==
  /\ Settings \subseteq [stores : WriteModes, workers : Nat \ {0}, buffer : Nat]
  /\ Interruptions \in BOOLEAN

Chunk == 1..ChunkCount

VARIABLES
  disk,      \* SQLite's embeddings, committed
  tx,        \* the same as the run's connection sees them
  lance,     \* the LanceDB table
  pc,        \* where the main thread is: idle after a run, dead after an interruption
  setting,   \* the run's configuration
  after,     \* after_chunk_id, 0 for None
  futures,   \* the batches of the page, in the order they were submitted
  buffer,    \* pending_write, oldest key first
  out,       \* the vectors of the flush under way
  todo,      \* the stores the flush has still to write
  flushes,   \* flushes_since_sqlite_commit
  stats,     \* attempted_chunks, embedded_chunks and failed_chunks
  runs

database == <<disk, tx, lance>>
locals == <<setting, after, futures, buffer, out, todo, flushes, stats>>
vars == <<database, pc, locals, runs>>

mode == setting.stores
MaxWorkers == setting.workers
WriteBuffer == setting.buffer

NoStats == [attempted |-> 0, embedded |-> 0, failed |-> 0]

Init ==
  /\ disk = {} /\ tx = {} /\ lance = {}
  /\ pc = "idle"
  /\ setting \in Settings
  /\ after = 0 /\ futures = <<>> /\ buffer = <<>> /\ out = {} /\ todo = <<>>
  /\ flushes = 0 /\ stats = NoStats /\ runs = 0

-----------------------------------------------------------------------------
(* Queries and data *)

(* The chunks without a row in SQLite's embeddings table.                  *)
Missing == Chunk \ tx

InOrder(S) ==
  [n \in 1..Cardinality(S) |-> CHOOSE c \in S : Cardinality({d \in S : d <= c}) = n]

(* Faulty: pages by the missing rows alone, without the cursor.            *)
PageFromStart == {c \in Missing : Cardinality({d \in Missing : d <= c}) <= FetchLimit}

(* fetch_chunks_missing_embeddings_page: the next rows after the cursor.   *)
Page ==
  LET rest == {c \in Missing : c > after}
  IN  {c \in rest : Cardinality({d \in rest : d <= c}) <= FetchLimit}

(* The page cut into batches of BatchSize, each waiting for its result.    *)
Batches(page) ==
  LET row(c) == Cardinality({d \in page : d < c})
      count == (Cardinality(page) + BatchSize - 1) \div BatchSize
  IN  [b \in 1..count |-> [chunks |-> {c \in page : row(c) \div BatchSize = b - 1},
                           state |-> "submitted"]]

-----------------------------------------------------------------------------
(* The run *)

(* run: nothing to do ends it at once.                                     *)
StartRun ==
  /\ pc \in {"idle", "dead"} /\ runs < MaxRuns
  /\ setting' \in Settings
  /\ stats' = [NoStats EXCEPT !.attempted = Cardinality(Missing)]
  /\ pc' = IF Missing = {} THEN "idle" ELSE "fetch"
  /\ after' = 0 /\ futures' = <<>> /\ buffer' = <<>> /\ flushes' = 0
  /\ runs' = runs + 1
  /\ UNCHANGED <<database, out, todo>>

(* The next page, its batches submitted to the pool; none: the last flush. *)
FetchPage ==
  /\ pc = "fetch"
  /\ IF Page = {}
     THEN pc' = "force" /\ UNCHANGED <<after, futures>>
     ELSE /\ pc' = "collect"
          /\ after' = CHOOSE c \in Page : \A d \in Page : d <= c
          /\ futures' = Batches(Page)
  /\ UNCHANGED <<database, setting, buffer, out, todo, flushes, stats, runs>>

Unfinished(b) == futures[b].state = "submitted"

(* A worker gets batch b's vectors, or gives up after its retries.  Workers*)
(* take batches in order; one worker is no pool: the batch before it was   *)
(* handled first.                                                          *)
EmbedBatch(b, result) ==
  /\ b \in DOMAIN futures /\ Unfinished(b)
  /\ IF MaxWorkers = 1
     THEN pc = "collect" /\ \A a \in 1..(b - 1) : futures[a].state = "handled"
     ELSE Cardinality({a \in 1..(b - 1) : Unfinished(a)}) < MaxWorkers
  /\ futures' = [futures EXCEPT ![b].state = result]
  /\ UNCHANGED <<database, pc, setting, after, buffer, out, todo, flushes, stats, runs>>

(* Faulty: a failed batch is submitted again.                              *)
HandleFailedAgain(b) ==
  /\ pc = "collect" /\ b \in DOMAIN futures /\ futures[b].state = "failed"
  /\ futures' = [futures EXCEPT ![b].state = "submitted"]
  /\ UNCHANGED <<database, pc, setting, after, buffer, out, todo, flushes, stats, runs>>

(* _handle_result of a failed batch: counted and skipped.                  *)
HandleFailed(b) ==
  /\ pc = "collect" /\ b \in DOMAIN futures /\ futures[b].state = "failed"
  /\ futures' = [futures EXCEPT ![b].state = "handled"]
  /\ stats' = [stats EXCEPT !.failed = @ + Cardinality(futures[b].chunks)]
  /\ UNCHANGED <<database, pc, setting, after, buffer, out, todo, flushes, runs>>

(* _handle_result of an embedded batch without a buffer: flush it.         *)
HandleDirect(b) ==
  /\ pc = "collect" /\ b \in DOMAIN futures /\ futures[b].state = "embedded"
  /\ WriteBuffer = 0
  /\ futures' = [futures EXCEPT ![b].state = "handled"]
  /\ stats' = [stats EXCEPT !.embedded = @ + Cardinality(futures[b].chunks)]
  /\ out' = futures[b].chunks /\ todo' = mode /\ flushes' = flushes + 1
  /\ pc' = "write"
  /\ UNCHANGED <<database, setting, after, buffer, runs>>

(* _handle_result of an embedded batch with a buffer: add it and drain.    *)
HandleBuffered(b) ==
  /\ pc = "collect" /\ b \in DOMAIN futures /\ futures[b].state = "embedded"
  /\ WriteBuffer > 0
  /\ futures' = [futures EXCEPT ![b].state = "handled"]
  /\ stats' = [stats EXCEPT !.embedded = @ + Cardinality(futures[b].chunks)]
  /\ buffer' = buffer \o InOrder(futures[b].chunks)
  /\ pc' = "drain"
  /\ UNCHANGED <<database, setting, after, out, todo, flushes, runs>>

(* How many vectors _drain_write_buffer takes for its next flush.          *)
FlushWidth ==
  CASE pc = "force" -> Len(buffer)
    [] pc # "force" /\ Len(buffer) >= WriteBuffer -> WriteBuffer
    [] OTHER -> 0

(* One round of _drain_write_buffer: flush the oldest vectors.             *)
DrainFlush ==
  /\ pc \in {"drain", "force"} /\ FlushWidth > 0
  /\ out' = {buffer[n] : n \in 1..FlushWidth}
  /\ buffer' = SubSeq(buffer, FlushWidth + 1, Len(buffer))
  /\ todo' = mode /\ flushes' = flushes + 1
  /\ pc' = IF pc = "force" THEN "writeForced" ELSE "write"
  /\ UNCHANGED <<database, setting, after, futures, stats, runs>>

(* _drain_write_buffer returns: to the next result, or to the last commit. *)
DrainDone ==
  /\ pc \in {"drain", "force"} /\ FlushWidth = 0
  /\ pc' = IF pc = "force" THEN "close" ELSE "collect"
  /\ UNCHANGED <<database, locals, runs>>

(* _flush_embedding_batch: one vector store takes the flush.               *)
WriteStore ==
  /\ pc \in {"write", "writeForced"} /\ todo # <<>>
  /\ tx' = IF Head(todo) = "sqlite" THEN tx \cup out ELSE tx
  /\ lance' = IF Head(todo) = "lance" THEN lance \cup out ELSE lance
  /\ todo' = Tail(todo)
  /\ UNCHANGED <<disk, pc, setting, after, futures, buffer, out, flushes, stats, runs>>

(* Faulty: SQLite is committed before LanceDB has taken the flush.         *)
EndFlushEarly ==
  /\ pc \in {"write", "writeForced"}
  /\ disk' = IF flushes >= CommitEvery THEN tx ELSE disk
  /\ flushes' = IF flushes >= CommitEvery THEN 0 ELSE flushes
  /\ pc' = CASE todo # <<>> -> pc
             [] todo = <<>> /\ pc = "writeForced" -> "force"
             [] todo = <<>> /\ pc = "write" -> IF WriteBuffer = 0 THEN "collect" ELSE "drain"
  /\ UNCHANGED <<tx, lance, setting, after, futures, buffer, out, todo, stats, runs>>

(* The flush reached every store; every CommitEvery flushes SQLite commits.*)
EndFlush ==
  /\ pc \in {"write", "writeForced"} /\ todo = <<>>
  /\ IF flushes >= CommitEvery
     THEN disk' = tx /\ flushes' = 0
     ELSE UNCHANGED <<disk, flushes>>
  /\ pc' = CASE pc = "writeForced" -> "force"
             [] pc = "write" -> IF WriteBuffer = 0 THEN "collect" ELSE "drain"
  /\ UNCHANGED <<tx, lance, setting, after, futures, buffer, out, todo, stats, runs>>

(* Every batch of the page was handled: next page.                         *)
PageDone ==
  /\ pc = "collect" /\ \A b \in DOMAIN futures : futures[b].state = "handled"
  /\ pc' = "fetch"
  /\ UNCHANGED <<database, locals, runs>>

(* Faulty: forgets the flushes after the last regular commit.              *)
CloseWithoutCommit ==
  /\ pc = "close" /\ pc' = "idle" /\ tx' = disk
  /\ UNCHANGED <<disk, lance, locals, runs>>

(* The last commit; run returns and the caller closes the store.           *)
Close ==
  /\ pc = "close" /\ pc' = "idle"
  /\ disk' = IF flushes > 0 THEN tx ELSE disk
  /\ tx' = disk'
  /\ flushes' = 0
  /\ UNCHANGED <<lance, setting, after, futures, buffer, out, todo, stats, runs>>

(* The run dies where it stands, and with it all that is not on disk.      *)
Interrupt ==
  /\ Interruptions /\ pc \notin {"idle", "dead"} /\ pc' = "dead"
  /\ tx' = disk
  /\ after' = 0 /\ futures' = <<>> /\ buffer' = <<>> /\ out' = {} /\ todo' = <<>>
  /\ flushes' = 0 /\ stats' = NoStats
  /\ UNCHANGED <<disk, lance, setting, runs>>

MainStep ==
  \/ FetchPage \/ DrainFlush \/ DrainDone \/ WriteStore \/ EndFlush \/ PageDone \/ Close
  \/ \E b \in DOMAIN futures : HandleFailed(b) \/ HandleDirect(b) \/ HandleBuffered(b)

WorkerStep == \E b \in DOMAIN futures : \E result \in {"embedded", "failed"} : EmbedBatch(b, result)

Next == StartRun \/ MainStep \/ WorkerStep \/ Interrupt

Spec == Init /\ [][Next]_vars

(* The main thread runs on, and a provider call ends within its timeout.   *)
FairSpec == Spec /\ WF_vars(MainStep) /\ WF_vars(WorkerStep)

-----------------------------------------------------------------------------
(* Safety *)

Contents(store) == IF store = "sqlite" THEN disk ELSE lance

RunCompleted == pc = "idle" /\ runs > 0

(* A chunk is embedded or given up once in a run: no page repeats a chunk  *)
(* that waits in the buffer or whose batch failed.                         *)
NoChunkTwice ==
  /\ stats.embedded + stats.failed <= stats.attempted
  /\ \A a, b \in DOMAIN futures : a # b => futures[a].chunks \cap futures[b].chunks = {}
  /\ \A b \in DOMAIN futures : \A n \in DOMAIN buffer :
       Unfinished(b) => buffer[n] \notin futures[b].chunks

(* When a run returns, each chunk it set out to embed was embedded or is   *)
(* counted as failed, and what it embedded has reached every store it      *)
(* writes: nothing stays behind in the buffer or in the open transaction.  *)
RunAccountsForAll ==
  RunCompleted =>
    /\ stats.embedded + stats.failed = stats.attempted
    /\ \A n \in DOMAIN mode : Cardinality(Chunk \ Contents(mode[n])) <= stats.failed

(* With dual writes a vector that SQLite has committed is in LanceDB too,  *)
(* at every instant: the next run, which asks SQLite only, would never     *)
(* write it there.                                                         *)
CommittedIsInLance == disk \subseteq lance

(* Dual writes complete LanceDB: once a run with both stores returns, a    *)
(* chunk without a vector in LanceDB is one that the run gave up ("this    *)
(* step writes the vectors of the current chunks to SQLite and LanceDB").  *)
DualRunFillsLance ==
  RunCompleted /\ mode = <<"sqlite", "lance">> =>
    Cardinality(Chunk \ lance) <= stats.failed

-----------------------------------------------------------------------------
(* Liveness *)

(* A run that is not interrupted returns, however many batches fail.       *)
RunEnds == pc = "fetch" ~> pc \in {"idle", "dead"}
=============================================================================
