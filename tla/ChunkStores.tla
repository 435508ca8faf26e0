----------------------------- MODULE ChunkStores -----------------------------
(***************************************************************************)
(* The text chunks of an index and what is derived from them: the rows of  *)
(* chunks and of the full-text table chunks_fts, which are tied together   *)
(* by SQLite rowids, the vectors in SQLite and the vectors in LanceDB.     *)
(* One operator runs the commands ingest, chunk, embed and purge-chunks in *)
(* any order; a command may die between its commits.                       *)
(*                                                                         *)
(* A chunk's text is given by the content of its document and the chunking *)
(* configuration; a vector is given by the text it was computed from.      *)
(***************************************************************************)
EXTENDS Integers, Sequences, FiniteSets, SequencesExt

CONSTANTS
  Docs,        \* relative paths
  Contents,    \* what a file may hold; NoDoc for a path that is not there
  NoDoc,
  Kinds,       \* Kinds[c]: the kinds of chunks that configuration c makes
  Mode,        \* the write stores
  MaxCommands  \* bound on the commands explored

Configs == DOMAIN Kinds
ChunkIds == Docs \X UNION {Kinds[c] : c \in Configs}
Texts == Contents \X Configs

ASSUME ModeAssumption == Mode \in {<<"sqlite">>, <<"lance">>, <<"sqlite", "lance">>}
ASSUME FiniteAssumption == IsFiniteSet(Docs) /\ \A c \in Configs : IsFiniteSet(Kinds[c])
ASSUME BoundAssumption == MaxCommands \in Nat /\ NoDoc \notin Contents

VARIABLES
  documents,  \* path |-> content, committed
  chunks,     \* rowid |-> [id, text]
  fts,        \* the rows of chunks_fts, by rowid
  vectors,    \* chunk_id |-> text, SQLite's embeddings
  lance,      \* chunk_id |-> text, the LanceDB table
  stage,      \* "idle", or the command that is between two commits
  recut,      \* history: the chunks whose text chunk replaced by another one
  lost,       \* history: the vectors that a purge took from LanceDB before it died
  commands

vars == <<documents, chunks, fts, vectors, lance, stage, recut, lost, commands>>
history == <<recut, lost>>

Empty == [x \in {} |-> x]

Init ==
  /\ documents = [d \in Docs |-> NoDoc]
  /\ chunks = Empty /\ fts = Empty /\ vectors = Empty /\ lance = Empty
  /\ stage = "idle" /\ recut = {} /\ lost = {}
  /\ commands = 0

-----------------------------------------------------------------------------
(* Rows *)

(* f with the values of g where g has one.                                 *)
Merge(f, g) == [x \in DOMAIN f \cup DOMAIN g |-> IF x \in DOMAIN g THEN g[x] ELSE f[x]]

Without(f, X) == [x \in DOMAIN f \ X |-> f[x]]

Ids(rows) == {rows[r].id : r \in DOMAIN rows}

TextOf(id) == (CHOOSE row \in {chunks[r] : r \in DOMAIN chunks} : row.id = id).text

(* build_chunks: the chunks of every document that has content.            *)
Built(config) ==
  {[id |-> <<d, k>>, text |-> <<documents[d], config>>] :
     d \in {e \in Docs : documents[e] # NoDoc}, k \in Kinds[config]}

(* INSERT OR REPLACE by chunk_id: a replaced row goes, and each row gets   *)
(* the rowid after the largest one, replaced rows included.                *)
Upserted(rows, new) ==
  LET top == IF rows = Empty THEN 0 ELSE Max(DOMAIN rows)
      batch == SetToSeq(new)
      replaced == {r \in DOMAIN rows : rows[r].id \in {n.id : n \in new}}
  IN  Merge(Without(rows, replaced), [r \in (top + 1)..(top + Len(batch)) |-> batch[r - top]])

(* Faulty: a full-text row is written at the place of the chunk's old row. *)
FtsUpsertedEarly(new) ==
  Merge(fts, [r \in {q \in DOMAIN chunks : chunks[q].id \in {n.id : n \in new}} |->
                CHOOSE n \in new : n.id = chunks[r].id])

(* INSERT OR REPLACE into chunks_fts at the rowid of each chunk.           *)
FtsUpserted(new) ==
  LET after == Upserted(chunks, new)
  IN  Merge(fts, [r \in {q \in DOMAIN after : after[q] \in new} |-> after[r]])

(* The chunks without a row in SQLite's embeddings.                        *)
Missing == Ids(chunks) \ DOMAIN vectors

Writes(store) == \E n \in DOMAIN Mode : Mode[n] = store

-----------------------------------------------------------------------------
(* Commands *)

Begin == stage = "idle" /\ commands < MaxCommands /\ commands' = commands + 1

(* Faulty: keeps the vectors of chunks that come back.                     *)
BeginIngestKeepingVectors ==
  /\ Begin /\ stage' = "ingest"
  /\ documents' = [d \in Docs |-> NoDoc]
  /\ chunks' = Empty /\ fts' = Empty
  /\ recut' = {} /\ lost' = {}
  /\ UNCHANGED <<vectors, lance>>

(* ingest, first commit: clear_index_data empties SQLite, not LanceDB.     *)
BeginIngest ==
  /\ Begin /\ stage' = "ingest"
  /\ documents' = [d \in Docs |-> NoDoc]
  /\ chunks' = Empty /\ fts' = Empty /\ vectors' = Empty
  /\ recut' = {} /\ lost' = {}
  /\ UNCHANGED lance

(* ingest, last commit: the documents as they are now.                     *)
EndIngest ==
  /\ stage = "ingest" /\ stage' = "idle"
  /\ \E new \in [Docs -> Contents \cup {NoDoc}] : documents' = new
  /\ UNCHANGED <<chunks, fts, vectors, lance, history, commands>>

(* chunk: build_chunks upserts rows and full text in one transaction and   *)
(* leaves alone chunks it does not make and vectors that are there.        *)
Chunk(config) ==
  /\ Begin /\ Built(config) # {}
  /\ chunks' = Upserted(chunks, Built(config))
  /\ fts' = FtsUpserted(Built(config))
  /\ recut' = recut \cup {n.id : n \in {m \in Built(config) : m.id \in Ids(chunks) /\ TextOf(m.id) # m.text}}
  /\ UNCHANGED <<documents, vectors, lance, stage, lost>>

(* Faulty: an interrupted run leaves SQLite ahead of LanceDB.              *)
EmbedSqliteAhead ==
  /\ Begin
  /\ \E done \in SUBSET Missing : \E kept \in SUBSET done :
       /\ vectors' = IF Writes("sqlite") THEN Merge(vectors, [c \in done |-> TextOf(c)]) ELSE vectors
       /\ lance' = IF Writes("lance") THEN Merge(lance, [c \in kept |-> TextOf(c)]) ELSE lance
  /\ UNCHANGED <<documents, chunks, fts, stage, history>>

(* embed: vectors for some of the missing chunks, all of them unless       *)
(* batches fail.  An interrupted run keeps in SQLite a part of what        *)
(* LanceDB has, which is what EmbeddingRun promises as CommittedIsInLance. *)
Embed ==
  /\ Begin
  /\ \E done \in SUBSET Missing : \E kept \in SUBSET done :
       /\ lance' = IF Writes("lance") THEN Merge(lance, [c \in done |-> TextOf(c)]) ELSE lance
       /\ vectors' = IF Writes("sqlite") THEN Merge(vectors, [c \in kept |-> TextOf(c)]) ELSE vectors
  /\ UNCHANGED <<documents, chunks, fts, stage, history>>

(* purge-chunks, first part: every chunk is of the one snapshot, so the    *)
(* LanceDB table is dropped; without chunks nothing happens at all.        *)
BeginPurge ==
  /\ Begin /\ chunks # Empty /\ stage' = "purge"
  /\ lance' = IF Writes("lance") THEN Empty ELSE lance
  /\ UNCHANGED <<documents, chunks, fts, vectors, history>>

(* purge-chunks, second part: delete_chunks_for_repo_commit deletes the    *)
(* vectors of the chunks, the full-text rows at their rowids and the       *)
(* chunks, and commits.                                                    *)
EndPurge ==
  /\ stage = "purge" /\ stage' = "idle"
  /\ vectors' = Without(vectors, Ids(chunks))
  /\ fts' = Without(fts, DOMAIN chunks)
  /\ chunks' = Empty
  /\ recut' = {} /\ lost' = {}
  /\ UNCHANGED <<documents, lance, commands>>

(* The command dies between its commits.                                   *)
Die ==
  /\ stage # "idle" /\ stage' = "idle"
  /\ lost' = IF stage = "purge" THEN DOMAIN vectors ELSE lost
  /\ UNCHANGED <<documents, chunks, fts, vectors, lance, recut, commands>>

Next ==
  \/ BeginIngest \/ EndIngest \/ Embed \/ BeginPurge \/ EndPurge \/ Die
  \/ \E config \in Configs : Chunk(config)

Spec == Init /\ [][Next]_vars

-----------------------------------------------------------------------------
(* Safety *)

(* keyword_search joins chunks_fts and chunks by rowid: whatever rows were *)
(* replaced or deleted and whatever rowids SQLite gave out again, a chunk  *)
(* is found by its present text and never by the text of another row.      *)
KeywordHitsAreCurrent ==
  \A r \in DOMAIN chunks : r \in DOMAIN fts /\ fts[r] = chunks[r]

(* A vector in SQLite is of a chunk that is in the table, and was computed *)
(* from the content that the chunk's file was last ingested with; also     *)
(* from the text that the chunk has now, unless chunk has cut the file     *)
(* anew with other settings: it leaves the vectors alone.                  *)
VectorsFitTexts ==
  \A c \in DOMAIN vectors :
    /\ c \in Ids(chunks)
    /\ vectors[c][1] = documents[c[1]]
    /\ c \notin recut => vectors[c] = TextOf(c)

(* With dual writes no chunk has two vectors of different texts, and       *)
(* LanceDB has each vector that SQLite has: embed only asks SQLite what is *)
(* missing.  It lacks those that a purge dropped before it died, which no  *)
(* later embed brings back, and what it has beyond SQLite is left open.    *)
StoresAgree ==
  Mode = <<"sqlite", "lance">> =>
    \A c \in DOMAIN vectors :
      /\ c \in DOMAIN lance => lance[c] = vectors[c]
      /\ stage # "purge" /\ c \notin lost => c \in DOMAIN lance

(* SPECS_VS_IMPLEMENTATION: ingesting a snapshot again deletes the old one *)
(* (delete_repo_snapshot, with its vectors) first.  So LanceDB never has a *)
(* vector of a chunk that is not there.                                    *)
NoOrphanVectors ==
  stage = "idle" => DOMAIN lance \subseteq Ids(chunks)
=============================================================================
