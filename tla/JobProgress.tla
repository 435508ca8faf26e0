---------------------------- MODULE JobProgress ----------------------------
(***************************************************************************)
(* What a client sees of an index job: IndexJobRecord (admin_index_jobs.py)*)
(* follows the messages that the build (index_build_runner.py) and its     *)
(* pipeline (embedding.py) emit, in the order they emit them.              *)
(*                                                                         *)
(* Percentages are in hundredths and are rounded down.  The messages are   *)
(* records; what they only carry for the log is left out.                  *)
(***************************************************************************)
EXTENDS Integers, Sequences

CONSTANTS
  Docs,       \* documents a build may have: a set of numbers
  Pending,    \* chunks it may have to embed: a set of numbers
  BatchSize,
  FetchLimit, \* stream_fetch_limit
  MaxKept     \* max_keep of append_message, 30 in the code

ASSUME ProgressAssumption ==
  Docs \cup Pending \cup {MaxKept} \subseteq Nat /\ {BatchSize, FetchLimit} \subseteq Nat \ {0}

Hundred == 10000
NoTotal == -1

VARIABLES
  record,  \* status, current_stage, percent, messages kept
  script   \* the messages still to come from the build

progressVars == <<record, script>>

-----------------------------------------------------------------------------
(* The messages of a build *)

StageMessage(stage, status) == [phase |-> "pipeline.stage", stage |-> stage, status |-> status, current |-> 0, total |-> NoTotal]
Bare(phase) == [phase |-> phase, stage |-> "", status |-> "", current |-> 0, total |-> NoTotal]
Counted(phase, current, total) ==
  [phase |-> phase, stage |-> "", status |-> "", current |-> current, total |-> total]

Ceil(a, b) == (a + b - 1) \div b

(* The messages of build_chunks and of run for every document and batch;   *)
(* those in the middle may be skipped (see Skip).                          *)
ChunkMessages(docs) ==
  <<Bare("build_chunks.start")>>
  \o [n \in 1..docs |-> Counted("build_chunks.progress", n, docs)]
  \o <<Bare("build_chunks.done")>>

(* Batches are counted over all chunks but made page by page, so that more *)
(* of them may come than were announced.                                   *)
Announced(pending) == Ceil(pending, BatchSize)
Made(pending) ==
  (pending \div FetchLimit) * Ceil(FetchLimit, BatchSize) + Ceil(pending % FetchLimit, BatchSize)

EmbedMessages(pending) ==
  IF pending = 0 THEN <<Bare("embed.done")>>
  ELSE <<Bare("embed.start")>>
       \o [n \in 1..Made(pending) |-> Counted("embed.progress", n, Announced(pending))]
       \o <<Bare("embed.done")>>

(* scipJava: scip-java is tried first.  graph: the rows have symbols.      *)
SourceStages(scipJava) ==
  (IF scipJava THEN <<StageMessage("scip_java", "start"), StageMessage("scip_java", "done")>> ELSE <<>>)
  \o <<StageMessage("ingest", "start"), StageMessage("ingest", "done")>>

GraphStages(graph) ==
  IF graph THEN <<StageMessage("build_code_graph", "start"), StageMessage("build_code_graph", "done")>> ELSE <<>>

Script(scipJava, graph, docs, pending) ==
  SourceStages(scipJava) \o GraphStages(graph)
  \o <<StageMessage("chunk", "start")>> \o ChunkMessages(docs) \o <<StageMessage("chunk", "done")>>
  \o <<StageMessage("embed", "start")>> \o EmbedMessages(pending) \o <<StageMessage("embed", "done")>>

-----------------------------------------------------------------------------
(* apply_progress_message *)

AtLeast(a, b) == IF a < b THEN b ELSE a

(* Faulty: more batches than announced pass one hundred.                   *)
Unclamped(percent) == AtLeast(percent, 0)

Clamped(percent) == IF percent > Hundred THEN Hundred ELSE AtLeast(percent, 0)

StagePercent(m, percent) ==
  CASE m.stage = "scip_java" -> IF m.status = "start" THEN 200 ELSE 1500
    [] m.stage = "ingest" -> IF m.status = "start" THEN AtLeast(percent, 1500) ELSE 3000
    [] m.stage = "chunk" -> IF m.status = "start" THEN AtLeast(percent, 3000) ELSE 7000
    [] m.stage = "embed" -> IF m.status = "start" THEN AtLeast(percent, 7000) ELSE Hundred
    [] OTHER -> percent

PhasePercent(m, percent) ==
  CASE m.phase = "pipeline.stage" -> StagePercent(m, percent)
    [] m.phase = "build_chunks.start" -> AtLeast(percent, 3000)
    [] m.phase = "build_chunks.progress" /\ m.total > 0 -> 3000 + (4000 * m.current) \div m.total
    [] m.phase = "build_chunks.done" -> 7000
    [] m.phase = "embed.start" -> AtLeast(percent, 7000)
    [] m.phase = "embed.progress" /\ m.total > 0 -> 7000 + (3000 * m.current) \div m.total
    [] m.phase = "embed.done" -> Hundred
    [] OTHER -> percent

StageShown(m) ==
  IF m.phase = "pipeline.stage" THEN m.stage
  ELSE IF m.phase \in {"embed.start", "embed.progress", "embed.done"} THEN "embed" ELSE "chunk"

Kept(messages) ==
  IF Len(messages) > MaxKept THEN SubSeq(messages, Len(messages) - MaxKept + 1, Len(messages)) ELSE messages

-----------------------------------------------------------------------------
ProgressInit ==
  /\ record = [status |-> "queued", stage |-> "queued", percent |-> 0, messages |-> <<>>]
  /\ script = <<>>

(* set_running, and the build that the worker then runs.                   *)
SetRunning(scipJava, graph, docs, pending) ==
  /\ record.status = "queued"
  /\ record' = [record EXCEPT !.status = "running", !.stage = "starting"]
  /\ script' = Script(scipJava, graph, docs, pending)

Apply ==
  /\ record.status = "running" /\ script # <<>>
  /\ LET m == Head(script) IN
       record' = [record EXCEPT !.percent = Clamped(PhasePercent(m, @)), !.stage = StageShown(m),
                                !.messages = Kept(Append(@, m))]
  /\ script' = Tail(script)

(* Batches are told of if first, last, every so many or five seconds late. *)
(* Documents likewise, and not at all those whose definitions made chunks. *)
Skip ==
  /\ record.status = "running" /\ script # <<>>
  /\ LET m == Head(script) IN
       \/ m.phase = "build_chunks.progress"
       \/ m.phase = "embed.progress" /\ m.current \notin {1, m.total}
  /\ script' = Tail(script) /\ UNCHANGED record

(* _finish_job                                                             *)
Succeed ==
  /\ record.status = "running" /\ script = <<>>
  /\ record' = [record EXCEPT !.status = "succeeded", !.stage = "done", !.percent = Hundred]
  /\ UNCHANGED script

Fail ==
  /\ record.status = "running"
  /\ record' = [record EXCEPT !.status = "failed", !.stage = "failed"]
  /\ script' = <<>>

ProgressNext ==
  \/ \E scipJava, graph \in BOOLEAN, docs \in Docs, pending \in Pending :
       SetRunning(scipJava, graph, docs, pending)
  \/ Apply \/ Skip \/ Succeed \/ Fail

ProgressSpec == ProgressInit /\ [][ProgressNext]_progressVars

-----------------------------------------------------------------------------
(* A client that polls sees the percentage of its job rise to 100 and      *)
(* never fall, whichever stages the backend has and however many more      *)
(* batches than announced the pages make; a job that succeeds shows 100.   *)
PercentNeverFalls ==
  [][/\ record'.percent >= record.percent
     /\ record'.status = "succeeded" => record'.percent = Hundred]_progressVars
=============================================================================
