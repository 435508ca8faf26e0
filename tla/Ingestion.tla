------------------------------ MODULE Ingestion ------------------------------
(***************************************************************************)
(* IngestionPipeline.run (ingestion.py): clear the index, stream the SCIP  *)
(* records into four lists, write a list to its table when it is full, and *)
(* commit once at the end.  An exception while streaming starts the stream *)
(* again, keeping the lists, the counters and the rows already written.    *)
(*                                                                         *)
(* A record is a place in Stream; a table is the number of rows it holds   *)
(* for each record.                                                        *)
(***************************************************************************)
EXTENDS Integers, Sequences, FiniteSets

CONSTANTS
  Stream,     \* the kind of each record of the input, in order
  BadRecords, \* records the parser may always raise on, 0 for none
  BatchSize,
  Retries,
  MaxFaults,  \* bound on the exceptions explored
  MaxRuns,    \* bound on the runs of the pipeline
  Crashes     \* whether the process may die

Kind == {"document", "symbol", "occurrence", "relation"}

ASSUME StreamAssumption == Stream \in Seq(Kind) /\ BadRecords \subseteq Nat
ASSUME SizeAssumption ==
  /\ {Retries, MaxFaults, MaxRuns} \subseteq Nat
  /\ BatchSize \in Nat \ {0}
  /\ Crashes \in BOOLEAN

Record == 1..Len(Stream)

VARIABLES
  pc,       \* idle, stream, done, raised or dead
  bad,      \* the record of this input the parser always raises on
  next,     \* records read by this attempt
  attempt,
  lists,    \* docs, symbols, occs and rels, by kind
  tx,       \* rows as the open transaction sees them
  disk,     \* rows committed
  stats,    \* IngestionStats: a counter per kind, and the failures
  failures,
  faults, runs

vars == <<pc, bad, next, attempt, lists, tx, disk, stats, failures, faults, runs>>

EmptyTables == [n \in Record |-> 0]
EmptyLists == [kind \in Kind |-> <<>>]

Init ==
  /\ pc = "idle" /\ bad = 0 /\ next = 0 /\ attempt = 0
  /\ lists = EmptyLists /\ tx = EmptyTables /\ disk = EmptyTables
  /\ stats = [kind \in Kind |-> 0] /\ failures = 0
  /\ faults = 0 /\ runs = 0

-----------------------------------------------------------------------------
(* Writing to the tables *)

(* documents and symbols have a primary key and are replaced; occurrences  *)
(* and relations get a new row for every insert.                           *)
Keyed == {"document", "symbol"}

Times(list, n) == Cardinality({i \in DOMAIN list : list[i] = n})

(* Faulty: a plain insert for every table.                                 *)
WrittenUnkeyed(rows, kinds, ls) ==
  [n \in Record |-> IF Stream[n] \in kinds THEN rows[n] + Times(ls[Stream[n]], n) ELSE rows[n]]

(* The tables after the lists of these kinds were written.                 *)
Written(rows, kinds, ls) ==
  [n \in Record |->
     IF Stream[n] \notin kinds THEN rows[n]
     ELSE IF Stream[n] \in Keyed
          THEN IF Times(ls[Stream[n]], n) > 0 THEN 1 ELSE rows[n]
          ELSE rows[n] + Times(ls[Stream[n]], n)]

Full(ls) == {kind \in Kind : Len(ls[kind]) >= BatchSize}

-----------------------------------------------------------------------------
(* The run *)

(* Faulty: clears in the open transaction only.                            *)
StartUncommitted ==
  /\ pc # "stream" /\ runs < MaxRuns
  /\ pc' = "stream" /\ runs' = runs + 1 /\ bad' \in BadRecords
  /\ tx' = EmptyTables
  /\ next' = 0 /\ attempt' = 0 /\ lists' = EmptyLists
  /\ stats' = [kind \in Kind |-> 0] /\ failures' = 0
  /\ UNCHANGED <<disk, faults>>

(* Faulty: keeps the rows of the previous run.                             *)
StartWithoutClear ==
  /\ pc # "stream" /\ runs < MaxRuns
  /\ pc' = "stream" /\ runs' = runs + 1 /\ bad' \in BadRecords
  /\ next' = 0 /\ attempt' = 0 /\ lists' = EmptyLists
  /\ stats' = [kind \in Kind |-> 0] /\ failures' = 0
  /\ UNCHANGED <<tx, disk, faults>>

(* prepare_index and clear_index_data, which commits.                      *)
Start ==
  /\ pc # "stream" /\ runs < MaxRuns
  /\ pc' = "stream" /\ runs' = runs + 1 /\ bad' \in BadRecords
  /\ tx' = EmptyTables /\ disk' = EmptyTables
  /\ next' = 0 /\ attempt' = 0 /\ lists' = EmptyLists
  /\ stats' = [kind \in Kind |-> 0] /\ failures' = 0
  /\ UNCHANGED faults

(* The next record goes to its list and is counted; full lists are written.*)
Received == [lists EXCEPT ![Stream[next + 1]] = Append(@, next + 1)]

ReadRecord ==
  /\ pc = "stream" /\ next < Len(Stream) /\ next + 1 # bad
  /\ next' = next + 1
  /\ stats' = [stats EXCEPT ![Stream[next + 1]] = @ + 1]
  /\ tx' = Written(tx, Full(Received), Received)
  /\ lists' = [kind \in Kind |-> IF kind \in Full(Received) THEN <<>> ELSE Received[kind]]
  /\ UNCHANGED <<pc, bad, attempt, disk, failures, faults, runs>>

(* Faulty: swallows the exception of the last attempt and reads on.        *)
RetryOrSwallow(rows) ==
  /\ failures' = failures /\ tx' = rows
  /\ IF attempt >= Retries
     THEN UNCHANGED <<pc, attempt, next>>
     ELSE pc' = "stream" /\ attempt' = attempt + 1 /\ next' = 0

(* The except clause, with these rows in the open transaction: start over, *)
(* or raise and let the caller close the store, which rolls back.          *)
RetryOrRaise(rows) ==
  /\ failures' = failures + 1
  /\ IF attempt >= Retries
     THEN pc' = "raised" /\ tx' = disk /\ UNCHANGED <<attempt, next>>
     ELSE pc' = "stream" /\ attempt' = attempt + 1 /\ next' = 0 /\ tx' = rows

(* The parser raises before the next record, or at the end of the input.   *)
ParserRaises ==
  /\ pc = "stream"
  /\ \/ next + 1 = bad /\ UNCHANGED faults
     \/ faults < MaxFaults /\ faults' = faults + 1
  /\ RetryOrRaise(tx)
  /\ UNCHANGED <<bad, lists, disk, stats, runs>>

(* The lists that are written, and cleared, before the one of a kind.      *)
WrittenBefore ==
  [document |-> {}, symbol |-> {"document"}, occurrence |-> {"document", "symbol"},
   relation |-> {"document", "symbol", "occurrence"}]

(* How many of its rows a list may get in before its write raises; symbols *)
(* are in their table before the full-text statements.                     *)
GotIn(kind, list) == 0..(IF kind = "symbol" THEN Len(list) ELSE Len(list) - 1)

(* The next record fills a list, and writing one raises: what got in stays *)
(* in the open transaction, and the list keeps all of it.                  *)
WriteRaises ==
  /\ pc = "stream" /\ next < Len(Stream) /\ next + 1 # bad
  /\ faults < MaxFaults
  /\ faults' = faults + 1
  /\ stats' = [stats EXCEPT ![Stream[next + 1]] = @ + 1]
  /\ \E kind \in Full(Received) : \E n \in GotIn(kind, Received[kind]) :
       LET done == Full(Received) \cap WrittenBefore[kind]
           part == [Received EXCEPT ![kind] = SubSeq(@, 1, n)]
       IN /\ lists' = [k \in Kind |-> IF k \in done THEN <<>> ELSE Received[k]]
          /\ RetryOrRaise(Written(tx, done \cup {kind}, part))
  /\ UNCHANGED <<bad, disk, runs>>

(* The end of the input: write what is left in the lists and commit.       *)
Complete ==
  /\ pc = "stream" /\ next = Len(Stream)
  /\ pc' = "done"
  /\ tx' = Written(tx, Kind, lists) /\ disk' = tx'
  /\ UNCHANGED <<bad, next, attempt, lists, stats, failures, faults, runs>>

(* The last writes or the commit raise: no retry covers them.              *)
CompleteRaises ==
  /\ pc = "stream" /\ next = Len(Stream) /\ faults < MaxFaults
  /\ faults' = faults + 1
  /\ pc' = "raised" /\ tx' = disk
  /\ UNCHANGED <<bad, next, attempt, lists, disk, stats, failures, runs>>

(* The process dies; SQLite rolls the open transaction back.               *)
Crash ==
  /\ Crashes /\ pc = "stream"
  /\ pc' = "dead" /\ tx' = disk
  /\ UNCHANGED <<bad, next, attempt, lists, disk, stats, failures, faults, runs>>

RunStep == ReadRecord \/ ParserRaises \/ WriteRaises \/ Complete \/ CompleteRaises

Next == Start \/ RunStep \/ Crash

Spec == Init /\ [][Next]_vars

FairSpec == Spec /\ WF_vars(RunStep)

-----------------------------------------------------------------------------
(* Properties *)

(* A completed run has every record in its table, however often it was     *)
(* retried, and has each document and each symbol once.                    *)
CompletedRunHasAll ==
  pc = "done" => \A n \in Record : disk[n] >= 1 /\ (Stream[n] \in Keyed => disk[n] = 1)

(* A completed run without exceptions has each record exactly once and     *)
(* counted each once, whatever the runs before it left: running again      *)
(* overwrites.                                                             *)
CleanRunIsExact ==
  pc = "done" /\ failures = 0 =>
    /\ \A n \in Record : disk[n] = 1
    /\ \A kind \in Kind : stats[kind] = Cardinality({n \in Record : Stream[n] = kind})

(* Readers of the database see a whole ingestion or none: nothing of a run *)
(* that is under way, raised or died is committed.                         *)
NoPartialIngestion ==
  pc # "done" => disk = EmptyTables

(* Retrying is idempotent: a completed run has each record once ("a        *)
(* re-entrant, retryable" pipeline; "a rerun of the same commit is         *)
(* stable").                                                               *)
RetryIsIdempotent ==
  pc = "done" => \A n \in Record : disk[n] = 1

(* A run that does not die ends, in success or with the exception of its   *)
(* last attempt, also when a record raises every time.                     *)
RunEnds == pc = "stream" ~> pc # "stream"

=============================================================================
