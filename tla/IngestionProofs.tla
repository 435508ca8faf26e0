--------------------------- MODULE IngestionProofs ---------------------------
(***************************************************************************)
(* Proofs about the ingestion for any input, batch size, number of retries *)
(* and sequence of exceptions and crashes.                                 *)
(***************************************************************************)
EXTENDS Ingestion, FiniteSetTheorems, SequenceTheorems, TLAPS

(* Every record this attempt has read is in its table or in its list, and  *)
(* no keyed table has a row twice.                                         *)
HoldsInv ==
  /\ pc = "stream" => \A n \in 1..next :
       tx[n] >= 1 \/ \E i \in DOMAIN lists[Stream[n]] : lists[Stream[n]][i] = n
  /\ \A n \in Record : Stream[n] \in Keyed => tx[n] <= 1
  /\ CompletedRunHasAll

ShapeInv ==
  /\ next \in 0..Len(Stream)
  /\ attempt \in 0..Retries
  /\ lists \in [Kind -> Seq(Record)]
  /\ tx \in [Record -> Nat] /\ disk \in [Record -> Nat]

Inv == ShapeInv /\ HoldsInv /\ NoPartialIngestion

LEMMA StreamKinds ==
  /\ Len(Stream) \in Nat
  /\ \A n \in Record : Stream[n] \in Kind
BY StreamAssumption DEF Record

(* A record is counted in a list exactly when the list has it.             *)
LEMMA TimesPositive ==
  ASSUME NEW list \in Seq(Record), NEW n
  PROVE  /\ Times(list, n) \in Nat
         /\ Times(list, n) > 0 <=> \E i \in DOMAIN list : list[i] = n
<1> DEFINE T == {i \in DOMAIN list : list[i] = n}
<1>1. Len(list) \in Nat /\ DOMAIN list = 1..Len(list)
  BY LenProperties
<1>2. IsFiniteSet(DOMAIN list)
  BY <1>1, FS_Interval
<1>3. IsFiniteSet(T) /\ T \in SUBSET DOMAIN list
  BY <1>2, FS_Subset
<1>4. Cardinality(T) \in Nat /\ (Cardinality(T) = 0 <=> T = {})
  BY <1>3, FS_CardinalityType, FS_EmptySet
<1> QED
  BY <1>4 DEF Times

(* Writing lists loses no row, writes what the lists hold, and keeps the   *)
(* keyed tables without duplicates.                                        *)
LEMMA WrittenRows ==
  ASSUME NEW rows \in [Record -> Nat], NEW kinds, NEW ls \in [Kind -> Seq(Record)],
         NEW n \in Record
  PROVE  /\ Written(rows, kinds, ls)[n] \in Nat
         /\ rows[n] >= 1 => Written(rows, kinds, ls)[n] >= 1
         /\ Stream[n] \in kinds /\ (\E i \in DOMAIN ls[Stream[n]] : ls[Stream[n]][i] = n)
              => Written(rows, kinds, ls)[n] >= 1
         /\ Stream[n] \in Keyed /\ rows[n] <= 1 => Written(rows, kinds, ls)[n] <= 1
<1>1. ls[Stream[n]] \in Seq(Record)
  BY StreamKinds
<1>2. /\ Times(ls[Stream[n]], n) \in Nat
      /\ Times(ls[Stream[n]], n) > 0 <=> \E i \in DOMAIN ls[Stream[n]] : ls[Stream[n]][i] = n
  BY <1>1, TimesPositive
<1>3. Written(rows, kinds, ls)[n] =
        IF Stream[n] \notin kinds THEN rows[n]
        ELSE IF Stream[n] \in Keyed
             THEN IF Times(ls[Stream[n]], n) > 0 THEN 1 ELSE rows[n]
             ELSE rows[n] + Times(ls[Stream[n]], n)
  BY DEF Written
<1>4. rows[n] \in Nat
  OBVIOUS
<1> QED
  BY <1>2, <1>3, <1>4

LEMMA WrittenType ==
  ASSUME NEW rows \in [Record -> Nat], NEW kinds, NEW ls \in [Kind -> Seq(Record)]
  PROVE  Written(rows, kinds, ls) \in [Record -> Nat]
<1>1. \A n \in Record : Written(rows, kinds, ls)[n] \in Nat
  BY WrittenRows
<1>2. Written(rows, kinds, ls) = [n \in Record |-> Written(rows, kinds, ls)[n]]
  BY DEF Written
<1> QED
  BY <1>1, <1>2

(* The list that receives the next record has it and all it had.           *)
LEMMA ReceivedLists ==
  ASSUME ShapeInv, next < Len(Stream)
  PROVE  /\ Received \in [Kind -> Seq(Record)]
         /\ \A kind \in Kind : \A n :
              (\E i \in DOMAIN lists[kind] : lists[kind][i] = n)
                => \E i \in DOMAIN Received[kind] : Received[kind][i] = n
         /\ \E i \in DOMAIN Received[Stream[next + 1]] : Received[Stream[next + 1]][i] = next + 1
<1> DEFINE s == Stream[next + 1]
<1>1. next + 1 \in Record /\ s \in Kind
  BY StreamKinds DEF ShapeInv, Record
<1>2. lists[s] \in Seq(Record) /\ lists \in [Kind -> Seq(Record)]
  BY <1>1 DEF ShapeInv
<1>3. /\ Append(lists[s], next + 1) \in Seq(Record)
      /\ Len(lists[s]) \in Nat
      /\ DOMAIN Append(lists[s], next + 1) = 1..(Len(lists[s]) + 1)
      /\ DOMAIN lists[s] = 1..Len(lists[s])
      /\ \A i \in DOMAIN lists[s] : Append(lists[s], next + 1)[i] = lists[s][i]
      /\ Append(lists[s], next + 1)[Len(lists[s]) + 1] = next + 1
  BY <1>1, <1>2
<1>4. /\ Received = [lists EXCEPT ![s] = Append(lists[s], next + 1)]
      /\ Received[s] = Append(lists[s], next + 1)
      /\ \A kind \in Kind \ {s} : Received[kind] = lists[kind]
  BY <1>1, <1>2 DEF Received
<1>5. Received \in [Kind -> Seq(Record)]
  BY <1>1, <1>2, <1>3, <1>4
<1>6. ASSUME NEW kind \in Kind, NEW n, NEW i \in DOMAIN lists[kind], lists[kind][i] = n
      PROVE  \E m \in DOMAIN Received[kind] : Received[kind][m] = n
  <2>1. CASE kind = s
    <3>1. i \in DOMAIN Received[kind] /\ Received[kind][i] = n
      BY <1>3, <1>4, <1>6, <2>1
    <3> QED
      BY <3>1
  <2>2. CASE kind # s
    BY <1>4, <1>6, <2>2
  <2> QED
    BY <2>1, <2>2
<1>7. Len(lists[s]) + 1 \in DOMAIN Received[s] /\ Received[s][Len(lists[s]) + 1] = next + 1
  BY <1>3, <1>4
<1> QED
  BY <1>5, <1>6, <1>7

LEMMA InvInit == Init => Inv
<1> SUFFICES ASSUME Init PROVE Inv
  OBVIOUS
<1>1. ShapeInv
  BY SizeAssumption, StreamKinds DEF Init, ShapeInv, EmptyLists, EmptyTables
<1>2. HoldsInv
  BY DEF Init, HoldsInv, CompletedRunHasAll, EmptyTables
<1> QED
  BY <1>1, <1>2 DEF Inv, Init, NoPartialIngestion

LEMMA StartKeepsInv == Inv /\ Start => Inv'
<1> SUFFICES ASSUME Inv, Start PROVE Inv'
  OBVIOUS
<1>1. ShapeInv'
  BY SizeAssumption, StreamKinds DEF Start, Inv, ShapeInv, EmptyLists, EmptyTables
<1>2. HoldsInv'
  BY DEF Start, HoldsInv, CompletedRunHasAll, EmptyTables
<1> QED
  BY <1>1, <1>2 DEF Inv, Start, NoPartialIngestion

LEMMA ReadRecordKeepsInv == Inv /\ ReadRecord => Inv'
<1> SUFFICES ASSUME Inv, ReadRecord PROVE Inv'
  OBVIOUS
<1> DEFINE full == Full(Received)
<1>1. /\ pc = "stream" /\ pc' = "stream" /\ next < Len(Stream) /\ next' = next + 1
      /\ tx' = Written(tx, full, Received)
      /\ lists' = [kind \in Kind |-> IF kind \in full THEN <<>> ELSE Received[kind]]
      /\ disk' = disk /\ attempt' = attempt
  BY DEF ReadRecord
<1>2. /\ Received \in [Kind -> Seq(Record)]
      /\ \A kind \in Kind : \A n :
           (\E i \in DOMAIN lists[kind] : lists[kind][i] = n)
             => \E i \in DOMAIN Received[kind] : Received[kind][i] = n
      /\ \E i \in DOMAIN Received[Stream[next + 1]] : Received[Stream[next + 1]][i] = next + 1
  BY <1>1, ReceivedLists DEF Inv
<1> HIDE DEF full
<1>3. next' \in 0..Len(Stream) /\ next \in Nat
  BY <1>1, StreamKinds DEF Inv, ShapeInv
<1>4. lists' \in [Kind -> Seq(Record)]
  BY <1>1, <1>2
<1>5. ShapeInv'
  BY <1>1, <1>2, <1>3, <1>4, WrittenType DEF Inv, ShapeInv
<1>6. ASSUME NEW n \in 1..next'
      PROVE  tx'[n] >= 1 \/ \E i \in DOMAIN lists'[Stream[n]] : lists'[Stream[n]][i] = n
  <2>1. n \in Record /\ Stream[n] \in Kind
    BY <1>3, StreamKinds DEF Record
  <2>2. tx \in [Record -> Nat]
    BY DEF Inv, ShapeInv
  <2>3. tx[n] >= 1 \/ \E i \in DOMAIN Received[Stream[n]] : Received[Stream[n]][i] = n
    <3>1. CASE n = next + 1
      BY <1>2, <3>1
    <3>2. CASE n # next + 1
      <4>1. n \in 1..next
        BY <1>1, <1>3, <3>2
      <4> QED
        BY <1>1, <1>2, <2>1, <4>1 DEF Inv, HoldsInv
    <3> QED
      BY <3>1, <3>2
  <2>4. CASE Stream[n] \in full \/ tx[n] >= 1
    BY <1>1, <1>2, <2>1, <2>2, <2>3, <2>4, WrittenRows
  <2>5. CASE Stream[n] \notin full
    BY <1>1, <1>2, <2>1, <2>2, <2>3, <2>5, WrittenRows
  <2> QED
    BY <2>4, <2>5
<1>7. \A n \in Record : Stream[n] \in Keyed => tx'[n] <= 1
  BY <1>1, <1>2, WrittenRows DEF Inv, ShapeInv, HoldsInv
<1>8. HoldsInv'
  BY <1>1, <1>6, <1>7 DEF HoldsInv, CompletedRunHasAll
<1> QED
  BY <1>1, <1>5, <1>8 DEF Inv, NoPartialIngestion

LEMMA RetryKeepsInv ==
  ASSUME Inv, pc = "stream", NEW rows \in [Record -> Nat], RetryOrRaise(rows), disk' = disk,
         \A n \in Record : Stream[n] \in Keyed => rows[n] <= 1,
         lists' \in [Kind -> Seq(Record)]
  PROVE  Inv'
<1> USE DEF Inv, RetryOrRaise
<1>1. ShapeInv'
  BY SizeAssumption, StreamKinds DEF ShapeInv
<1>2. \A n \in Record : Stream[n] \in Keyed => tx'[n] <= 1
  BY DEF HoldsInv, NoPartialIngestion, EmptyTables
<1>3. HoldsInv'
  BY <1>2 DEF HoldsInv, CompletedRunHasAll, ShapeInv
<1> QED
  BY <1>1, <1>3 DEF NoPartialIngestion

(* What a write leaves when it raises: the rows that got in, and the lists *)
(* that were not cleared.                                                  *)
LEMMA WriteLeaves ==
  ASSUME Inv, WriteRaises
  PROVE  /\ pc = "stream" /\ disk' = disk /\ lists' \in [Kind -> Seq(Record)]
         /\ \E rows \in [Record -> Nat] :
              RetryOrRaise(rows) /\ \A n \in Record : Stream[n] \in Keyed => rows[n] <= 1
<1>1. pc = "stream" /\ disk' = disk /\ next < Len(Stream)
  BY DEF WriteRaises
<1>2. Received \in [Kind -> Seq(Record)]
  BY <1>1, ReceivedLists DEF Inv
<1>3. \A kind, list : \A k \in GotIn(kind, list) : k \in Int
  BY DEF GotIn
<1>4. PICK kind \in Full(Received), k \in Int :
        /\ k \in GotIn(kind, Received[kind])
        /\ LET done == Full(Received) \cap WrittenBefore[kind]
               part == [Received EXCEPT ![kind] = SubSeq(@, 1, k)]
           IN /\ lists' = [o \in Kind |-> IF o \in done THEN <<>> ELSE Received[o]]
              /\ RetryOrRaise(Written(tx, done \cup {kind}, part))
  BY <1>3 DEF WriteRaises
<1> DEFINE done == Full(Received) \cap WrittenBefore[kind]
           part == [Received EXCEPT ![kind] = SubSeq(Received[kind], 1, k)]
           rows == Written(tx, done \cup {kind}, part)
<1>5. kind \in Kind
  BY DEF Full
<1>6. SubSeq(Received[kind], 1, k) \in Seq(Record)
  <2>1. Received[kind] \in Seq(Record) /\ Len(Received[kind]) \in Nat
    BY <1>2, <1>5
  <2>2. k \in 0..Len(Received[kind])
    BY <1>4, <2>1 DEF GotIn
  <2> QED
    BY <2>1, <2>2, SubSeqProperties
<1>7. part \in [Kind -> Seq(Record)]
  BY <1>2, <1>5, <1>6
<1>8. lists' \in [Kind -> Seq(Record)]
  BY <1>2, <1>4
<1>9. tx \in [Record -> Nat] /\ \A n \in Record : Stream[n] \in Keyed => tx[n] <= 1
  BY DEF Inv, ShapeInv, HoldsInv
<1>10. RetryOrRaise(rows)
  BY <1>4
<1> HIDE DEF done, part
<1>11. rows \in [Record -> Nat] /\ \A n \in Record : Stream[n] \in Keyed => rows[n] <= 1
  BY <1>7, <1>9, WrittenRows, WrittenType
<1> QED
  BY <1>1, <1>8, <1>10, <1>11

LEMMA WriteRaisesKeepsInv == Inv /\ WriteRaises => Inv'
BY WriteLeaves, RetryKeepsInv

LEMMA CompleteKeepsInv == Inv /\ Complete => Inv'
<1> SUFFICES ASSUME Inv, Complete PROVE Inv'
  OBVIOUS
<1>1. /\ pc = "stream" /\ pc' = "done" /\ next = Len(Stream) /\ next' = next
      /\ tx' = Written(tx, Kind, lists) /\ disk' = tx'
      /\ attempt' = attempt /\ lists' = lists
  BY DEF Complete
<1>2. lists \in [Kind -> Seq(Record)] /\ tx \in [Record -> Nat]
  BY DEF Inv, ShapeInv
<1>3. ShapeInv'
  BY <1>1, <1>2, WrittenType DEF Inv, ShapeInv
<1>4. ASSUME NEW n \in Record
      PROVE  tx'[n] >= 1 /\ (Stream[n] \in Keyed => tx'[n] <= 1) /\ tx'[n] \in Nat
  <2>1. Stream[n] \in Kind /\ n \in 1..next
    BY <1>1, StreamKinds DEF Record
  <2>2. tx[n] >= 1 \/ \E i \in DOMAIN lists[Stream[n]] : lists[Stream[n]][i] = n
    BY <1>1, <2>1 DEF Inv, HoldsInv
  <2> QED
    BY <1>1, <1>2, <2>1, <2>2, WrittenRows DEF Inv, HoldsInv
<1>5. HoldsInv'
  BY <1>1, <1>4 DEF HoldsInv, CompletedRunHasAll
<1> QED
  BY <1>1, <1>3, <1>5 DEF Inv, NoPartialIngestion

(* The transaction is rolled back and the run is over.                     *)
LEMMA RollbackKeepsInv ==
  ASSUME Inv, pc = "stream", pc' \in {"raised", "dead"}, tx' = disk,
         UNCHANGED <<next, attempt, lists, disk>>
  PROVE  Inv'
<1> USE DEF Inv
<1>1. ShapeInv'
  BY DEF ShapeInv
<1>2. disk = EmptyTables
  BY DEF NoPartialIngestion
<1>3. HoldsInv'
  BY <1>2 DEF HoldsInv, CompletedRunHasAll, EmptyTables
<1> QED
  BY <1>1, <1>2, <1>3 DEF NoPartialIngestion

LEMMA InvNext == Inv /\ [Next]_vars => Inv'
<1> SUFFICES ASSUME Inv, [Next]_vars PROVE Inv'
  OBVIOUS
<1>1. CASE Start
  BY <1>1, StartKeepsInv
<1>2. CASE ReadRecord
  BY <1>2, ReadRecordKeepsInv
<1>3. CASE ParserRaises
  <2>1. /\ pc = "stream" /\ RetryOrRaise(tx) /\ disk' = disk /\ lists' = lists
        /\ tx \in [Record -> Nat] /\ lists \in [Kind -> Seq(Record)]
        /\ \A n \in Record : Stream[n] \in Keyed => tx[n] <= 1
    BY <1>3 DEF ParserRaises, Inv, ShapeInv, HoldsInv
  <2> QED
    BY <2>1, RetryKeepsInv
<1>4. CASE WriteRaises
  BY <1>4, WriteRaisesKeepsInv
<1>5. CASE Complete
  BY <1>5, CompleteKeepsInv
<1>6. CASE CompleteRaises
  BY <1>6, RollbackKeepsInv DEF CompleteRaises
<1>7. CASE Crash
  BY <1>7, RollbackKeepsInv DEF Crash
<1>8. CASE UNCHANGED vars
  BY <1>8 DEF vars, Inv, ShapeInv, HoldsInv, CompletedRunHasAll, NoPartialIngestion
<1> QED
  BY <1>1, <1>2, <1>3, <1>4, <1>5, <1>6, <1>7, <1>8 DEF Next, RunStep

THEOREM Invariance == Spec => []Inv
<1> QED
  BY InvInit, InvNext, PTL DEF Spec

(* A completed ingestion has every record of its input in the database,    *)
(* and each document and symbol once, after any number of retries.         *)
THEOREM CompletedRunsHaveAll == Spec => []CompletedRunHasAll
<1>1. Inv => CompletedRunHasAll
  BY DEF Inv, HoldsInv
<1> QED
  BY <1>1, Invariance, PTL

(* Readers of the database see a whole ingestion or an empty index.        *)
THEOREM IngestionIsAtomic == Spec => []NoPartialIngestion
<1>1. Inv => NoPartialIngestion
  BY DEF Inv
<1> QED
  BY <1>1, Invariance, PTL

-----------------------------------------------------------------------------
(* Runs without exceptions                                                 *)

(* As long as nothing was raised, each record that was read is once in its *)
(* table or once in its list, no other record is anywhere, and each        *)
(* counter has counted the records of its kind.                            *)
CountInv ==
  /\ failures \in Nat /\ stats \in [Kind -> Nat]
  /\ pc = "stream" /\ failures = 0 =>
       /\ \A n \in Record : tx[n] + Times(lists[Stream[n]], n) = IF n <= next THEN 1 ELSE 0
       /\ \A kind \in Kind : stats[kind] = Cardinality({n \in 1..next : Stream[n] = kind})

ExactInv == CountInv /\ CleanRunIsExact

(* How often a record is in no list, and in one that got another record.   *)
LEMMA TimesEmpty == \A n : Times(<<>>, n) = 0
<1> SUFFICES ASSUME NEW n PROVE Times(<<>>, n) = 0
  OBVIOUS
<1>1. {i \in DOMAIN <<>> : <<>>[i] = n} = {}
  OBVIOUS
<1>2. Cardinality({i \in DOMAIN <<>> : <<>>[i] = n}) = Cardinality({})
  BY <1>1, Zenon
<1> QED
  BY <1>2, FS_EmptySet DEF Times

LEMMA TimesAppend ==
  ASSUME NEW list \in Seq(Record), NEW r \in Record, NEW n
  PROVE  Times(Append(list, r), n) = Times(list, n) + (IF n = r THEN 1 ELSE 0)
<1> DEFINE longer == Append(list, r)
           T == {i \in DOMAIN list : list[i] = n}
           U == {i \in DOMAIN longer : longer[i] = n}
           last == Len(list) + 1
<1>1. /\ Len(list) \in Nat /\ DOMAIN list = 1..Len(list)
      /\ DOMAIN longer = 1..last
      /\ \A i \in 1..Len(list) : longer[i] = list[i]
      /\ longer[last] = r
  BY LenProperties
<1>2. IsFiniteSet(DOMAIN list)
  <2>1. 1 \in Int /\ Len(list) \in Int
    BY <1>1
  <2> QED BY <1>1, <2>1, FS_Interval
<1>3. IsFiniteSet(T) /\ Cardinality(T) \in Nat
  <2>1. T \in SUBSET DOMAIN list
    OBVIOUS
  <2> HIDE DEF T
  <2> QED BY <1>2, <2>1, FS_Subset, FS_CardinalityType
<1>4. last \notin T
  BY <1>1
<1>5. U = IF n = r THEN T \cup {last} ELSE T
  <2>1. 1..last = (1..Len(list)) \cup {last}
    BY <1>1
  <2> HIDE DEF longer, last
  <2> QED BY <1>1, <2>1
<1> HIDE DEF T, U, last
<1>6. Cardinality(T \cup {last}) = Cardinality(T) + 1
  BY <1>3, <1>4, FS_AddElement
<1>7. Cardinality(U) = Cardinality(T) + (IF n = r THEN 1 ELSE 0)
  <2>1. CASE n = r
    <3>1. U = T \cup {last}
      BY <1>5, <2>1
    <3>2. Cardinality(U) = Cardinality(T \cup {last})
      BY <3>1, Zenon
    <3> QED BY <3>2, <1>6, <2>1
  <2>2. CASE n # r
    <3>1. U = T
      BY <1>5, <2>2
    <3>2. Cardinality(U) = Cardinality(T)
      BY <3>1, Zenon
    <3> QED BY <3>2, <1>3, <2>2
  <2> QED BY <2>1, <2>2
<1>8. Times(longer, n) = Cardinality(U) /\ Times(list, n) = Cardinality(T)
  BY DEF Times, T, U
<1> QED
  BY <1>7, <1>8

(* One more record has been read: the records of a kind among those read.  *)
LEMMA CountNext ==
  ASSUME NEW kind \in Kind, NEW k \in Nat, k < Len(Stream)
  PROVE  /\ Cardinality({n \in 1..k : Stream[n] = kind}) \in Nat
         /\ Cardinality({n \in 1..(k + 1) : Stream[n] = kind}) =
              Cardinality({n \in 1..k : Stream[n] = kind}) + (IF Stream[k + 1] = kind THEN 1 ELSE 0)
<1> DEFINE T == {n \in 1..k : Stream[n] = kind}
           U == {n \in 1..(k + 1) : Stream[n] = kind}
<1>1. IsFiniteSet(1..k)
  <2>1. 1 \in Int /\ k \in Int
    OBVIOUS
  <2> QED BY <2>1, FS_Interval
<1>2. IsFiniteSet(T) /\ Cardinality(T) \in Nat
  <2>1. T \in SUBSET (1..k)
    OBVIOUS
  <2> HIDE DEF T
  <2> QED BY <1>1, <2>1, FS_Subset, FS_CardinalityType
<1>3. k + 1 \notin T
  OBVIOUS
<1>4. U = IF Stream[k + 1] = kind THEN T \cup {k + 1} ELSE T
  <2>1. 1..(k + 1) = (1..k) \cup {k + 1}
    OBVIOUS
  <2> QED BY <2>1
<1> HIDE DEF T, U
<1>5. Cardinality(T \cup {k + 1}) = Cardinality(T) + 1
  BY <1>2, <1>3, FS_AddElement
<1>6. CASE Stream[k + 1] = kind
  <2>1. U = T \cup {k + 1}
    BY <1>4, <1>6
  <2>2. Cardinality(U) = Cardinality(T \cup {k + 1})
    BY <2>1, Zenon
  <2>3. Cardinality(U) = Cardinality(T) + 1
    BY <2>2, <1>5
  <2> QED BY <1>2, <1>6, <2>3 DEF T, U
<1>7. CASE Stream[k + 1] # kind
  <2>1. U = T
    BY <1>4, <1>7
  <2>2. Cardinality(U) = Cardinality(T)
    BY <2>1, Zenon
  <2> QED BY <1>2, <1>7, <2>2 DEF T, U
<1> QED
  BY <1>6, <1>7

(* Each attempt starts with nothing read, in no table and no list.         *)
LEMMA ExactInvInit == Init => ExactInv
BY DEF Init, ExactInv, CountInv, CleanRunIsExact

LEMMA StartKeepsExact == ExactInv /\ Start => ExactInv'
<1> SUFFICES ASSUME ExactInv, Start PROVE ExactInv'
  OBVIOUS
<1>1. /\ pc' = "stream" /\ next' = 0 /\ failures' = 0
      /\ tx' = EmptyTables /\ lists' = EmptyLists /\ stats' = [kind \in Kind |-> 0]
  BY DEF Start
<1>2. ASSUME NEW n \in Record
      PROVE  tx'[n] + Times(lists'[Stream[n]], n) = IF n <= next' THEN 1 ELSE 0
  <2>1. Stream[n] \in Kind /\ n \in Nat /\ n > 0
    BY StreamKinds DEF Record
  <2>2. lists'[Stream[n]] = <<>> /\ tx'[n] = 0
    BY <1>1, <2>1 DEF EmptyLists, EmptyTables
  <2>3. Times(lists'[Stream[n]], n) = 0
    BY <2>2, TimesEmpty
  <2> QED BY <1>1, <2>1, <2>2, <2>3
<1>3. ASSUME NEW kind \in Kind
      PROVE  stats'[kind] = Cardinality({n \in 1..next' : Stream[n] = kind})
  <2>1. {n \in 1..next' : Stream[n] = kind} = {}
    BY <1>1
  <2>2. Cardinality({n \in 1..next' : Stream[n] = kind}) = Cardinality({})
    BY <2>1, Zenon
  <2> QED BY <1>1, <2>2, FS_EmptySet
<1> QED
  BY <1>1, <1>2, <1>3 DEF ExactInv, CountInv, CleanRunIsExact

(* A record counted once stays counted once when its list is written.      *)
LEMMA WrittenOnce ==
  ASSUME NEW rows \in [Record -> Nat], NEW kinds, NEW ls \in [Kind -> Seq(Record)], NEW n \in Record,
         rows[n] + Times(ls[Stream[n]], n) <= 1
  PROVE  Stream[n] \in kinds => Written(rows, kinds, ls)[n] = rows[n] + Times(ls[Stream[n]], n)
<1>1. ls[Stream[n]] \in Seq(Record)
  BY StreamKinds
<1>2. Times(ls[Stream[n]], n) \in Nat
  BY <1>1, TimesPositive
<1>3. Written(rows, kinds, ls)[n] =
        IF Stream[n] \notin kinds THEN rows[n]
        ELSE IF Stream[n] \in Keyed
             THEN IF Times(ls[Stream[n]], n) > 0 THEN 1 ELSE rows[n]
             ELSE rows[n] + Times(ls[Stream[n]], n)
  BY DEF Written
<1>4. rows[n] \in Nat
  OBVIOUS
<1> QED
  BY <1>2, <1>3, <1>4

LEMMA ReadRecordKeepsExact == Inv /\ ExactInv /\ ReadRecord => ExactInv'
<1> SUFFICES ASSUME Inv, ExactInv, ReadRecord PROVE ExactInv'
  OBVIOUS
<1>0. stats \in [Kind -> Nat]
  BY DEF ExactInv, CountInv
<1> DEFINE full == Full(Received)
           s == Stream[next + 1]
<1>1. /\ pc = "stream" /\ pc' = "stream" /\ next < Len(Stream) /\ next' = next + 1
      /\ tx' = Written(tx, full, Received)
      /\ lists' = [kind \in Kind |-> IF kind \in full THEN <<>> ELSE Received[kind]]
      /\ stats' = [stats EXCEPT ![s] = stats[s] + 1]
      /\ failures' = failures
  BY DEF ReadRecord
<1>2. /\ Received \in [Kind -> Seq(Record)] /\ lists \in [Kind -> Seq(Record)]
      /\ tx \in [Record -> Nat] /\ next \in Nat
  BY <1>1, ReceivedLists, StreamKinds DEF Inv, ShapeInv
<1>3. next + 1 \in Record /\ s \in Kind
  BY <1>1, <1>2, StreamKinds DEF Record
<1> HIDE DEF full, s
<1>4. Received = [lists EXCEPT ![s] = Append(lists[s], next + 1)]
  BY DEF Received, s
<1>5. SUFFICES ASSUME failures = 0
               PROVE  /\ \A n \in Record : tx'[n] + Times(lists'[Stream[n]], n) = IF n <= next' THEN 1 ELSE 0
                      /\ \A kind \in Kind : stats'[kind] = Cardinality({n \in 1..next' : Stream[n] = kind})
  BY <1>0, <1>1, <1>3 DEF ExactInv, CountInv, CleanRunIsExact
<1>6. ASSUME NEW n \in Record
      PROVE  tx'[n] + Times(lists'[Stream[n]], n) = IF n <= next' THEN 1 ELSE 0
  <2>1. Stream[n] \in Kind /\ n \in Nat
    BY StreamKinds DEF Record
  <2>2. tx[n] + Times(lists[Stream[n]], n) = IF n <= next THEN 1 ELSE 0
    BY <1>1, <1>5 DEF ExactInv, CountInv
  <2>3. Times(Received[Stream[n]], n) = Times(lists[Stream[n]], n) + (IF n = next + 1 THEN 1 ELSE 0)
    <3>1. CASE Stream[n] = s
      <4>1. Received[Stream[n]] = Append(lists[s], next + 1)
        BY <1>2, <1>3, <1>4, <3>1
      <4>2. lists[s] \in Seq(Record)
        BY <1>2, <1>3
      <4>3. Times(Append(lists[s], next + 1), n) = Times(lists[s], n) + (IF n = next + 1 THEN 1 ELSE 0)
        BY <1>3, <4>2, TimesAppend
      <4> QED BY <4>1, <4>3, <3>1
    <3>2. CASE Stream[n] # s
      <4>1. Received[Stream[n]] = lists[Stream[n]] /\ n # next + 1
        BY <1>2, <1>3, <1>4, <2>1, <3>2 DEF s
      <4>2. lists[Stream[n]] \in Seq(Record)
        BY <1>2, <2>1
      <4>3. Times(lists[Stream[n]], n) \in Nat
        BY <4>2, TimesPositive
      <4> QED BY <4>1, <4>3
    <3> QED BY <3>1, <3>2
  <2>4. tx[n] \in Nat /\ Times(lists[Stream[n]], n) \in Nat
    <3>1. lists[Stream[n]] \in Seq(Record)
      BY <1>2, <2>1
    <3> QED BY <3>1, <1>2, TimesPositive
  <2>5. tx[n] + Times(Received[Stream[n]], n) = IF n <= next + 1 THEN 1 ELSE 0
    BY <2>1, <2>2, <2>3, <2>4, <1>2
  <2>6. CASE Stream[n] \in full
    <3>1. tx'[n] = tx[n] + Times(Received[Stream[n]], n)
      <4>1. tx[n] + Times(Received[Stream[n]], n) <= 1
        BY <2>5
      <4> QED BY <1>1, <1>2, <2>6, <4>1, WrittenOnce, ZenonT(30)
    <3>2. lists'[Stream[n]] = <<>>
      BY <1>1, <2>1, <2>6
    <3>3. Times(lists'[Stream[n]], n) = 0
      BY <3>2, TimesEmpty
    <3> QED BY <3>1, <3>3, <2>5, <1>1
  <2>7. CASE Stream[n] \notin full
    <3>1. tx'[n] = tx[n]
      BY <1>1, <2>7 DEF Written
    <3>2. lists'[Stream[n]] = Received[Stream[n]]
      BY <1>1, <2>1, <2>7
    <3> QED BY <3>1, <3>2, <2>5, <1>1
  <2> QED BY <2>6, <2>7
<1>7. ASSUME NEW kind \in Kind
      PROVE  stats'[kind] = Cardinality({n \in 1..next' : Stream[n] = kind})
  <2> DEFINE before == Cardinality({n \in 1..next : Stream[n] = kind})
             now == Cardinality({n \in 1..(next + 1) : Stream[n] = kind})
  <2>1. stats[kind] = before
    BY <1>1, <1>5 DEF ExactInv, CountInv
  <2>2. before \in Nat /\ now = before + (IF s = kind THEN 1 ELSE 0)
    BY <1>1, <1>2, CountNext DEF s
  <2>3. Cardinality({n \in 1..next' : Stream[n] = kind}) = now
    BY <1>1
  <2> HIDE DEF before, now
  <2>4. stats'[kind] = stats[kind] + (IF s = kind THEN 1 ELSE 0)
    BY <1>0, <1>1, <1>3
  <2> QED BY <2>1, <2>2, <2>3, <2>4
<1> QED
  BY <1>6, <1>7

LEMMA CompleteKeepsExact == Inv /\ ExactInv /\ Complete => ExactInv'
<1> SUFFICES ASSUME Inv, ExactInv, Complete PROVE ExactInv'
  OBVIOUS
<1>1. /\ pc = "stream" /\ pc' = "done" /\ next = Len(Stream)
      /\ disk' = Written(tx, Kind, lists) /\ stats' = stats /\ failures' = failures
  BY DEF Complete
<1>2. lists \in [Kind -> Seq(Record)] /\ tx \in [Record -> Nat]
  BY DEF Inv, ShapeInv
<1>3. CountInv'
  BY <1>1 DEF ExactInv, CountInv
<1>4. SUFFICES ASSUME failures = 0
               PROVE  /\ \A n \in Record : disk'[n] = 1
                      /\ \A kind \in Kind : stats'[kind] = Cardinality({n \in Record : Stream[n] = kind})
  BY <1>1, <1>3 DEF ExactInv, CleanRunIsExact
<1>5. ASSUME NEW n \in Record PROVE disk'[n] = 1
  <2>1. Stream[n] \in Kind /\ n <= next
    BY <1>1, StreamKinds DEF Record
  <2>2. tx[n] + Times(lists[Stream[n]], n) = 1
    BY <1>1, <1>4, <2>1 DEF ExactInv, CountInv
  <2>3. tx[n] + Times(lists[Stream[n]], n) <= 1
    BY <2>2
  <2> QED BY <1>1, <1>2, <2>1, <2>2, <2>3, WrittenOnce
<1>6. \A kind \in Kind : stats'[kind] = Cardinality({n \in Record : Stream[n] = kind})
  BY <1>1, <1>4 DEF ExactInv, CountInv, Record
<1> QED
  BY <1>5, <1>6

(* An exception of the stream is counted, so the run is not a clean one.   *)
LEMMA RaisedIsNotClean ==
  ASSUME ExactInv, NEW rows, RetryOrRaise(rows), stats' \in [Kind -> Nat]
  PROVE  ExactInv'
BY DEF ExactInv, CountInv, RetryOrRaise, CleanRunIsExact

LEMMA ExactInvNext == Inv /\ ExactInv /\ [Next]_vars => ExactInv'
<1> SUFFICES ASSUME Inv, ExactInv, [Next]_vars PROVE ExactInv'
  OBVIOUS
<1>1. CASE Start
  BY <1>1, StartKeepsExact
<1>2. CASE ReadRecord
  BY <1>2, ReadRecordKeepsExact
<1>3. CASE ParserRaises
  BY <1>3, RaisedIsNotClean DEF ParserRaises, ExactInv, CountInv
<1>4. CASE WriteRaises
  <2>1. stats' \in [Kind -> Nat]
    <3>1. stats \in [Kind -> Nat]
      BY DEF ExactInv, CountInv
    <3>2. stats' = [stats EXCEPT ![Stream[next + 1]] = stats[Stream[next + 1]] + 1]
      BY <1>4 DEF WriteRaises
    <3>3. next \in Nat /\ next < Len(Stream)
      BY <1>4, StreamKinds DEF WriteRaises, Inv, ShapeInv
    <3>4. Stream[next + 1] \in Kind
      BY <3>3, StreamKinds DEF Record
    <3> QED BY <3>1, <3>2, <3>4
  <2> QED BY <1>4, <2>1, WriteLeaves, RaisedIsNotClean
<1>5. CASE Complete
  BY <1>5, CompleteKeepsExact
<1>6. CASE CompleteRaises
  BY <1>6 DEF CompleteRaises, ExactInv, CountInv, CleanRunIsExact
<1>7. CASE Crash
  BY <1>7 DEF Crash, ExactInv, CountInv, CleanRunIsExact
<1>8. CASE UNCHANGED vars
  BY <1>8 DEF vars, ExactInv, CountInv, CleanRunIsExact
<1> QED
  BY <1>1, <1>2, <1>3, <1>4, <1>5, <1>6, <1>7, <1>8 DEF Next, RunStep

(* A completed ingestion without exceptions has each record in the         *)
(* database exactly once and has counted each once, whatever the runs      *)
(* before it left.                                                         *)
THEOREM CleanRunsAreExact == Spec => []CleanRunIsExact
<1>1. Inv /\ ExactInv => CleanRunIsExact
  BY DEF ExactInv
<1>2. Init => Inv /\ ExactInv
  BY InvInit, ExactInvInit
<1>3. Inv /\ ExactInv /\ [Next]_vars => Inv' /\ ExactInv'
  BY InvNext, ExactInvNext
<1> QED
  BY <1>1, <1>2, <1>3, PTL DEF Spec
=============================================================================
