-------------------------- MODULE EmbeddingRunProofs --------------------------
(***************************************************************************)
(* Proofs about the embedding run, for any number of chunks, any sizes and *)
(* configurations and any sequence of runs, failed batches and             *)
(* interruptions: no chunk is handled twice, a run that returns accounts   *)
(* for every chunk it set out to embed, and LanceDB has what SQLite has.   *)
(***************************************************************************)
EXTENDS EmbeddingRun, FiniteSetTheorems, SequenceTheorems, TLAPS

-----------------------------------------------------------------------------
(* The data of a run                                                       *)

(* Sets of chunks are finite and can be counted.                           *)
LEMMA ChunksFinite ==
  ASSUME NEW S \in SUBSET Chunk
  PROVE  IsFiniteSet(S) /\ Cardinality(S) \in Nat
<1>1. 1 \in Int /\ ChunkCount \in Int
  BY SizeAssumption
<1>2. IsFiniteSet(Chunk)
  BY <1>1, FS_Interval DEF Chunk
<1> QED
  BY <1>2, FS_Subset, FS_CardinalityType

LEMMA SmallerSet ==
  ASSUME NEW S \in SUBSET Chunk, NEW T \in SUBSET S
  PROVE  Cardinality(T) <= Cardinality(S) /\ (Cardinality(T) = Cardinality(S) => T = S)
BY ChunksFinite, FS_Subset

(* Counting what is left when a part is taken away, and what two parts     *)
(* have together.                                                          *)
LEMMA TakeAway ==
  ASSUME NEW S \in SUBSET Chunk, NEW T \in SUBSET S
  PROVE  Cardinality(S \ T) = Cardinality(S) - Cardinality(T)
<1>1. IsFiniteSet(S)
  BY ChunksFinite
<1>2. Cardinality(S \ T) = Cardinality(S) - Cardinality(S \cap T)
  BY <1>1, FS_Difference
<1>3. S \cap T = T
  OBVIOUS
<1> QED
  BY <1>2, <1>3

LEMMA Together ==
  ASSUME NEW S \in SUBSET Chunk, NEW T \in SUBSET Chunk
  PROVE  Cardinality(S \cup T) <= Cardinality(S) + Cardinality(T)
<1>1. IsFiniteSet(S) /\ IsFiniteSet(T) /\ Cardinality(S) \in Nat /\ Cardinality(T) \in Nat
  BY ChunksFinite
<1>2. Cardinality(S \cup T) = Cardinality(S) + Cardinality(T) - Cardinality(S \cap T)
  BY <1>1, FS_Union
<1>3. S \cap T \in SUBSET Chunk
  OBVIOUS
<1>4. Cardinality(S \cap T) \in Nat
  BY <1>3, ChunksFinite
<1> QED
  BY <1>1, <1>2, <1>4

(* The place of a chunk among those of a set.                              *)
Upto(S, c) == {d \in S : d <= c}
Rank(S, c) == Cardinality(Upto(S, c))

LEMMA RankOrder ==
  ASSUME NEW S \in SUBSET Chunk, NEW c \in S
  PROVE  /\ Rank(S, c) \in 1..Cardinality(S)
         /\ \A e \in S : c < e => Rank(S, c) < Rank(S, e)
<1>1. \A e \in S : e \in Int
  BY DEF Chunk
<1>2. \A e \in S : Upto(S, e) \in SUBSET S /\ Upto(S, e) \in SUBSET Chunk /\ e \in Upto(S, e)
  BY <1>1 DEF Upto
<1>3. \A e \in S : Rank(S, e) \in Nat /\ Rank(S, e) <= Cardinality(S)
  BY <1>2, ChunksFinite, SmallerSet DEF Rank
<1>4. Rank(S, c) # 0
  <2>1. IsFiniteSet(Upto(S, c)) /\ Upto(S, c) # {}
    BY <1>2, ChunksFinite
  <2>2. Cardinality(Upto(S, c)) # 0
    BY <2>1, FS_EmptySet
  <2> QED BY <2>2 DEF Rank
<1>5. Cardinality(S) \in Nat
  BY ChunksFinite
<1>6. ASSUME NEW e \in S, c < e PROVE Rank(S, c) < Rank(S, e)
  <2>1. Upto(S, c) \in SUBSET Upto(S, e)
    BY <1>1, <1>6 DEF Upto
  <2>2. e \notin Upto(S, c)
    BY <1>1, <1>6 DEF Upto
  <2>3. Upto(S, e) \in SUBSET Chunk /\ e \in Upto(S, e)
    BY <1>2
  <2>4. /\ Cardinality(Upto(S, c)) <= Cardinality(Upto(S, e))
        /\ Cardinality(Upto(S, c)) = Cardinality(Upto(S, e)) => Upto(S, c) = Upto(S, e)
    BY <2>1, <2>3, SmallerSet
  <2>5. Rank(S, c) <= Rank(S, e) /\ Rank(S, c) # Rank(S, e)
    BY <2>2, <2>3, <2>4 DEF Rank
  <2> QED BY <2>5, <1>3
<1> QED
  BY <1>3, <1>4, <1>5, <1>6

(* The places 1, 2, ... are all taken, each by one chunk.                  *)
LEMMA RankIsOnto ==
  ASSUME NEW S \in SUBSET Chunk
  PROVE  /\ \A c, e \in S : Rank(S, c) = Rank(S, e) => c = e
         /\ \A n \in 1..Cardinality(S) : \E c \in S : Rank(S, c) = n
<1> DEFINE count == Cardinality(S)
           rank == [c \in S |-> Rank(S, c)]
<1>1. count \in Nat /\ IsFiniteSet(S)
  BY ChunksFinite
<1>2. rank \in [S -> 1..count]
  BY RankOrder
<1>3. \A c, e \in S : Rank(S, c) = Rank(S, e) => c = e
  <2> SUFFICES ASSUME NEW c \in S, NEW e \in S, Rank(S, c) = Rank(S, e), c # e PROVE FALSE
    OBVIOUS
  <2>1. c \in Int /\ e \in Int
    BY DEF Chunk
  <2>2. c < e \/ e < c
    BY <2>1
  <2>3. Rank(S, c) < Rank(S, e) \/ Rank(S, e) < Rank(S, c)
    BY <2>2, RankOrder
  <2>4. Rank(S, c) \in Int /\ Rank(S, e) \in Int
    BY RankOrder
  <2> QED BY <2>3, <2>4
<1>4. rank \in Injection(S, 1..count)
  BY <1>2, <1>3 DEF Injection, IsInjective
<1>5. IsFiniteSet(1..count) /\ Cardinality(1..count) = count
  <2>1. 1 \in Int /\ count \in Int
    BY <1>1
  <2>2. IsFiniteSet(1..count) /\ Cardinality(1..count) = IF 1 > count THEN 0 ELSE count - 1 + 1
    BY <2>1, FS_Interval
  <2> HIDE DEF count
  <2> QED BY <1>1, <2>2
<1> HIDE DEF rank
<1>6. Cardinality(S) = Cardinality(1..count)
  BY <1>5
<1>7. rank \in Surjection(S, 1..count)
  BY <1>4, <1>5, <1>6, FS_Injection
<1>8. \A n \in 1..count : \E c \in S : Rank(S, c) = n
  <2>1. \A n \in 1..count : \E c \in S : rank[c] = n
    BY <1>7 DEF Surjection
  <2> QED BY <2>1 DEF rank
<1> QED
  BY <1>3, <1>8

Elements(s) == {s[n] : n \in DOMAIN s}

(* A batch in the order of chunk_id has every chunk of the batch and no    *)
(* other.                                                                  *)
LEMMA InOrderHasAll ==
  ASSUME NEW S \in SUBSET Chunk
  PROVE  InOrder(S) \in Seq(S) /\ Elements(InOrder(S)) = S
<1> DEFINE count == Cardinality(S)
<1>1. count \in Nat
  BY ChunksFinite
<1>2. InOrder(S) = [n \in 1..count |-> CHOOSE c \in S : Rank(S, c) = n]
  BY DEF InOrder, Rank, Upto
<1>3. \A n \in 1..count : \E c \in S : Rank(S, c) = n
  BY RankIsOnto
<1>4. \A c \in S : Rank(S, c) \in 1..count
  BY RankOrder
<1> HIDE DEF count
<1>5. \A n \in 1..count : InOrder(S)[n] \in S /\ Rank(S, InOrder(S)[n]) = n
  BY <1>2, <1>3
<1>6. DOMAIN InOrder(S) = 1..count /\ InOrder(S) \in Seq(S)
  <2>1. InOrder(S) \in [1..count -> S]
    BY <1>2, <1>5
  <2> QED BY <1>1, <2>1
<1>7. ASSUME NEW c \in S PROVE \E n \in 1..count : InOrder(S)[n] = c
  <2>1. Rank(S, c) \in 1..count
    BY <1>4
  <2>2. Rank(S, InOrder(S)[Rank(S, c)]) = Rank(S, c) /\ InOrder(S)[Rank(S, c)] \in S
    BY <2>1, <1>5
  <2>3. InOrder(S)[Rank(S, c)] = c
    BY <2>2, RankIsOnto
  <2> QED BY <2>1, <2>3
<1> QED
  BY <1>5, <1>6, <1>7 DEF Elements

(* What a sequence holds that was put together, or taken apart.            *)
FirstOf(s, k) == {s[n] : n \in 1..k}

LEMMA ConcatHasBoth ==
  ASSUME NEW S, NEW T \in SUBSET S, NEW s \in Seq(S), NEW t \in Seq(T)
  PROVE  s \o t \in Seq(S) /\ Elements(s \o t) = Elements(s) \cup Elements(t)
<1>1. t \in Seq(S)
  BY SeqMonotonic
<1>2. /\ s \o t \in Seq(S) /\ Len(s \o t) = Len(s) + Len(t)
      /\ \A i \in 1..(Len(s) + Len(t)) : (s \o t)[i] = IF i <= Len(s) THEN s[i] ELSE t[i - Len(s)]
      /\ DOMAIN (s \o t) = 1..(Len(s) + Len(t))
      /\ Len(s) \in Nat /\ Len(t) \in Nat /\ DOMAIN s = 1..Len(s) /\ DOMAIN t = 1..Len(t)
  BY <1>1, ConcatProperties, LenProperties
<1>3. ASSUME NEW n \in DOMAIN (s \o t)
      PROVE  (s \o t)[n] \in {s[m] : m \in DOMAIN s} \cup {t[m] : m \in DOMAIN t}
  <2>1. CASE n <= Len(s)
    BY <1>2, <2>1
  <2>2. CASE n > Len(s)
    <3>1. n - Len(s) \in DOMAIN t /\ (s \o t)[n] = t[n - Len(s)]
      BY <1>2, <2>2
    <3> QED BY <3>1
  <2> QED BY <1>2, <2>1, <2>2
<1>4. ASSUME NEW n \in DOMAIN s PROVE n \in DOMAIN (s \o t) /\ (s \o t)[n] = s[n]
  BY <1>2
<1>5. ASSUME NEW n \in DOMAIN t PROVE Len(s) + n \in DOMAIN (s \o t) /\ (s \o t)[Len(s) + n] = t[n]
  <2>1. Len(s) + n \in 1..(Len(s) + Len(t)) /\ ~(Len(s) + n <= Len(s)) /\ (Len(s) + n) - Len(s) = n
    BY <1>2
  <2> QED BY <1>2, <2>1
<1>6. \A n \in DOMAIN s : \E m \in DOMAIN (s \o t) : (s \o t)[m] = s[n]
  BY <1>4
<1>7. \A n \in DOMAIN t : \E m \in DOMAIN (s \o t) : (s \o t)[m] = t[n]
  BY <1>5
<1> DEFINE u == s \o t
<1>8. u \in Seq(S)
  BY <1>2
<1> HIDE DEF u
<1>9. /\ \A n \in DOMAIN u : u[n] \in {s[m] : m \in DOMAIN s} \cup {t[m] : m \in DOMAIN t}
      /\ \A n \in DOMAIN s : \E m \in DOMAIN u : u[m] = s[n]
      /\ \A n \in DOMAIN t : \E m \in DOMAIN u : u[m] = t[n]
  BY <1>3, <1>6, <1>7 DEF u
<1>10. {u[n] : n \in DOMAIN u} = {s[n] : n \in DOMAIN s} \cup {t[n] : n \in DOMAIN t}
  BY <1>9
<1> QED
  BY <1>8, <1>10 DEF u, Elements

LEMMA SplitHasBoth ==
  ASSUME NEW S, NEW s \in Seq(S), NEW k \in 1..Len(s)
  PROVE  LET t == SubSeq(s, k + 1, Len(s))
         IN  /\ t \in Seq(S)
             /\ FirstOf(s, k) \in SUBSET S
             /\ Elements(s) = FirstOf(s, k) \cup Elements(t)
<1> DEFINE t == SubSeq(s, k + 1, Len(s))
           len == Len(s) - k
<1>1. Len(s) \in Nat /\ DOMAIN s = 1..Len(s) /\ k \in Nat /\ len \in Nat /\ \A i \in 1..Len(s) : s[i] \in S
  BY LenProperties, ElementOfSeq
<1>2. /\ t \in Seq(S) /\ Len(t) = len
      /\ \A i \in 1..len : t[i] = s[k + i]
  <2>1. k + 1 \in Int /\ Len(s) \in Int /\ \A i \in (k + 1)..Len(s) : s[i] \in S
    BY <1>1
  <2>2. /\ t \in Seq(S)
        /\ Len(t) = IF k + 1 <= Len(s) THEN Len(s) - (k + 1) + 1 ELSE 0
        /\ \A i \in 1..(Len(s) - (k + 1) + 1) : t[i] = s[(k + 1) + i - 1]
    BY <2>1, SubSeqProperties
  <2> HIDE DEF t
  <2>3. Len(t) = len
    <3>1. Len(s) \in Int /\ k \in Int /\ k <= Len(s)
      BY <1>1
    <3>2. (IF k + 1 <= Len(s) THEN Len(s) - (k + 1) + 1 ELSE 0) = Len(s) - k
      BY <3>1
    <3> QED BY <2>2, <3>2
  <2>4. ASSUME NEW i \in 1..len PROVE t[i] = s[k + i]
    <3>1. i \in 1..(Len(s) - (k + 1) + 1) /\ (k + 1) + i - 1 = k + i
      BY <1>1
    <3> QED BY <3>1, <2>2
  <2> QED BY <2>2, <2>3, <2>4
<1> HIDE DEF t
<1>3. DOMAIN t = 1..len
  BY <1>2, LenProperties
<1>4. ASSUME NEW n \in DOMAIN s, n \notin 1..k PROVE \E m \in DOMAIN t : t[m] = s[n]
  <2>1. n - k \in 1..len /\ k + (n - k) = n
    BY <1>1, <1>4
  <2>2. t[n - k] = s[k + (n - k)]
    BY <1>2, <2>1
  <2> QED BY <1>3, <2>1, <2>2
<1>5. ASSUME NEW m \in DOMAIN t PROVE k + m \in DOMAIN s /\ t[m] = s[k + m]
  BY <1>1, <1>2, <1>3
<1>6. \A n \in 1..k : n \in DOMAIN s
  BY <1>1
<1> HIDE DEF len
<1>7. {s[n] : n \in DOMAIN s} = {s[n] : n \in 1..k} \cup {t[n] : n \in DOMAIN t}
  BY <1>4, <1>5, <1>6
<1>8. {s[n] : n \in 1..k} \in SUBSET S
  BY <1>1, <1>6
<1> QED
  BY <1>2, <1>7, <1>8 DEF t, Elements, FirstOf

(* The batches of a page have each chunk of the page in exactly one.       *)
LEMMA BatchesPartition ==
  ASSUME NEW page \in SUBSET Chunk
  PROVE  /\ Batches(page) \in [DOMAIN Batches(page) -> [chunks : SUBSET page, state : {"submitted"}]]
         /\ \A a, b \in DOMAIN Batches(page) :
              a # b => Batches(page)[a].chunks \cap Batches(page)[b].chunks = {}
         /\ \A c \in page : \E b \in DOMAIN Batches(page) : c \in Batches(page)[b].chunks
<1> DEFINE before(c) == {d \in page : d < c}
           row(c) == Cardinality(before(c))
           count == (Cardinality(page) + BatchSize - 1) \div BatchSize
           batch(b) == {c \in page : row(c) \div BatchSize = b - 1}
<1>1. Batches(page) = [b \in 1..count |-> [chunks |-> batch(b), state |-> "submitted"]]
  BY DEF Batches
<1>2. ASSUME NEW c \in page PROVE row(c) \in Nat /\ row(c) <= Cardinality(page) - 1
  <2>1. before(c) \in SUBSET page /\ before(c) \in SUBSET Chunk /\ c \notin before(c)
    <3>1. c \in Int
      BY DEF Chunk
    <3>2. ~(c < c)
      BY <3>1
    <3> QED BY <3>2
  <2>2. Cardinality(before(c)) \in Nat /\ Cardinality(page) \in Nat
    BY <2>1, ChunksFinite
  <2> HIDE DEF before
  <2>3. Cardinality(before(c)) <= Cardinality(page) /\ Cardinality(before(c)) # Cardinality(page)
    BY <2>1, SmallerSet
  <2> QED BY <2>2, <2>3
<1>3. ASSUME NEW c \in page PROVE \E b \in 1..count : c \in batch(b)
  <2> DEFINE r == row(c)
             size == Cardinality(page)
  <2>1. r \in Nat /\ r <= size - 1 /\ size \in Nat /\ BatchSize \in Nat \ {0}
    BY <1>2, ChunksFinite, SizeAssumption
  <2> HIDE DEF r, size
  <2>2. (r \div BatchSize) + 1 = (r + BatchSize) \div BatchSize
    BY <2>1
  <2>3. r + BatchSize <= size + BatchSize - 1 /\ r + BatchSize \in Nat /\ size + BatchSize - 1 \in Nat
    BY <2>1
  <2>4. (r + BatchSize) \div BatchSize <= (size + BatchSize - 1) \div BatchSize
    BY <2>1, <2>3
  <2>5. r \div BatchSize \in Nat /\ (size + BatchSize - 1) \div BatchSize \in Int
    BY <2>1, <2>3
  <2>6. (r \div BatchSize) + 1 \in 1..((size + BatchSize - 1) \div BatchSize)
    BY <2>2, <2>4, <2>5
  <2>7. (r \div BatchSize) + 1 \in 1..count
    BY <2>6 DEF size
  <2>8. ((r \div BatchSize) + 1) - 1 = r \div BatchSize
    BY <2>5
  <2>9. c \in batch((r \div BatchSize) + 1)
    BY <2>8 DEF r
  <2> QED BY <2>7, <2>9
<1>4. \A a, b \in 1..count : a # b => batch(a) \cap batch(b) = {}
  OBVIOUS
<1> HIDE DEF count, row
<1>5. \A b \in 1..count : batch(b) \in SUBSET page
  OBVIOUS
<1> HIDE DEF batch
<1>6. DOMAIN Batches(page) = 1..count /\ \A b \in 1..count : Batches(page)[b] = [chunks |-> batch(b), state |-> "submitted"]
  BY <1>1
<1>7. \A b \in 1..count : Batches(page)[b].chunks = batch(b)
  BY <1>6
<1> QED
  BY <1>1, <1>3, <1>4, <1>5, <1>6, <1>7

(* A set of chunks has a smallest and a largest one.                       *)
LEMMA Extremes ==
  ASSUME NEW S \in SUBSET Chunk, S # {}
  PROVE  /\ \E c \in S : \A d \in S : d <= c
         /\ \E c \in S : Rank(S, c) = 1
<1>1. Cardinality(S) \in Nat /\ Cardinality(S) # 0
  BY ChunksFinite, FS_EmptySet
<1>2. PICK c \in S : Rank(S, c) = Cardinality(S)
  BY <1>1, RankIsOnto
<1>3. ASSUME NEW d \in S PROVE d <= c
  <2> SUFFICES ASSUME ~(d <= c) PROVE FALSE
    OBVIOUS
  <2>1. c < d
    BY DEF Chunk
  <2>2. Rank(S, c) < Rank(S, d) /\ Rank(S, d) \in 1..Cardinality(S)
    BY <2>1, RankOrder
  <2> QED BY <1>1, <1>2, <2>2
<1>4. \E e \in S : Rank(S, e) = 1
  BY <1>1, RankIsOnto
<1> QED
  BY <1>3, <1>4

(* The chunks after the cursor that have no vector.                        *)
Rest == {c \in Missing : c > after}

(* A page is the first part of the rest: with the cursor on its last chunk *)
(* what is left is the rest without the page, and no page is empty as long *)
(* as there is a rest.                                                     *)
LEMMA PageIsPrefix ==
  ASSUME after \in Nat
  PROVE  /\ Rest \in SUBSET Chunk /\ Page \in SUBSET Rest
         /\ Page = {} => Rest = {}
         /\ Page # {} =>
              \E last \in Page :
                /\ last = CHOOSE c \in Page : \A d \in Page : d <= c
                /\ \A d \in Page : d <= last
                /\ {c \in Missing : c > last} = Rest \ Page
<1>1. Rest \in SUBSET Chunk
  BY DEF Rest, Missing
<1>2. Page = {c \in Rest : Rank(Rest, c) <= FetchLimit}
  BY DEF Page, Rest, Rank, Upto
<1> HIDE DEF Rest
<1>3. Page = {} => Rest = {}
  <2> SUFFICES ASSUME Rest # {} PROVE Page # {}
    OBVIOUS
  <2>1. PICK c \in Rest : Rank(Rest, c) = 1
    BY <1>1, Extremes
  <2> QED BY <2>1, <1>2, SizeAssumption
<1>4. ASSUME Page # {}
      PROVE  \E last \in Page :
                /\ last = CHOOSE c \in Page : \A d \in Page : d <= c
                /\ \A d \in Page : d <= last
                /\ {c \in Missing : c > last} = Rest \ Page
  <2> DEFINE last == CHOOSE c \in Page : \A d \in Page : d <= c
  <2>1. Page \in SUBSET Chunk /\ Page \in SUBSET Rest
    BY <1>1, <1>2
  <2>2. last \in Page /\ \A d \in Page : d <= last
    <3>1. \E c \in Page : \A d \in Page : d <= c
      BY <2>1, <1>4, Extremes
    <3> QED BY <3>1
  <2> HIDE DEF last
  <2>3. last \in Rest /\ Rank(Rest, last) <= FetchLimit /\ last \in Chunk
    BY <2>1, <2>2, <1>2
  <2>4. ASSUME NEW c \in Missing, c > last PROVE c \in Rest /\ c \notin Page
    <3>1. c \in Int /\ last \in Int /\ last > after
      BY <2>3 DEF Missing, Chunk, Rest
    <3>2. c > after
      BY <3>1, <2>4
    <3> QED BY <3>1, <3>2, <2>2, <2>4 DEF Rest
  <2>5. ASSUME NEW c \in Rest, c \notin Page PROVE c \in Missing /\ c > last
    <3>1. c \in Missing /\ c \in Int /\ last \in Int
      BY <2>3, <1>1 DEF Rest, Chunk
    <3>2. c # last
      BY <2>2, <2>5
    <3>3. SUFFICES ASSUME c < last PROVE FALSE
      BY <3>1, <3>2
    <3>4. Rank(Rest, c) < Rank(Rest, last)
      BY <1>1, <2>3, <3>3, RankOrder
    <3>5. Rank(Rest, c) \in Int /\ Rank(Rest, last) \in Int /\ FetchLimit \in Int
      BY <1>1, <2>3, RankOrder, SizeAssumption
    <3>6. Rank(Rest, c) <= FetchLimit
      BY <3>4, <3>5, <2>3
    <3> QED BY <3>6, <2>5, <1>2
  <2>6. {c \in Missing : c > last} = Rest \ Page
    BY <2>4, <2>5
  <2> QED BY <2>2, <2>6 DEF last
<1> QED
  BY <1>1, <1>2, <1>3, <1>4

-----------------------------------------------------------------------------
(* The invariant of a run                                                  *)

States == {"submitted", "embedded", "failed", "handled"}
Flushes == WriteModes \cup {<<>>}

Handled(b) == futures[b].state = "handled"

(* The chunks whose batch has not been handled yet, and those embedded     *)
(* whose flush has not begun.                                              *)
Pending == {c \in Chunk : \E b \in DOMAIN futures : c \in futures[b].chunks /\ ~Handled(b)}
Buffered == Elements(buffer)

(* What the run has still to flush or to give up.                          *)
Ahead == Pending \cup Buffered \cup Rest

Active == pc \notin {"idle", "dead"}

ShapeInv ==
  /\ {disk, tx, lance, out} \subseteq SUBSET Chunk
  /\ setting \in Settings
  /\ after \in Nat /\ flushes \in Nat
  /\ stats \in [attempted : Nat, embedded : Nat, failed : Nat]
  /\ futures \in [DOMAIN futures -> [chunks : SUBSET Chunk, state : States]]
  /\ buffer \in Seq(Chunk)
  /\ todo \in Flushes

(* What the place of the main thread says: batches wait only while a page  *)
(* is collected, a flush is only under way while it is written, and the    *)
(* run comes to its end when nothing is left.                              *)
PlaceInv ==
  /\ pc \notin {"collect", "drain", "write"} => Pending = {}
  /\ pc \notin {"write", "writeForced"} => todo = <<>>
  /\ pc \in {"force", "writeForced", "close"} => Rest = {}
  /\ pc = "close" => buffer = <<>>
  /\ ~Active \/ flushes = 0 => tx = disk
  /\ todo # <<>> => flushes > 0

(* No chunk is in two places, and what has been fetched is behind the      *)
(* cursor.                                                                 *)
ApartInv ==
  /\ \A a, b \in DOMAIN futures : a # b => futures[a].chunks \cap futures[b].chunks = {}
  /\ \A c \in Buffered : c \notin Pending
  /\ \A c \in Pending \cup Buffered : c <= after
  /\ todo # <<>> => \A c \in out : c <= after

(* Each chunk that was missing at the start is counted or still to come.   *)
CountInv ==
  /\ Active => stats.embedded + stats.failed + Cardinality(Pending) + Cardinality(Rest) = stats.attempted
  /\ ~Active => stats.embedded + stats.failed <= stats.attempted

RunInv == ShapeInv /\ PlaceInv /\ ApartInv /\ CountInv

(* The sets of an invariant state.                                         *)
LEMMA RunSets ==
  ASSUME ShapeInv
  PROVE  /\ Pending \in SUBSET Chunk /\ Buffered \in SUBSET Chunk /\ Rest \in SUBSET Chunk
         /\ Cardinality(Pending) \in Nat /\ Cardinality(Rest) \in Nat
<1>1. Pending \in SUBSET Chunk /\ Rest \in SUBSET Chunk
  BY DEF Pending, Rest, Missing
<1>2. Buffered \in SUBSET Chunk
  BY DEF Buffered, Elements, ShapeInv
<1> QED
  BY <1>1, <1>2, ChunksFinite

(* A batch moves on: its chunks and all other batches stay as they are.    *)
LEMMA BatchMoves ==
  ASSUME ShapeInv, NEW b \in DOMAIN futures, NEW state \in States,
         futures' = [futures EXCEPT ![b].state = state]
  PROVE  /\ DOMAIN futures' = DOMAIN futures
         /\ futures' \in [DOMAIN futures' -> [chunks : SUBSET Chunk, state : States]]
         /\ \A a \in DOMAIN futures :
              /\ futures'[a].chunks = futures[a].chunks
              /\ futures'[a].state = IF a = b THEN state ELSE futures[a].state
<1>1. futures \in [DOMAIN futures -> [chunks : SUBSET Chunk, state : States]]
  BY DEF ShapeInv
<1>2. DOMAIN futures' = DOMAIN futures
  BY <1>1
<1>3. futures'[b] = [futures[b] EXCEPT !.state = state]
  BY <1>1
<1>4. futures'[b] \in [chunks : SUBSET Chunk, state : States] /\ futures'[b].chunks = futures[b].chunks /\ futures'[b].state = state
  BY <1>1, <1>3
<1>5. \A a \in DOMAIN futures : a # b => futures'[a] = futures[a]
  BY <1>1
<1>6. futures' \in [DOMAIN futures -> [chunks : SUBSET Chunk, state : States]]
  BY <1>1, <1>2, <1>4, <1>5
<1> QED
  BY <1>2, <1>4, <1>5, <1>6

(* Handling a batch takes its chunks, and no others, from those pending.   *)
LEMMA BatchHandled ==
  ASSUME ShapeInv, ApartInv, NEW b \in DOMAIN futures, ~Handled(b),
         futures' = [futures EXCEPT ![b].state = "handled"]
  PROVE  /\ futures[b].chunks \in SUBSET Pending
         /\ Pending' = Pending \ futures[b].chunks
         /\ \A a, e \in DOMAIN futures' : a # e => futures'[a].chunks \cap futures'[e].chunks = {}
         /\ Cardinality(Pending') = Cardinality(Pending) - Cardinality(futures[b].chunks)
         /\ Cardinality(futures[b].chunks) \in Nat
<1>1. /\ DOMAIN futures' = DOMAIN futures
      /\ \A a \in DOMAIN futures :
              /\ futures'[a].chunks = futures[a].chunks
              /\ futures'[a].state = IF a = b THEN "handled" ELSE futures[a].state
  BY BatchMoves DEF States
<1>2. futures[b].chunks \in SUBSET Chunk
  BY DEF ShapeInv
<1>3. futures[b].chunks \in SUBSET Pending
  BY <1>2 DEF Pending
<1>4. Pending' = Pending \ futures[b].chunks
  <2>1. ASSUME NEW c \in Pending' PROVE c \in Pending /\ c \notin futures[b].chunks
    <3>1. PICK a \in DOMAIN futures : c \in futures[a].chunks /\ futures'[a].state # "handled"
      BY <1>1, <2>1 DEF Pending, Handled
    <3>2. a # b /\ ~Handled(a) /\ c \in Chunk
      BY <1>1, <3>1, <2>1 DEF Handled, Pending
    <3>3. c \notin futures[b].chunks
      BY <3>1, <3>2 DEF ApartInv
    <3> QED BY <3>1, <3>2, <3>3 DEF Pending
  <2>2. ASSUME NEW c \in Pending, c \notin futures[b].chunks PROVE c \in Pending'
    <3>1. PICK a \in DOMAIN futures : c \in futures[a].chunks /\ ~Handled(a)
      BY DEF Pending
    <3>2. a # b /\ c \in Chunk
      BY <2>2, <3>1 DEF Pending
    <3>3. a \in DOMAIN futures' /\ c \in futures'[a].chunks /\ futures'[a].state # "handled"
      BY <1>1, <3>1, <3>2 DEF Handled
    <3> QED BY <3>2, <3>3 DEF Pending, Handled
  <2> QED BY <2>1, <2>2
<1>5. \A a, e \in DOMAIN futures' : a # e => futures'[a].chunks \cap futures'[e].chunks = {}
  BY <1>1 DEF ApartInv
<1>6. Cardinality(Pending \ futures[b].chunks) = Cardinality(Pending) - Cardinality(futures[b].chunks)
  BY <1>3, RunSets, TakeAway
<1>7. Cardinality(Pending') = Cardinality(Pending \ futures[b].chunks)
  BY <1>4, Zenon
<1> QED
  BY <1>2, <1>3, <1>4, <1>5, <1>6, <1>7, ChunksFinite

LEMMA SettingValues ==
  ASSUME setting \in Settings
  PROVE  mode \in WriteModes /\ mode \in Flushes /\ WriteBuffer \in Nat
BY SettingAssumption DEF mode, WriteBuffer, Flushes

LEMMA EmptyCount == Cardinality({}) = 0
BY FS_EmptySet

(* The first state and the start of a run: everything that is missing is   *)
(* still to come.                                                          *)
LEMMA RunInvInit == Init => RunInv
<1> SUFFICES ASSUME Init PROVE RunInv
  OBVIOUS
<1> USE DEF Init
<1>1. ShapeInv
  BY DEF ShapeInv, NoStats, Flushes, States
<1>2. Pending = {} /\ Buffered = {}
  BY DEF Pending, Buffered, Elements
<1> QED
  BY <1>1, <1>2 DEF RunInv, PlaceInv, ApartInv, CountInv, Active, NoStats

LEMMA StartRunKeepsInv == RunInv /\ StartRun => RunInv'
<1> SUFFICES ASSUME RunInv, StartRun PROVE RunInv'
  OBVIOUS
<1>1. /\ pc \in {"idle", "dead"} /\ setting' \in Settings
      /\ stats' = [attempted |-> Cardinality(Missing), embedded |-> 0, failed |-> 0]
      /\ pc' = IF Missing = {} THEN "idle" ELSE "fetch"
      /\ after' = 0 /\ futures' = <<>> /\ buffer' = <<>> /\ flushes' = 0
      /\ disk' = disk /\ tx' = tx /\ lance' = lance /\ out' = out /\ todo' = todo
  BY DEF StartRun, NoStats, database
<1>2. todo = <<>> /\ tx = disk
  BY <1>1 DEF RunInv, PlaceInv, Active
<1>3. Missing \in SUBSET Chunk
  BY DEF Missing
<1>4. Cardinality(Missing) \in Nat
  BY <1>3, ChunksFinite
<1>5. ShapeInv'
  BY <1>1, <1>4 DEF RunInv, ShapeInv
<1>6. Pending' = {} /\ Buffered' = {}
  BY <1>1 DEF Pending, Buffered, Elements
<1>7. Rest' = Missing
  <2>1. \A c \in Missing : c > 0
    BY DEF Missing, Chunk
  <2> QED BY <1>1, <2>1 DEF Rest, Missing
<1>8. PlaceInv'
  BY <1>1, <1>2, <1>6 DEF PlaceInv, Active
<1>9. ApartInv'
  BY <1>1, <1>2, <1>6 DEF ApartInv
<1>10. CountInv'
  <2>1. Cardinality(Pending') = 0
    BY <1>6, EmptyCount
  <2>2. Cardinality(Rest') = Cardinality(Missing)
    BY <1>7
  <2>3. Cardinality(Missing) = 0 \/ Missing # {}
    BY EmptyCount
  <2> QED BY <1>1, <1>4, <2>1, <2>2, <2>3 DEF CountInv, Active
<1> QED
  BY <1>5, <1>8, <1>9, <1>10 DEF RunInv

(* The next page goes from the rest to the batches.                        *)
LEMMA FetchPageKeepsInv == RunInv /\ FetchPage => RunInv' /\ Ahead \subseteq Ahead'
<1> SUFFICES ASSUME RunInv, FetchPage PROVE RunInv' /\ Ahead \subseteq Ahead'
  OBVIOUS
<1>1. /\ pc = "fetch" /\ setting' = setting /\ buffer' = buffer /\ out' = out /\ todo' = todo
      /\ flushes' = flushes /\ stats' = stats /\ disk' = disk /\ tx' = tx /\ lance' = lance
  BY DEF FetchPage, database
<1>2. todo = <<>> /\ Pending = {}
  BY <1>1 DEF RunInv, PlaceInv
<1>3. after \in Nat /\ ShapeInv
  BY DEF RunInv, ShapeInv
<1>4. Buffered' = Buffered /\ Missing' = Missing
  BY <1>1 DEF Buffered, Missing
<1>5. CASE Page = {}
  <2>1. pc' = "force" /\ after' = after /\ futures' = futures
    BY <1>5 DEF FetchPage
  <2>2. Rest = {}
    BY <1>3, <1>5, PageIsPrefix
  <2>3. Rest' = Rest /\ Pending' = Pending
    BY <2>1, <1>4 DEF Rest, Pending, Handled
  <2>4. ShapeInv'
    BY <1>1, <2>1 DEF RunInv, ShapeInv
  <2>5. PlaceInv'
    BY <1>1, <1>2, <2>1, <2>2, <2>3 DEF RunInv, PlaceInv, Active
  <2>6. ApartInv'
    BY <1>1, <1>2, <1>4, <2>1, <2>3 DEF RunInv, ApartInv
  <2>7. CountInv'
    BY <1>1, <2>1, <2>3 DEF RunInv, CountInv, Active
  <2>8. Ahead' = Ahead
    BY <1>4, <2>3 DEF Ahead
  <2> QED BY <2>4, <2>5, <2>6, <2>7, <2>8 DEF RunInv
<1>6. CASE Page # {}
  <2>1. pc' = "collect" /\ futures' = Batches(Page) /\ after' = CHOOSE c \in Page : \A d \in Page : d <= c
    BY <1>6 DEF FetchPage
  <2>2. /\ Rest \in SUBSET Chunk /\ Page \in SUBSET Rest
        /\ after' \in Page /\ (\A d \in Page : d <= after')
        /\ {c \in Missing : c > after'} = Rest \ Page
    <3>1. /\ Rest \in SUBSET Chunk /\ Page \in SUBSET Rest
          /\ \E last \in Page :
                /\ last = CHOOSE c \in Page : \A d \in Page : d <= c
                /\ \A d \in Page : d <= last
                /\ {c \in Missing : c > last} = Rest \ Page
      BY <1>3, <1>6, PageIsPrefix
    <3> QED BY <2>1, <3>1
  <2>3. Page \in SUBSET Chunk
    BY <2>2
  <2>4. /\ futures' \in [DOMAIN futures' -> [chunks : SUBSET Page, state : {"submitted"}]]
        /\ \A a, b \in DOMAIN futures' : a # b => futures'[a].chunks \cap futures'[b].chunks = {}
        /\ \A c \in Page : \E b \in DOMAIN futures' : c \in futures'[b].chunks
    BY <2>1, <2>3, BatchesPartition
  <2>5. futures' \in [DOMAIN futures' -> [chunks : SUBSET Chunk, state : States]]
    BY <2>3, <2>4 DEF States
  <2>6. after' \in Nat /\ after < after'
    BY <1>3, <2>2 DEF Chunk, Rest
  <2>7. Pending' = Page
    <3>1. \A b \in DOMAIN futures' : futures'[b].state = "submitted" /\ futures'[b].chunks \subseteq Page
      BY <2>4
    <3>2. \A b \in DOMAIN futures' : futures'[b].state # "handled"
      BY <3>1
    <3>3. Pending' = {c \in Chunk : \E b \in DOMAIN futures' : c \in futures'[b].chunks /\ futures'[b].state # "handled"}
      BY DEF Pending, Handled
    <3> QED BY <2>3, <2>4, <3>1, <3>2, <3>3
  <2>8. Rest' = Rest \ Page
    BY <1>4, <2>2 DEF Rest
  <2>9. ShapeInv'
    BY <1>1, <2>5, <2>6 DEF RunInv, ShapeInv
  <2>10. PlaceInv'
    BY <1>1, <1>2, <2>1 DEF RunInv, PlaceInv, Active
  <2>11. ApartInv'
    <3>1. \A c \in Buffered : c \in Int /\ c <= after
      BY <1>3, RunSets DEF RunInv, ApartInv, Chunk
    <3>2. \A c \in Page : c \in Int /\ c > after
      BY <2>2 DEF Rest, Chunk
    <3>3. \A c \in Buffered' : c \notin Pending'
      BY <1>3, <1>4, <2>7, <3>1, <3>2
    <3>4. \A c \in Pending' \cup Buffered' : c <= after'
      BY <1>3, <1>4, <2>2, <2>6, <2>7, <3>1
    <3> QED BY <1>1, <1>2, <2>4, <3>3, <3>4 DEF ApartInv
  <2>12. CountInv'
    <3>1. Cardinality(Rest \ Page) = Cardinality(Rest) - Cardinality(Page)
      BY <2>2, TakeAway
    <3>2. Cardinality(Rest') = Cardinality(Rest) - Cardinality(Page)
      BY <2>8, <3>1
    <3>3. Cardinality(Pending') = Cardinality(Page)
      BY <2>7
    <3>4. Cardinality(Pending) = 0
      BY <1>2, EmptyCount
    <3>5. Cardinality(Rest) \in Nat /\ Cardinality(Page) \in Nat
      BY <2>2, <2>3, ChunksFinite
    <3> QED BY <1>1, <2>1, <3>2, <3>3, <3>4, <3>5 DEF RunInv, ShapeInv, CountInv, Active
  <2>13. Ahead \subseteq Ahead'
    BY <1>2, <1>4, <2>7, <2>8 DEF Ahead
  <2> QED BY <2>9, <2>10, <2>11, <2>12, <2>13 DEF RunInv
<1> QED
  BY <1>5, <1>6

(* A worker's result changes no batch's chunks and handles none.           *)
LEMMA WorkerKeepsInv == RunInv /\ WorkerStep => RunInv' /\ Ahead' = Ahead
<1> SUFFICES ASSUME RunInv, NEW b \in DOMAIN futures, NEW result \in {"embedded", "failed"}, EmbedBatch(b, result)
             PROVE  RunInv' /\ Ahead' = Ahead
  BY DEF WorkerStep
<1>1. /\ futures[b].state = "submitted" /\ futures' = [futures EXCEPT ![b].state = result]
      /\ disk' = disk /\ tx' = tx /\ lance' = lance /\ pc' = pc /\ setting' = setting /\ after' = after
      /\ buffer' = buffer /\ out' = out /\ todo' = todo /\ flushes' = flushes /\ stats' = stats
  BY DEF EmbedBatch, Unfinished, database
<1>2. ShapeInv /\ result \in States
  BY DEF RunInv, States
<1>3. /\ DOMAIN futures' = DOMAIN futures
      /\ futures' \in [DOMAIN futures' -> [chunks : SUBSET Chunk, state : States]]
      /\ \A a \in DOMAIN futures :
              /\ futures'[a].chunks = futures[a].chunks
              /\ futures'[a].state = IF a = b THEN result ELSE futures[a].state
  BY <1>1, <1>2, BatchMoves
<1>4. \A a \in DOMAIN futures : Handled(a)' = Handled(a)
  BY <1>1, <1>3 DEF Handled
<1>5. Pending' = Pending /\ Buffered' = Buffered /\ Rest' = Rest
  BY <1>1, <1>3, <1>4 DEF Pending, Buffered, Rest, Missing
<1>6. ShapeInv'
  BY <1>1, <1>2, <1>3 DEF ShapeInv
<1>7. PlaceInv' /\ CountInv'
  BY <1>1, <1>5 DEF RunInv, PlaceInv, CountInv, Active
<1>8. ApartInv'
  BY <1>1, <1>3, <1>5 DEF RunInv, ApartInv
<1> QED
  BY <1>5, <1>6, <1>7, <1>8 DEF RunInv, Ahead

(* A failed batch goes from pending to failed.                             *)
LEMMA HandleFailedKeepsInv ==
  ASSUME RunInv, NEW b \in DOMAIN futures, HandleFailed(b)
  PROVE  RunInv' /\ Ahead \subseteq Ahead' \cup futures[b].chunks
<1> DEFINE size == Cardinality(futures[b].chunks)
<1>1. /\ pc = "collect" /\ futures[b].state = "failed" /\ futures' = [futures EXCEPT ![b].state = "handled"]
      /\ stats' = [stats EXCEPT !.failed = stats.failed + size]
      /\ disk' = disk /\ tx' = tx /\ lance' = lance /\ pc' = pc /\ setting' = setting /\ after' = after
      /\ buffer' = buffer /\ out' = out /\ todo' = todo /\ flushes' = flushes
  BY DEF HandleFailed, database
<1>2. ShapeInv /\ ApartInv /\ ~Handled(b)
  BY <1>1 DEF RunInv, Handled
<1>3. futures' \in [DOMAIN futures' -> [chunks : SUBSET Chunk, state : States]]
  BY <1>1, <1>2, BatchMoves DEF States
<1>4. /\ futures[b].chunks \in SUBSET Pending
      /\ Pending' = Pending \ futures[b].chunks
      /\ \A a, e \in DOMAIN futures' : a # e => futures'[a].chunks \cap futures'[e].chunks = {}
      /\ Cardinality(Pending') = Cardinality(Pending) - size
      /\ size \in Nat
  BY <1>1, <1>2, BatchHandled
<1> HIDE DEF size
<1>5. Buffered' = Buffered /\ Rest' = Rest
  BY <1>1 DEF Buffered, Rest, Missing
<1>6. /\ stats \in [attempted : Nat, embedded : Nat, failed : Nat]
      /\ stats' \in [attempted : Nat, embedded : Nat, failed : Nat]
      /\ stats'.attempted = stats.attempted /\ stats'.embedded = stats.embedded
      /\ stats'.failed = stats.failed + size
  BY <1>1, <1>2, <1>4 DEF ShapeInv
<1>7. ShapeInv'
  BY <1>1, <1>2, <1>3, <1>6 DEF ShapeInv
<1>8. PlaceInv'
  BY <1>1, <1>5 DEF RunInv, PlaceInv, Active
<1>9. ApartInv'
  BY <1>1, <1>2, <1>4, <1>5 DEF ApartInv
<1>10. CountInv'
  <2>1. Cardinality(Pending) \in Nat /\ Cardinality(Rest) \in Nat
    BY <1>2, RunSets
  <2>2. stats.embedded + stats.failed + Cardinality(Pending) + Cardinality(Rest) = stats.attempted
    BY <1>1 DEF RunInv, CountInv, Active
  <2>3. Cardinality(Rest') = Cardinality(Rest)
    BY <1>5
  <2> QED BY <1>1, <1>4, <1>6, <2>1, <2>2, <2>3 DEF CountInv, Active
<1> QED
  BY <1>4, <1>5, <1>7, <1>8, <1>9, <1>10 DEF RunInv, Ahead

(* An embedded batch goes from pending to the flush or into the buffer.    *)
LEMMA HandleEmbeddedKeepsInv ==
  ASSUME RunInv, NEW b \in DOMAIN futures, HandleDirect(b) \/ HandleBuffered(b)
  PROVE  RunInv' /\ Ahead \subseteq Ahead' \cup (IF todo' = mode THEN out' ELSE {})
<1> DEFINE size == Cardinality(futures[b].chunks)
<1>1. /\ pc = "collect" /\ futures[b].state = "embedded" /\ futures' = [futures EXCEPT ![b].state = "handled"]
      /\ stats' = [stats EXCEPT !.embedded = stats.embedded + size]
      /\ disk' = disk /\ tx' = tx /\ lance' = lance /\ setting' = setting /\ after' = after
      /\ pc' \in {"write", "drain"}
  BY DEF HandleDirect, HandleBuffered, database
<1>2. ShapeInv /\ ApartInv /\ ~Handled(b) /\ todo = <<>>
  BY <1>1 DEF RunInv, PlaceInv, Handled
<1>3. futures' \in [DOMAIN futures' -> [chunks : SUBSET Chunk, state : States]]
  BY <1>1, <1>2, BatchMoves DEF States
<1>4. /\ futures[b].chunks \in SUBSET Pending
      /\ Pending' = Pending \ futures[b].chunks
      /\ \A a, e \in DOMAIN futures' : a # e => futures'[a].chunks \cap futures'[e].chunks = {}
      /\ Cardinality(Pending') = Cardinality(Pending) - size
      /\ size \in Nat
  BY <1>1, <1>2, BatchHandled
<1> HIDE DEF size
<1>5. Rest' = Rest
  BY <1>1 DEF Rest, Missing
<1>6. /\ stats \in [attempted : Nat, embedded : Nat, failed : Nat]
      /\ stats' \in [attempted : Nat, embedded : Nat, failed : Nat]
      /\ stats'.attempted = stats.attempted /\ stats'.failed = stats.failed
      /\ stats'.embedded = stats.embedded + size
  BY <1>1, <1>2, <1>4 DEF ShapeInv
<1>7. futures[b].chunks \in SUBSET Chunk /\ Pending \in SUBSET Chunk
  BY <1>2, <1>4, RunSets
<1>8. CountInv'
  <2>1. Cardinality(Pending) \in Nat /\ Cardinality(Rest) \in Nat
    BY <1>2, RunSets
  <2>2. stats.embedded + stats.failed + Cardinality(Pending) + Cardinality(Rest) = stats.attempted
    BY <1>1 DEF RunInv, CountInv, Active
  <2>3. Cardinality(Rest') = Cardinality(Rest)
    BY <1>5
  <2> QED BY <1>1, <1>4, <1>6, <2>1, <2>2, <2>3 DEF CountInv, Active
<1>9. \A c \in futures[b].chunks : c <= after
  BY <1>2, <1>4 DEF ApartInv
<1>10. CASE HandleDirect(b)
  <2>1. out' = futures[b].chunks /\ todo' = mode /\ flushes' = flushes + 1 /\ pc' = "write" /\ buffer' = buffer
    BY <1>10 DEF HandleDirect
  <2>2. mode \in Flushes
    BY <1>2, SettingValues DEF ShapeInv
  <2>3. Buffered' = Buffered
    BY <2>1 DEF Buffered
  <2>4. ShapeInv'
    BY <1>1, <1>2, <1>3, <1>6, <1>7, <2>1, <2>2 DEF ShapeInv
  <2>5. PlaceInv'
    BY <1>2, <2>1 DEF PlaceInv, Active, ShapeInv
  <2>6. ApartInv'
    BY <1>1, <1>2, <1>4, <1>9, <2>1, <2>3 DEF ApartInv
  <2>7. Ahead \subseteq Ahead' \cup out'
    BY <1>4, <1>5, <2>1, <2>3 DEF Ahead
  <2> QED BY <1>8, <2>1, <2>4, <2>5, <2>6, <2>7 DEF RunInv
<1>11. CASE HandleBuffered(b)
  <2>1. /\ buffer' = buffer \o InOrder(futures[b].chunks) /\ pc' = "drain"
        /\ out' = out /\ todo' = todo /\ flushes' = flushes
    BY <1>11 DEF HandleBuffered
  <2>2. /\ InOrder(futures[b].chunks) \in Seq(futures[b].chunks)
        /\ Elements(InOrder(futures[b].chunks)) = futures[b].chunks
    BY <1>7, InOrderHasAll
  <2>3. buffer' \in Seq(Chunk) /\ Buffered' = Buffered \cup futures[b].chunks
    <3> DEFINE extra == InOrder(futures[b].chunks)
               chunks == futures[b].chunks
    <3>1. chunks \in SUBSET Chunk /\ extra \in Seq(chunks) /\ Elements(extra) = chunks
      BY <1>7, <2>2
    <3>2. buffer \in Seq(Chunk) /\ buffer' = buffer \o extra
      BY <1>2, <2>1 DEF ShapeInv
    <3> HIDE DEF extra, chunks
    <3>3. /\ buffer \o extra \in Seq(Chunk)
          /\ Elements(buffer \o extra) = Elements(buffer) \cup Elements(extra)
      BY <3>1, <3>2, ConcatHasBoth
    <3>4. Buffered' = Elements(buffer \o extra)
      BY <3>2 DEF Buffered
    <3>5. Buffered' = Buffered \cup chunks
      BY <3>1, <3>3, <3>4 DEF Buffered
    <3> QED BY <3>2, <3>3, <3>5 DEF chunks
  <2>4. ShapeInv'
    BY <1>1, <1>2, <1>3, <1>6, <2>1, <2>3 DEF ShapeInv
  <2>5. PlaceInv'
    BY <1>1, <1>2, <2>1 DEF RunInv, PlaceInv, Active, ShapeInv
  <2>6. ApartInv'
    BY <1>1, <1>2, <1>4, <1>9, <2>1, <2>3 DEF ApartInv
  <2>7. Ahead \subseteq Ahead'
    BY <1>4, <1>5, <2>3 DEF Ahead
  <2> QED BY <1>8, <2>4, <2>5, <2>6, <2>7 DEF RunInv
<1> QED
  BY <1>10, <1>11

(* The oldest vectors go from the buffer to the flush.                     *)
LEMMA DrainFlushKeepsInv == RunInv /\ DrainFlush => RunInv' /\ Ahead \subseteq Ahead' \cup out'
<1> SUFFICES ASSUME RunInv, DrainFlush PROVE RunInv' /\ Ahead \subseteq Ahead' \cup out'
  OBVIOUS
<1> DEFINE width == FlushWidth
<1>1. /\ pc \in {"drain", "force"} /\ width > 0
      /\ out' = {buffer[n] : n \in 1..width}
      /\ buffer' = SubSeq(buffer, width + 1, Len(buffer))
      /\ todo' = mode /\ flushes' = flushes + 1
      /\ pc' = IF pc = "force" THEN "writeForced" ELSE "write"
      /\ disk' = disk /\ tx' = tx /\ lance' = lance /\ setting' = setting /\ after' = after
      /\ futures' = futures /\ stats' = stats
  BY DEF DrainFlush, database
<1>2. ShapeInv /\ buffer \in Seq(Chunk) /\ mode \in Flushes /\ WriteBuffer \in Nat
  BY SettingValues DEF RunInv, ShapeInv
<1>3. width \in 1..Len(buffer)
  BY <1>1, <1>2 DEF FlushWidth
<1> HIDE DEF width
<1>4. /\ buffer' \in Seq(Chunk) /\ out' \in SUBSET Chunk
      /\ Buffered' \subseteq Buffered /\ out' \subseteq Buffered
      /\ Buffered = out' \cup Buffered'
  <2> DEFINE kept == SubSeq(buffer, width + 1, Len(buffer))
  <2>1. /\ kept \in Seq(Chunk)
        /\ FirstOf(buffer, width) \in SUBSET Chunk
        /\ Elements(buffer) = FirstOf(buffer, width) \cup Elements(kept)
    BY <1>2, <1>3, SplitHasBoth
  <2>2. buffer' = kept
    BY <1>1
  <2> HIDE DEF kept
  <2>3. Buffered' = Elements(kept) /\ Buffered = Elements(buffer)
    BY <2>2 DEF Buffered
  <2>4. out' = FirstOf(buffer, width)
    BY <1>1 DEF FirstOf
  <2>5. Buffered = out' \cup Buffered'
    BY <2>1, <2>3, <2>4
  <2>6. buffer' \in Seq(Chunk) /\ out' \in SUBSET Chunk
    BY <2>1, <2>2, <2>4
  <2> QED BY <2>5, <2>6
<1>5. Pending' = Pending /\ Rest' = Rest
  BY <1>1 DEF Pending, Handled, Rest, Missing
<1>6. ShapeInv'
  BY <1>1, <1>2, <1>4 DEF ShapeInv
<1>7. PlaceInv'
  BY <1>1, <1>2, <1>5 DEF RunInv, PlaceInv, Active, ShapeInv
<1>8. ApartInv'
  BY <1>1, <1>4, <1>5 DEF RunInv, ApartInv
<1>9. CountInv'
  BY <1>1, <1>5 DEF RunInv, CountInv, Active
<1> QED
  BY <1>4, <1>5, <1>6, <1>7, <1>8, <1>9 DEF RunInv, Ahead

(* Writing the flush out and committing: the flush is behind the cursor,   *)
(* so the rest stays as it is.                                             *)
LEMMA WriteStoreKeepsInv == RunInv /\ WriteStore => RunInv' /\ Ahead' = Ahead
<1> SUFFICES ASSUME RunInv, WriteStore PROVE RunInv' /\ Ahead' = Ahead
  OBVIOUS
<1>1. /\ pc \in {"write", "writeForced"} /\ todo # <<>> /\ todo' = Tail(todo)
      /\ tx' = (IF Head(todo) = "sqlite" THEN tx \cup out ELSE tx)
      /\ lance' = (IF Head(todo) = "lance" THEN lance \cup out ELSE lance)
      /\ disk' = disk /\ pc' = pc /\ setting' = setting /\ after' = after /\ futures' = futures
      /\ buffer' = buffer /\ out' = out /\ flushes' = flushes /\ stats' = stats
  BY DEF WriteStore
<1>2. todo \in WriteModes /\ Tail(todo) \in Flushes
  <2>1. todo \in WriteModes
    BY <1>1 DEF RunInv, ShapeInv, Flushes
  <2>2. Tail(<<"sqlite">>) = <<>> /\ Tail(<<"lance">>) = <<>> /\ Tail(<<"sqlite", "lance">>) = <<"lance">>
    OBVIOUS
  <2> QED BY <2>1, <2>2 DEF WriteModes, Flushes
<1>3. flushes > 0 /\ \A c \in out : c <= after
  BY <1>1 DEF RunInv, PlaceInv, ApartInv
<1>4. after \in Nat /\ out \in SUBSET Chunk
  BY DEF RunInv, ShapeInv
<1>5. Rest' = Rest
  <2>1. \A c \in out : ~(c > after)
    BY <1>3, <1>4 DEF Chunk
  <2> QED BY <1>1, <2>1 DEF Rest, Missing
<1>6. Pending' = Pending /\ Buffered' = Buffered
  BY <1>1 DEF Pending, Handled, Buffered
<1>7. ShapeInv'
  BY <1>1, <1>2 DEF RunInv, ShapeInv
<1>8. PlaceInv'
  BY <1>1, <1>3, <1>4, <1>5, <1>6 DEF RunInv, PlaceInv, Active, ShapeInv
<1>9. ApartInv'
  BY <1>1, <1>3, <1>6 DEF RunInv, ApartInv
<1>10. CountInv'
  BY <1>1, <1>5, <1>6 DEF RunInv, CountInv, Active
<1> QED
  BY <1>5, <1>6, <1>7, <1>8, <1>9, <1>10 DEF RunInv, Ahead

LEMMA EndFlushKeepsInv == RunInv /\ EndFlush => RunInv' /\ Ahead' = Ahead
<1> SUFFICES ASSUME RunInv, EndFlush PROVE RunInv' /\ Ahead' = Ahead
  OBVIOUS
<1>1. /\ pc \in {"write", "writeForced"} /\ todo = <<>>
      /\ (disk' = tx /\ flushes' = 0) \/ (disk' = disk /\ flushes' = flushes)
      /\ pc = "writeForced" => pc' = "force"
      /\ pc = "write" => pc' \in {"collect", "drain"}
      /\ tx' = tx /\ lance' = lance /\ setting' = setting /\ after' = after /\ futures' = futures
      /\ buffer' = buffer /\ out' = out /\ todo' = todo /\ stats' = stats
  BY DEF EndFlush
<1>2. Rest' = Rest /\ Pending' = Pending /\ Buffered' = Buffered
  BY <1>1 DEF Rest, Missing, Pending, Handled, Buffered
<1>3. ShapeInv'
  BY <1>1 DEF RunInv, ShapeInv
<1>4. PlaceInv'
  BY <1>1, <1>2 DEF RunInv, PlaceInv, Active
<1>5. ApartInv'
  BY <1>1, <1>2 DEF RunInv, ApartInv
<1>6. CountInv'
  BY <1>1, <1>2 DEF RunInv, CountInv, Active
<1> QED
  BY <1>2, <1>3, <1>4, <1>5, <1>6 DEF RunInv, Ahead

(* The main thread moves on and touches nothing.                           *)
LEMMA MoveOnKeepsInv == RunInv /\ (DrainDone \/ PageDone \/ UNCHANGED vars) => RunInv' /\ Ahead' = Ahead
<1> SUFFICES ASSUME RunInv, DrainDone \/ PageDone \/ UNCHANGED vars PROVE RunInv' /\ Ahead' = Ahead
  OBVIOUS
<1>1. /\ disk' = disk /\ tx' = tx /\ lance' = lance /\ setting' = setting /\ after' = after /\ futures' = futures
      /\ buffer' = buffer /\ out' = out /\ todo' = todo /\ flushes' = flushes /\ stats' = stats
  BY DEF DrainDone, PageDone, vars, database, locals
<1>2. Rest' = Rest /\ Pending' = Pending /\ Buffered' = Buffered
  BY <1>1 DEF Rest, Missing, Pending, Handled, Buffered
<1>3. ShapeInv'
  BY <1>1 DEF RunInv, ShapeInv
<1>4. ApartInv'
  BY <1>1, <1>2 DEF RunInv, ApartInv
<1>5. PlaceInv' /\ CountInv'
  <2>1. CASE DrainDone
    <3>1. /\ pc \in {"drain", "force"} /\ FlushWidth = 0
          /\ pc' = IF pc = "force" THEN "close" ELSE "collect"
      BY <2>1 DEF DrainDone
    <3>2. pc = "force" => buffer = <<>>
      <4>1. pc = "force" => Len(buffer) = 0
        BY <3>1 DEF FlushWidth
      <4>2. buffer \in Seq(Chunk)
        BY DEF RunInv, ShapeInv
      <4> QED BY <4>1, <4>2, EmptySeq
    <3> QED BY <1>1, <1>2, <3>1, <3>2 DEF RunInv, PlaceInv, CountInv, Active
  <2>2. CASE PageDone
    <3>1. pc = "collect" /\ pc' = "fetch" /\ \A b \in DOMAIN futures : futures[b].state = "handled"
      BY <2>2 DEF PageDone
    <3>2. Pending = {}
      BY <3>1 DEF Pending, Handled
    <3> QED BY <1>1, <1>2, <3>1, <3>2 DEF RunInv, PlaceInv, CountInv, Active
  <2>3. CASE UNCHANGED vars
    <3>1. pc' = pc
      BY <2>3 DEF vars
    <3> QED BY <1>1, <1>2, <3>1 DEF RunInv, PlaceInv, CountInv, Active
  <2> QED BY <2>1, <2>2, <2>3
<1> QED
  BY <1>2, <1>3, <1>4, <1>5 DEF RunInv, Ahead

(* The last commit: nothing is pending, nothing is left of the rest.       *)
LEMMA CloseKeepsInv == RunInv /\ Close => RunInv'
<1> SUFFICES ASSUME RunInv, Close PROVE RunInv'
  OBVIOUS
<1>1. /\ pc = "close" /\ pc' = "idle" /\ disk' = (IF flushes > 0 THEN tx ELSE disk) /\ tx' = disk' /\ flushes' = 0
      /\ lance' = lance /\ setting' = setting /\ after' = after /\ futures' = futures
      /\ buffer' = buffer /\ out' = out /\ todo' = todo /\ stats' = stats
  BY DEF Close
<1>2. disk' = tx /\ tx' = tx
  BY <1>1 DEF RunInv, ShapeInv, PlaceInv
<1>3. Rest' = Rest /\ Pending' = Pending /\ Buffered' = Buffered
  BY <1>1, <1>2 DEF Rest, Missing, Pending, Handled, Buffered
<1>4. ShapeInv'
  BY <1>1, <1>2 DEF RunInv, ShapeInv
<1>5. PlaceInv'
  BY <1>1, <1>2, <1>3 DEF RunInv, PlaceInv, Active
<1>6. ApartInv'
  BY <1>1, <1>3 DEF RunInv, ApartInv
<1>7. CountInv'
  <2>1. stats.embedded + stats.failed + Cardinality(Pending) + Cardinality(Rest) = stats.attempted
    BY <1>1 DEF RunInv, CountInv, Active
  <2>2. Cardinality(Pending) = 0 /\ Cardinality(Rest) = 0
    BY <1>1, EmptyCount DEF RunInv, PlaceInv
  <2>3. stats \in [attempted : Nat, embedded : Nat, failed : Nat]
    BY DEF RunInv, ShapeInv
  <2> QED BY <1>1, <2>1, <2>2, <2>3 DEF CountInv, Active
<1> QED
  BY <1>4, <1>5, <1>6, <1>7 DEF RunInv

(* An interruption leaves what is on disk.                                 *)
LEMMA InterruptKeepsInv == RunInv /\ Interrupt => RunInv'
<1> SUFFICES ASSUME RunInv, Interrupt PROVE RunInv'
  OBVIOUS
<1>1. /\ pc' = "dead" /\ tx' = disk /\ after' = 0 /\ futures' = <<>> /\ buffer' = <<>> /\ out' = {} /\ todo' = <<>>
      /\ flushes' = 0 /\ stats' = [attempted |-> 0, embedded |-> 0, failed |-> 0]
      /\ disk' = disk /\ lance' = lance /\ setting' = setting
  BY DEF Interrupt, NoStats
<1>2. Pending' = {} /\ Buffered' = {}
  BY <1>1 DEF Pending, Buffered, Elements
<1>3. ShapeInv'
  BY <1>1 DEF RunInv, ShapeInv, Flushes
<1> QED
  BY <1>1, <1>2, <1>3 DEF RunInv, PlaceInv, ApartInv, CountInv, Active

LEMMA RunInvNext == RunInv /\ [Next]_vars => RunInv'
<1> SUFFICES ASSUME RunInv, [Next]_vars PROVE RunInv'
  OBVIOUS
<1>1. CASE StartRun
  BY <1>1, StartRunKeepsInv
<1>2. CASE FetchPage
  BY <1>2, FetchPageKeepsInv
<1>3. CASE DrainFlush
  BY <1>3, DrainFlushKeepsInv
<1>4. CASE DrainDone \/ PageDone \/ UNCHANGED vars
  BY <1>4, MoveOnKeepsInv
<1>5. CASE WriteStore
  BY <1>5, WriteStoreKeepsInv
<1>6. CASE EndFlush
  BY <1>6, EndFlushKeepsInv
<1>7. CASE Close
  BY <1>7, CloseKeepsInv
<1>8. CASE \E b \in DOMAIN futures : HandleFailed(b)
  BY <1>8, HandleFailedKeepsInv
<1>9. CASE \E b \in DOMAIN futures : HandleDirect(b) \/ HandleBuffered(b)
  BY <1>9, HandleEmbeddedKeepsInv
<1>10. CASE WorkerStep
  BY <1>10, WorkerKeepsInv
<1>11. CASE Interrupt
  BY <1>11, InterruptKeepsInv
<1> QED
  BY <1>1, <1>2, <1>3, <1>4, <1>5, <1>6, <1>7, <1>8, <1>9, <1>10, <1>11 DEF Next, MainStep

THEOREM RunInvariance == Spec => []RunInv
<1> QED
  BY RunInvInit, RunInvNext, PTL DEF Spec

LEMMA NothingTwice == RunInv => NoChunkTwice
<1> SUFFICES ASSUME RunInv PROVE NoChunkTwice
  OBVIOUS
<1>1. stats.embedded + stats.failed <= stats.attempted
  <2>1. Cardinality(Pending) \in Nat /\ Cardinality(Rest) \in Nat
    BY RunSets DEF RunInv
  <2>2. stats.embedded \in Nat /\ stats.failed \in Nat /\ stats.attempted \in Nat
    BY DEF RunInv, ShapeInv
  <2> QED BY <2>1, <2>2 DEF RunInv, CountInv
<1>2. ASSUME NEW b \in DOMAIN futures, NEW n \in DOMAIN buffer, Unfinished(b)
      PROVE  buffer[n] \notin futures[b].chunks
  <2>1. buffer[n] \in Buffered /\ ~Handled(b)
    BY <1>2 DEF Buffered, Elements, Unfinished, Handled
  <2>2. futures[b].chunks \subseteq Chunk
    BY DEF RunInv, ShapeInv
  <2>3. buffer[n] \notin Pending
    BY <2>1 DEF RunInv, ApartInv
  <2> QED BY <2>1, <2>2, <2>3 DEF Pending
<1> QED
  BY <1>1, <1>2 DEF RunInv, ApartInv, NoChunkTwice

(* In every state of every run a chunk is at most in one batch and never   *)
(* in a batch while its vector waits in the buffer, and no more chunks are *)
(* counted as embedded or failed than were missing at the start.           *)
THEOREM NoChunkIsHandledTwice == Spec => []NoChunkTwice
<1> QED
  BY RunInvariance, NothingTwice, PTL

-----------------------------------------------------------------------------
(* Both stores                                                             *)

AlwaysLance == \A s \in Settings : s.stores # <<"sqlite">>

ToWrite(store) == \E n \in DOMAIN todo : todo[n] = store

(* SQLite's open transaction is ahead of LanceDB only by the flush that    *)
(* LanceDB has still to take.                                              *)
LanceInv ==
  /\ todo # <<"sqlite">>
  /\ disk \subseteq tx
  /\ disk \subseteq lance
  /\ tx \subseteq lance \cup (IF ToWrite("lance") THEN out ELSE {})

LEMMA FlushOrder ==
  ASSUME NEW flush \in Flushes, flush # <<>>
  PROVE  \/ flush = <<"sqlite">> /\ Head(flush) = "sqlite" /\ Tail(flush) = <<>>
         \/ flush = <<"lance">> /\ Head(flush) = "lance" /\ Tail(flush) = <<>>
         \/ flush = <<"sqlite", "lance">> /\ Head(flush) = "sqlite" /\ Tail(flush) = <<"lance">>
<1>1. flush \in {<<"sqlite">>, <<"lance">>, <<"sqlite", "lance">>}
  BY DEF Flushes, WriteModes
<1>2. Tail(<<"sqlite">>) = <<>> /\ Tail(<<"lance">>) = <<>> /\ Tail(<<"sqlite", "lance">>) = <<"lance">>
  OBVIOUS
<1>3. Head(<<"sqlite">>) = "sqlite" /\ Head(<<"lance">>) = "lance" /\ Head(<<"sqlite", "lance">>) = "sqlite"
  OBVIOUS
<1>4. CASE flush = <<"sqlite">>
  BY <1>2, <1>3, <1>4
<1>5. CASE flush = <<"lance">>
  BY <1>2, <1>3, <1>5
<1>6. CASE flush = <<"sqlite", "lance">>
  BY <1>2, <1>3, <1>6
<1> QED
  BY <1>1, <1>4, <1>5, <1>6

LEMMA LanceInvNext ==
  ASSUME AlwaysLance
  PROVE  RunInv /\ LanceInv /\ [Next]_vars => LanceInv'
<1> SUFFICES ASSUME RunInv, LanceInv, [Next]_vars PROVE LanceInv'
  OBVIOUS
<1>1. ASSUME UNCHANGED <<disk, tx, lance, out, todo>> PROVE LanceInv'
  BY <1>1 DEF LanceInv, ToWrite
<1>2. ASSUME todo = <<>>, UNCHANGED <<disk, tx, lance>>, todo' \in {<<>>, mode} PROVE LanceInv'
  <2>1. mode # <<"sqlite">>
    BY DEF RunInv, ShapeInv, AlwaysLance, mode
  <2>2. ~ToWrite("lance")
    BY <1>2 DEF ToWrite
  <2> QED BY <1>2, <2>1, <2>2 DEF LanceInv
<1>3. pc \notin {"write", "writeForced"} => todo = <<>>
  BY DEF RunInv, PlaceInv
<1>4. CASE StartRun
  BY <1>1, <1>4 DEF StartRun, database
<1>5. CASE FetchPage
  BY <1>1, <1>5 DEF FetchPage, database
<1>6. CASE DrainFlush
  BY <1>2, <1>3, <1>6 DEF DrainFlush, database
<1>7. CASE DrainDone \/ PageDone \/ UNCHANGED vars
  BY <1>1, <1>7 DEF DrainDone, PageDone, vars, database, locals
<1>8. CASE WriteStore
  <2>1. /\ todo # <<>> /\ todo' = Tail(todo) /\ disk' = disk /\ out' = out
        /\ tx' = (IF Head(todo) = "sqlite" THEN tx \cup out ELSE tx)
        /\ lance' = (IF Head(todo) = "lance" THEN lance \cup out ELSE lance)
    BY <1>8 DEF WriteStore
  <2>2. todo \in Flushes /\ todo # <<"sqlite">>
    BY DEF RunInv, ShapeInv, LanceInv
  <2>3. CASE todo = <<"lance">> /\ Head(todo) = "lance" /\ Tail(todo) = <<>>
    <3>1. ToWrite("lance")
      BY <2>3 DEF ToWrite
    <3>2. ~ToWrite("lance")'
      BY <2>1, <2>3 DEF ToWrite
    <3> QED BY <2>1, <2>3, <3>1, <3>2 DEF LanceInv
  <2>4. CASE todo = <<"sqlite", "lance">> /\ Head(todo) = "sqlite" /\ Tail(todo) = <<"lance">>
    <3>1. ToWrite("lance")
      <4>1. 2 \in DOMAIN todo /\ todo[2] = "lance"
        BY <2>4
      <4> QED BY <4>1 DEF ToWrite
    <3>2. ToWrite("lance")'
      <4>1. 1 \in DOMAIN todo' /\ todo'[1] = "lance"
        BY <2>1, <2>4
      <4> QED BY <4>1 DEF ToWrite
    <3> QED BY <2>1, <2>4, <3>1, <3>2 DEF LanceInv
  <2> QED BY <2>1, <2>2, <2>3, <2>4, FlushOrder
<1>9. CASE EndFlush
  <2>1. todo = <<>> /\ todo' = <<>> /\ tx' = tx /\ lance' = lance /\ disk' \in {disk, tx}
    BY <1>9 DEF EndFlush
  <2>2. ~ToWrite("lance") /\ ~ToWrite("lance")'
    BY <2>1 DEF ToWrite
  <2> QED BY <2>1, <2>2 DEF LanceInv
<1>10. CASE Close
  <2>1. pc = "close" /\ todo' = todo /\ tx' = disk' /\ lance' = lance /\ disk' \in {disk, tx}
    BY <1>10 DEF Close
  <2>2. todo = <<>>
    BY <1>3, <2>1
  <2>3. ~ToWrite("lance") /\ ~ToWrite("lance")'
    BY <2>1, <2>2 DEF ToWrite
  <2> QED BY <2>1, <2>2, <2>3 DEF LanceInv
<1>11. ASSUME NEW b \in DOMAIN futures, HandleFailed(b) PROVE LanceInv'
  BY <1>1, <1>11 DEF HandleFailed, database
<1>12. ASSUME NEW b \in DOMAIN futures, HandleDirect(b) \/ HandleBuffered(b) PROVE LanceInv'
  BY <1>2, <1>3, <1>12 DEF HandleDirect, HandleBuffered, database
<1>13. CASE WorkerStep
  BY <1>1, <1>13 DEF WorkerStep, EmbedBatch, database
<1>14. CASE Interrupt
  <2>1. todo' = <<>> /\ tx' = disk /\ disk' = disk /\ lance' = lance
    BY <1>14 DEF Interrupt
  <2> QED BY <2>1 DEF LanceInv
<1> QED
  BY <1>4, <1>5, <1>6, <1>7, <1>8, <1>9, <1>10, <1>11, <1>12, <1>13, <1>14 DEF Next, MainStep

LEMMA LanceInvInit == Init => LanceInv
BY DEF Init, LanceInv

(* Where every configuration writes to LanceDB, a vector that SQLite has   *)
(* committed is in LanceDB at every instant, also across interruptions.    *)
THEOREM CommittedAlwaysInLance ==
  ASSUME AlwaysLance
  PROVE  Spec => []CommittedIsInLance
<1>1. Init => RunInv /\ LanceInv
  BY RunInvInit, LanceInvInit
<1>2. RunInv /\ LanceInv /\ [Next]_vars => RunInv' /\ LanceInv'
  BY RunInvNext, LanceInvNext
<1>3. LanceInv => CommittedIsInLance
  BY DEF LanceInv, CommittedIsInLance
<1> QED
  BY <1>1, <1>2, <1>3, PTL DEF Spec

-----------------------------------------------------------------------------
(* What a run that returns has done                                        *)

(* The sites that never change between SQLite alone and the rest.          *)
SteadyStores == AlwaysLance \/ \A s \in Settings : s.stores = <<"sqlite">>

InMode(store) == \E n \in DOMAIN mode : mode[n] = store

Seen(store) == IF store = "sqlite" THEN tx ELSE lance

(* The chunks that a store has or will still get or see given up; the      *)
(* others are lost to it, and those are chunks of failed batches.          *)
Covered(store) == Seen(store) \cup Ahead \cup (IF ToWrite(store) THEN out ELSE {})
Lost(store) == Chunk \ Covered(store)

AccountInv ==
  /\ Active => \A store \in Stores : InMode(store) => Cardinality(Lost(store)) <= stats.failed
  /\ RunAccountsForAll

LEMMA StoresOfSetting ==
  ASSUME NEW s \in Settings
  PROVE  \A n \in DOMAIN s.stores : s.stores[n] \in Stores
<1>1. s.stores \in WriteModes
  BY SettingAssumption
<1>2. CASE s.stores = <<"sqlite">>
  BY <1>2 DEF Stores
<1>3. CASE s.stores = <<"lance">>
  BY <1>3 DEF Stores
<1>4. CASE s.stores = <<"sqlite", "lance">>
  BY <1>4 DEF Stores
<1> QED
  BY <1>1, <1>2, <1>3, <1>4 DEF WriteModes

LEMMA StoresOfMode ==
  ASSUME setting \in Settings
  PROVE  /\ \A n \in DOMAIN mode : mode[n] \in Stores /\ InMode(mode[n])
         /\ todo = mode => \A store : InMode(store) => ToWrite(store)
BY StoresOfSetting DEF mode, InMode, ToWrite

(* A step of the run that takes nothing from a store's cover.              *)
LEMMA CoverGrows ==
  ASSUME RunInv, RunInv', AccountInv, Active, pc' # "idle", setting' = setting, stats'.failed = stats.failed,
         \A store \in Stores : InMode(store) => Covered(store) \subseteq Covered(store)'
  PROVE  AccountInv'
<1>1. RunAccountsForAll'
  BY DEF RunAccountsForAll, RunCompleted
<1>2. ASSUME NEW store \in Stores, InMode(store)'
      PROVE  Cardinality(Lost(store)') <= stats'.failed
  <2>1. InMode(store)
    BY <1>2 DEF InMode, mode
  <2>2. Lost(store)' \in SUBSET Lost(store) /\ Lost(store) \in SUBSET Chunk /\ Lost(store)' \in SUBSET Chunk
    BY <2>1 DEF Lost
  <2>3. Cardinality(Lost(store)') <= Cardinality(Lost(store)) /\ Cardinality(Lost(store)) \in Nat /\ Cardinality(Lost(store)') \in Nat
    BY <2>2, SmallerSet, ChunksFinite
  <2>4. Cardinality(Lost(store)) <= stats.failed
    BY <2>1 DEF AccountInv
  <2>5. stats.failed \in Nat
    BY DEF RunInv, ShapeInv
  <2> QED BY <2>3, <2>4, <2>5
<1>3. Active' => \A store \in Stores : InMode(store)' => Cardinality(Lost(store)') <= stats'.failed
  BY <1>2
<1> QED
  BY <1>1, <1>3 DEF AccountInv

LEMMA SameAccounts ==
  ASSUME RunAccountsForAll, UNCHANGED <<pc, runs, stats, setting, disk, lance>>
  PROVE  RunAccountsForAll'
BY DEF RunAccountsForAll, RunCompleted, Contents, mode

LEMMA StandingAccounts ==
  ASSUME AccountInv, UNCHANGED <<pc, runs, stats, setting, disk, lance, tx, out, todo>>, Ahead' = Ahead
  PROVE  AccountInv'
<1>1. RunAccountsForAll'
  BY SameAccounts DEF AccountInv
<1>2. \A store : Lost(store)' = Lost(store) /\ InMode(store)' = InMode(store)
  BY DEF Lost, Covered, Seen, ToWrite, InMode, mode
<1>3. Active' = Active
  BY DEF Active
<1>4. Active' => \A store \in Stores : InMode(store)' => Cardinality(Lost(store)') <= stats'.failed
  BY <1>2, <1>3 DEF AccountInv
<1> QED
  BY <1>1, <1>4 DEF AccountInv

(* A run that starts covers everything: what SQLite has, LanceDB has.      *)
LEMMA StartRunAccounts ==
  ASSUME SteadyStores, RunInv, AlwaysLance => LanceInv, RunInv', AccountInv, StartRun
  PROVE  AccountInv'
<1>1. /\ pc \in {"idle", "dead"} /\ setting' \in Settings
      /\ stats' = [attempted |-> Cardinality(Missing), embedded |-> 0, failed |-> 0]
      /\ pc' = IF Missing = {} THEN "idle" ELSE "fetch"
      /\ after' = 0 /\ disk' = disk /\ tx' = tx /\ lance' = lance
  BY DEF StartRun, NoStats, database
<1>2. tx = disk
  BY <1>1 DEF RunInv, PlaceInv, Active
<1>3. ASSUME NEW store \in Stores, InMode(store)'
      PROVE  tx \subseteq (IF store = "sqlite" THEN tx ELSE lance)
  <2>1. CASE AlwaysLance
    BY <1>2, <2>1 DEF LanceInv
  <2>2. CASE \A s \in Settings : s.stores = <<"sqlite">>
    <3>1. mode' = <<"sqlite">>
      BY <1>1, <2>2 DEF mode
    <3>2. store = "sqlite"
      BY <1>3, <3>1 DEF InMode
    <3> QED BY <3>2
  <2> QED BY <2>1, <2>2 DEF SteadyStores
<1>4. ASSUME NEW store \in Stores, InMode(store)'
      PROVE  Lost(store)' = {}
  <2>1. Rest' = Missing
    <3>1. \A c \in Missing : c > 0
      BY DEF Missing, Chunk
    <3> QED BY <1>1, <3>1 DEF Rest, Missing
  <2>2. tx \subseteq Seen(store)'
    BY <1>1, <1>3, <1>4 DEF Seen
  <2>3. Chunk \subseteq tx \cup Missing
    BY DEF Missing
  <2> QED BY <2>1, <2>2, <2>3 DEF Lost, Covered, Ahead
<1>5. \A store \in Stores : InMode(store)' => Cardinality(Lost(store)') <= stats'.failed
  BY <1>1, <1>4, EmptyCount
<1>6. RunAccountsForAll'
  <2> SUFFICES ASSUME Missing = {}
               PROVE  /\ stats'.embedded + stats'.failed = stats'.attempted
                      /\ \A n \in DOMAIN mode' : Cardinality(Chunk \ Contents(mode[n])') <= stats'.failed
    BY <1>1 DEF RunAccountsForAll, RunCompleted
  <2>1. Cardinality(Missing) = 0
    BY EmptyCount
  <2>2. ASSUME NEW n \in DOMAIN mode' PROVE Cardinality(Chunk \ Contents(mode[n])') <= stats'.failed
    <3>1. mode[n]' \in Stores /\ InMode(mode[n])'
      <4>1. \A m \in DOMAIN mode' : mode'[m] \in Stores /\ \E k \in DOMAIN mode' : mode'[k] = mode'[m]
        BY <1>1, StoresOfSetting DEF mode
      <4> QED BY <4>1 DEF InMode
    <3>2. tx \subseteq Contents(mode[n])'
      BY <1>1, <1>2, <1>3, <3>1 DEF Contents
    <3>3. Chunk \ Contents(mode[n])' = {}
      BY <3>2 DEF Missing
    <3> QED BY <1>1, <3>3, EmptyCount
  <2> QED BY <1>1, <2>1, <2>2
<1> QED
  BY <1>5, <1>6 DEF AccountInv

(* A failed batch: its chunks are lost, and counted as failed.             *)
LEMMA HandleFailedAccounts ==
  ASSUME RunInv, RunInv', AccountInv, NEW b \in DOMAIN futures, HandleFailed(b)
  PROVE  AccountInv'
<1> DEFINE chunks == futures[b].chunks
<1>1. /\ pc = "collect" /\ pc' = pc /\ setting' = setting /\ tx' = tx /\ lance' = lance /\ todo' = todo /\ out' = out
      /\ stats' = [stats EXCEPT !.failed = stats.failed + Cardinality(chunks)]
  BY DEF HandleFailed, database
<1>2. /\ stats \in [attempted : Nat, embedded : Nat, failed : Nat]
      /\ chunks \in SUBSET Chunk
  BY DEF RunInv, ShapeInv
<1>3. Ahead \subseteq Ahead' \cup chunks
  BY HandleFailedKeepsInv
<1> HIDE DEF chunks
<1>4. stats'.failed = stats.failed + Cardinality(chunks)
  BY <1>1, <1>2
<1>5. ASSUME NEW store \in Stores, InMode(store)'
      PROVE  Cardinality(Lost(store)') <= stats'.failed
  <2>1. InMode(store)
    BY <1>1, <1>5 DEF InMode, mode
  <2>2. Covered(store) \subseteq Covered(store)' \cup chunks
    BY <1>1, <1>3 DEF Covered, Seen, ToWrite
  <2>3. /\ Lost(store)' \in SUBSET (Lost(store) \cup chunks) /\ Lost(store) \in SUBSET Chunk /\ Lost(store)' \in SUBSET Chunk
        /\ Lost(store) \cup chunks \in SUBSET Chunk
    BY <1>2, <2>2 DEF Lost
  <2>4. Cardinality(Lost(store)') <= Cardinality(Lost(store) \cup chunks)
    BY <2>3, SmallerSet
  <2>5. Cardinality(Lost(store) \cup chunks) <= Cardinality(Lost(store)) + Cardinality(chunks)
    BY <1>2, <2>3, Together
  <2>6. /\ Cardinality(Lost(store)) \in Nat /\ Cardinality(Lost(store)') \in Nat
        /\ Cardinality(chunks) \in Nat /\ Cardinality(Lost(store) \cup chunks) \in Nat
    BY <1>2, <2>3, ChunksFinite
  <2>7. Cardinality(Lost(store)) <= stats.failed
    BY <1>1, <2>1 DEF AccountInv, Active
  <2> QED BY <1>2, <1>4, <2>4, <2>5, <2>6, <2>7
<1>6. RunAccountsForAll'
  BY <1>1 DEF RunAccountsForAll, RunCompleted
<1> QED
  BY <1>5, <1>6 DEF AccountInv

(* A flush on its way into a store is covered before and after.            *)
LEMMA WriteStoreCovers ==
  ASSUME RunInv, WriteStore, NEW store \in Stores
  PROVE  Covered(store) \subseteq Covered(store)'
<1>1. /\ todo # <<>> /\ todo' = Tail(todo) /\ out' = out
      /\ tx' = (IF Head(todo) = "sqlite" THEN tx \cup out ELSE tx)
      /\ lance' = (IF Head(todo) = "lance" THEN lance \cup out ELSE lance)
  BY DEF WriteStore
<1>2. Ahead' = Ahead
  BY WriteStoreKeepsInv
<1>3. todo \in Flushes /\ store \in {"sqlite", "lance"}
  BY DEF RunInv, ShapeInv, Stores
<1>4. ASSUME ToWrite(store), Head(todo) # store PROVE ToWrite(store)'
  <2>1. CASE todo = <<"sqlite", "lance">> /\ Head(todo) = "sqlite" /\ Tail(todo) = <<"lance">>
    <3>1. store = "lance"
      BY <1>3, <1>4, <2>1
    <3>2. 1 \in DOMAIN todo' /\ todo'[1] = "lance"
      BY <1>1, <2>1
    <3> QED BY <3>1, <3>2 DEF ToWrite
  <2>2. CASE Len(todo) = 1 /\ Head(todo) = todo[1]
    <3>1. DOMAIN todo = {1}
      BY <2>2, <1>3 DEF Flushes, WriteModes
    <3> QED BY <3>1, <2>2, <1>4 DEF ToWrite
  <2>3. todo = <<"sqlite">> \/ todo = <<"lance">> => Len(todo) = 1 /\ Head(todo) = todo[1]
    OBVIOUS
  <2> QED BY <1>1, <1>3, <2>1, <2>2, <2>3, FlushOrder
<1>5. CASE Head(todo) = store
  BY <1>1, <1>2, <1>3, <1>5 DEF Covered, Seen
<1>6. CASE Head(todo) # store
  BY <1>1, <1>2, <1>3, <1>4, <1>6 DEF Covered, Seen
<1> QED
  BY <1>5, <1>6

(* The run returns: nothing is ahead and no flush is under way, so each    *)
(* store has all chunks but those lost to it.                              *)
LEMMA CloseAccounts ==
  ASSUME RunInv, AccountInv, Close
  PROVE  AccountInv'
<1>1. /\ pc = "close" /\ pc' = "idle" /\ disk' = (IF flushes > 0 THEN tx ELSE disk)
      /\ lance' = lance /\ setting' = setting /\ stats' = stats /\ runs' = runs
  BY DEF Close
<1>2. disk' = tx
  BY <1>1 DEF RunInv, ShapeInv, PlaceInv
<1>3. Pending = {} /\ Rest = {} /\ buffer = <<>> /\ todo = <<>>
  BY <1>1 DEF RunInv, PlaceInv
<1>4. Ahead = {}
  BY <1>3 DEF Ahead, Buffered, Elements
<1>5. stats.embedded + stats.failed = stats.attempted
  <2>1. Cardinality(Pending) = 0 /\ Cardinality(Rest) = 0
    BY <1>3, EmptyCount
  <2>2. stats \in [attempted : Nat, embedded : Nat, failed : Nat]
    BY DEF RunInv, ShapeInv
  <2> QED BY <1>1, <2>1, <2>2 DEF RunInv, CountInv, Active
<1>6. ASSUME NEW n \in DOMAIN mode
      PROVE  Cardinality(Chunk \ Contents(mode[n])') <= stats.failed
  <2>1. mode[n] \in Stores /\ InMode(mode[n])
    BY StoresOfMode DEF RunInv, ShapeInv
  <2>2. Contents(mode[n])' = Seen(mode[n])
    BY <1>1, <1>2 DEF Contents, Seen, mode
  <2>3. Lost(mode[n]) = Chunk \ Seen(mode[n])
    BY <1>3, <1>4 DEF Lost, Covered, ToWrite
  <2>4. Cardinality(Lost(mode[n])) <= stats.failed
    BY <1>1, <2>1 DEF AccountInv, Active
  <2> QED BY <2>2, <2>3, <2>4
<1>7. mode' = mode
  BY <1>1 DEF mode
<1>8. RunAccountsForAll'
  BY <1>1, <1>5, <1>6, <1>7 DEF RunAccountsForAll
<1> QED
  BY <1>1, <1>8 DEF AccountInv, Active

LEMMA AccountInvNext ==
  ASSUME SteadyStores
  PROVE  RunInv /\ (AlwaysLance => LanceInv) /\ AccountInv /\ [Next]_vars => AccountInv'
<1> SUFFICES ASSUME RunInv, AlwaysLance => LanceInv, AccountInv, [Next]_vars PROVE AccountInv'
  OBVIOUS
<1>1. RunInv'
  BY RunInvNext
<1>2. pc \notin {"write", "writeForced"} => todo = <<>>
  BY DEF RunInv, PlaceInv
<1>3. CASE StartRun
  BY <1>1, <1>3, StartRunAccounts
<1>4. CASE FetchPage
  <2>1. /\ Active /\ pc' # "idle" /\ setting' = setting /\ stats' = stats
        /\ tx' = tx /\ lance' = lance /\ out' = out /\ todo' = todo
    BY <1>4 DEF FetchPage, database, Active
  <2>2. Ahead \subseteq Ahead'
    BY <1>4, FetchPageKeepsInv
  <2>3. \A store : Covered(store) \subseteq Covered(store)'
    BY <2>1, <2>2 DEF Covered, Seen, ToWrite
  <2> QED BY <1>1, <2>1, <2>3, CoverGrows
<1>5. CASE DrainFlush
  <2>1. /\ Active /\ pc' # "idle" /\ setting' = setting /\ stats' = stats
        /\ tx' = tx /\ lance' = lance /\ todo' = mode /\ todo = <<>>
    BY <1>2, <1>5 DEF DrainFlush, database, Active
  <2>2. Ahead \subseteq Ahead' \cup out'
    BY <1>5, DrainFlushKeepsInv
  <2>3. ASSUME NEW store \in Stores, InMode(store) PROVE Covered(store) \subseteq Covered(store)'
    <3>1. ~ToWrite(store) /\ ToWrite(store)'
      BY <2>1, <2>3 DEF ToWrite, InMode
    <3> QED BY <2>1, <2>2, <3>1 DEF Covered, Seen
  <2> QED BY <1>1, <2>1, <2>3, CoverGrows
<1>6. CASE DrainDone \/ PageDone
  <2>1. /\ Active /\ pc' # "idle" /\ setting' = setting /\ stats' = stats
        /\ tx' = tx /\ lance' = lance /\ out' = out /\ todo' = todo
    BY <1>6 DEF DrainDone, PageDone, database, locals, Active
  <2>2. Ahead' = Ahead
    BY <1>6, MoveOnKeepsInv
  <2>3. \A store : Covered(store) \subseteq Covered(store)'
    BY <2>1, <2>2 DEF Covered, Seen, ToWrite
  <2> QED BY <1>1, <2>1, <2>3, CoverGrows
<1>7. CASE UNCHANGED vars
  <2>1. /\ pc' = pc /\ runs' = runs /\ stats' = stats /\ setting' = setting /\ disk' = disk /\ lance' = lance
        /\ tx' = tx /\ out' = out /\ todo' = todo
    BY <1>7 DEF vars, database, locals
  <2>2. Ahead' = Ahead
    BY <1>7, MoveOnKeepsInv
  <2> QED BY <1>1, <2>1, <2>2, StandingAccounts
<1>8. CASE WriteStore
  <2>1. Active /\ pc' # "idle" /\ setting' = setting /\ stats' = stats
    BY <1>8 DEF WriteStore, Active
  <2>2. \A store \in Stores : Covered(store) \subseteq Covered(store)'
    BY <1>8, WriteStoreCovers
  <2> QED BY <1>1, <2>1, <2>2, CoverGrows
<1>9. CASE EndFlush
  <2>1. /\ Active /\ pc' # "idle" /\ setting' = setting /\ stats' = stats
        /\ tx' = tx /\ lance' = lance /\ out' = out /\ todo' = todo
    BY <1>9 DEF EndFlush, Active
  <2>2. Ahead' = Ahead
    BY <1>9, EndFlushKeepsInv
  <2>3. \A store : Covered(store) \subseteq Covered(store)'
    BY <2>1, <2>2 DEF Covered, Seen, ToWrite
  <2> QED BY <1>1, <2>1, <2>3, CoverGrows
<1>10. CASE Close
  BY <1>10, CloseAccounts
<1>11. ASSUME NEW b \in DOMAIN futures, HandleFailed(b) PROVE AccountInv'
  BY <1>1, <1>11, HandleFailedAccounts
<1>12. ASSUME NEW b \in DOMAIN futures, HandleDirect(b) \/ HandleBuffered(b) PROVE AccountInv'
  <2>1. /\ pc = "collect" /\ pc' # "idle" /\ setting' = setting
        /\ stats' = [stats EXCEPT !.embedded = stats.embedded + Cardinality(futures[b].chunks)]
        /\ tx' = tx /\ lance' = lance /\ todo' \in {<<>>, mode}
    BY <1>2, <1>12 DEF HandleDirect, HandleBuffered, database
  <2>2. stats'.failed = stats.failed
    BY <2>1 DEF RunInv, ShapeInv
  <2>3. Active /\ todo = <<>>
    BY <1>2, <2>1 DEF Active
  <2>4. Ahead \subseteq Ahead' \cup (IF todo' = mode THEN out' ELSE {})
    BY <1>12, HandleEmbeddedKeepsInv
  <2>5. ASSUME NEW store \in Stores, InMode(store) PROVE Covered(store) \subseteq Covered(store)'
    <3>1. ~ToWrite(store) /\ (todo' = mode => ToWrite(store)')
      BY <2>3, <2>5 DEF ToWrite, InMode
    <3> QED BY <2>1, <2>4, <3>1 DEF Covered, Seen
  <2> QED BY <1>1, <2>1, <2>2, <2>3, <2>5, CoverGrows
<1>13. CASE WorkerStep
  <2>1. /\ pc' = pc /\ runs' = runs /\ stats' = stats /\ setting' = setting /\ disk' = disk /\ lance' = lance
        /\ tx' = tx /\ out' = out /\ todo' = todo
    BY <1>13 DEF WorkerStep, EmbedBatch, database
  <2>2. Ahead' = Ahead
    BY <1>13, WorkerKeepsInv
  <2> QED BY <1>1, <2>1, <2>2, StandingAccounts
<1>14. CASE Interrupt
  <2>1. pc' = "dead"
    BY <1>14 DEF Interrupt
  <2> QED BY <2>1 DEF AccountInv, Active, RunAccountsForAll, RunCompleted
<1> QED
  BY <1>3, <1>4, <1>5, <1>6, <1>7, <1>8, <1>9, <1>10, <1>11, <1>12, <1>13, <1>14 DEF Next, MainStep

LEMMA AccountInvInit == Init => AccountInv
BY DEF Init, AccountInv, Active, RunAccountsForAll, RunCompleted

(* Where no configuration changes between SQLite alone and the rest, a run *)
(* that returns has embedded or counted as failed each chunk it set out to *)
(* embed, and each store it writes lacks no more chunks than it gave up.   *)
THEOREM RunsAccountForAll ==
  ASSUME SteadyStores
  PROVE  Spec => []RunAccountsForAll
<1> DEFINE AllInv == RunInv /\ (AlwaysLance => LanceInv) /\ AccountInv
<1>1. Init => AllInv
  BY RunInvInit, LanceInvInit, AccountInvInit
<1>2. AllInv /\ [Next]_vars => AllInv'
  <2> SUFFICES ASSUME AllInv, [Next]_vars PROVE AllInv'
    OBVIOUS
  <2>1. RunInv'
    BY RunInvNext
  <2>2. AlwaysLance => LanceInv'
    BY LanceInvNext
  <2>3. AccountInv'
    BY AccountInvNext
  <2>4. AlwaysLance' = AlwaysLance
    BY DEF AlwaysLance
  <2> QED BY <2>1, <2>2, <2>3, <2>4
<1>3. AllInv => RunAccountsForAll
  BY DEF AccountInv
<1> HIDE DEF AllInv
<1> QED
  BY <1>1, <1>2, <1>3, PTL DEF Spec
=============================================================================
