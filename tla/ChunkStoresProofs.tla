-------------------------- MODULE ChunkStoresProofs --------------------------
(***************************************************************************)
(* Proofs about the chunks: what is derived from them, for any set of      *)
(* documents, contents and configurations, any write stores and any        *)
(* sequence of commands and crashes; and how a document is cut into them,  *)
(* for any text, definitions and settings.                                 *)
(***************************************************************************)
EXTENDS ChunkStores, ChunkSpans, FiniteSetTheorems, SequenceTheorems, NaturalsInduction, TLAPS

(* The rows are a table whose rowids have a largest one.                   *)
Table(rows) == rows = [r \in DOMAIN rows |-> rows[r]] /\ \E m \in Nat : DOMAIN rows \subseteq 1..m

(* A vector in SQLite is the vector of a chunk that is there.              *)
EmbeddedInv == DOMAIN vectors \subseteq Ids(chunks)

(* A chunk is cut from the content its file was last ingested with.        *)
ContentInv ==
  /\ stage = "ingest" => chunks = Empty
  /\ \A r \in DOMAIN chunks : chunks[r].text[1] = documents[chunks[r].id[1]]

StoresInv ==
  /\ Table(chunks)
  /\ EmbeddedInv
  /\ ContentInv
  /\ KeywordHitsAreCurrent
  /\ VectorsFitTexts
  /\ StoresAgree

-----------------------------------------------------------------------------
(* The largest rowid is one of the rowids and none is above it.            *)
LEMMA LargestRow ==
  ASSUME NEW S, NEW m \in Nat, S \subseteq 1..m, S # {}
  PROVE  Max(S) \in S /\ \A x \in S : x <= Max(S)
<1> DEFINE Less == {ss \in Nat \X Nat : ss[1] < ss[2]}
           Bounds == {b \in Nat : \A x \in S : x <= b}
<1>1. IsWellFoundedOn(Less, Nat)
  BY NatLessThanWellFounded DEF OpToRel
<1>2. m \in Bounds /\ Bounds \subseteq Nat
  OBVIOUS
<1> HIDE DEF Bounds
<1>3. PICK b \in Bounds : \A c \in Bounds : <<c, b>> \notin Less
  <2> HIDE DEF Less
  <2> QED BY <1>1, <1>2, WFMin
<1>4. b \in Nat /\ \A x \in S : x <= b
  BY DEF Bounds
<1>5. b \in S
  <2> SUFFICES ASSUME b \notin S PROVE FALSE
    OBVIOUS
  <2>1. \A x \in S : x \in Nat /\ 1 <= x /\ x < b
    BY <1>4
  <2>2. b - 1 \in Nat /\ \A x \in S : x <= b - 1
    <3>1. PICK y \in S : TRUE
      OBVIOUS
    <3>2. y \in Nat /\ 1 <= y /\ y < b
      BY <2>1
    <3>3. b - 1 \in Nat
      BY <1>4, <3>2
    <3>4. ASSUME NEW x \in S PROVE x <= b - 1
      <4>1. x \in Nat /\ x < b
        BY <2>1
      <4> QED BY <4>1, <1>4
    <3> QED BY <3>3, <3>4
  <2>3. b - 1 \in Bounds
    BY <2>2 DEF Bounds
  <2>4. <<b - 1, b>> \in Less
    BY <1>4, <2>2
  <2> QED BY <1>3, <2>3, <2>4
<1>6. \A x \in S : b >= x
  BY <1>4
<1>7. Max(S) \in S /\ \A y \in S : Max(S) >= y
  BY <1>5, <1>6 DEF Max
<1> QED
  BY <1>7

(* A finite set as a sequence has each element of the set somewhere.       *)
LEMMA BatchHasAll ==
  ASSUME NEW S, IsFiniteSet(S)
  PROVE  /\ Len(SetToSeq(S)) \in Nat
         /\ \A i \in 1..Len(SetToSeq(S)) : SetToSeq(S)[i] \in S
         /\ \A x \in S : \E i \in 1..Len(SetToSeq(S)) : SetToSeq(S)[i] = x
<1> DEFINE n == Cardinality(S)
<1>1. n \in Nat /\ ExistsBijection(1..n, S) /\ IsFiniteSet(1..n) /\ Cardinality(1..n) = n
  <2>1. n \in Nat /\ ExistsBijection(1..n, S)
    BY FS_CardinalityType
  <2>2. 1 \in Int /\ n \in Int
    BY <2>1
  <2>3. IsFiniteSet(1..n) /\ Cardinality(1..n) = IF 1 > n THEN 0 ELSE n - 1 + 1
    BY <2>2, FS_Interval
  <2> HIDE DEF n
  <2> QED BY <2>1, <2>3
<1> DEFINE s == SetToSeq(S)
<1>2. s \in [1..n -> S] /\ IsInjective(s)
  <2>1. PICK f : f \in Bijection(1..n, S)
    BY <1>1 DEF ExistsBijection
  <2>2. f \in [1..n -> S] /\ IsInjective(f)
    BY <2>1 DEF Bijection, Injection
  <2> QED BY <2>2 DEF SetToSeq
<1> HIDE DEF s, n
<1>3. s \in Injection(1..n, S)
  BY <1>2 DEF Injection
<1>4. Cardinality(1..n) = Cardinality(S)
  BY <1>1 DEF n
<1>5. s \in Surjection(1..n, S)
  BY <1>1, <1>3, <1>4, FS_Injection
<1>6. s \in Seq(S)
  BY <1>1, <1>2
<1>7. Len(s) = n
  BY <1>1, <1>2, <1>6
<1>8. \A x \in S : \E i \in 1..n : s[i] = x
  BY <1>5 DEF Surjection
<1>9. Len(s) \in Nat /\ (\A i \in 1..Len(s) : s[i] \in S) /\ \A x \in S : \E i \in 1..Len(s) : s[i] = x
  BY <1>1, <1>2, <1>7, <1>8
<1> QED
  BY <1>9 DEF s

(* The chunks of a build are finitely many.                                *)
LEMMA BuiltIsFinite ==
  ASSUME NEW config \in Configs
  PROVE  IsFiniteSet(Built(config))
<1> DEFINE D == {e \in Docs : documents[e] # NoDoc}
           P == D \X Kinds[config]
           f == [p \in P |-> [id |-> <<p[1], p[2]>>, text |-> <<documents[p[1]], config>>]]
<1>1. IsFiniteSet(D)
  BY FiniteAssumption, FS_Subset, D \in SUBSET Docs
<1>2. IsFiniteSet(Kinds[config])
  BY FiniteAssumption
<1>3. IsFiniteSet(P)
  <2> HIDE DEF D
  <2> QED BY <1>1, <1>2, FS_Product
<1>4. f \in Surjection(P, Built(config))
  <2>1. f \in [P -> Built(config)]
    BY DEF Built
  <2>2. ASSUME NEW t \in Built(config) PROVE \E p \in P : f[p] = t
    <3>1. PICK d \in D, k \in Kinds[config] : t = [id |-> <<d, k>>, text |-> <<documents[d], config>>]
      BY DEF Built
    <3>2. <<d, k>> \in P /\ f[<<d, k>>] = t
      BY <3>1
    <3> QED BY <3>2
  <2> HIDE DEF f, P
  <2> QED BY <2>1, <2>2 DEF Surjection
<1> HIDE DEF f, P
<1> QED
  BY <1>3, <1>4, FS_Surjection

-----------------------------------------------------------------------------
(* The rowid after which an upsert writes its rows.                        *)
Top(rows) == IF rows = Empty THEN 0 ELSE Max(DOMAIN rows)

Replaced(rows, new) == {r \in DOMAIN rows : rows[r].id \in {n.id : n \in new}}

(* All rowids of a table are at most the one after which it is written.    *)
LEMMA TopIsAbove ==
  ASSUME NEW rows, Table(rows)
  PROVE  Top(rows) \in Nat /\ \A r \in DOMAIN rows : r \in Nat /\ r <= Top(rows)
<1>1. PICK m \in Nat : DOMAIN rows \subseteq 1..m
  BY DEF Table
<1>2. rows = [r \in DOMAIN rows |-> rows[r]]
  BY DEF Table
<1>3. CASE DOMAIN rows = {}
  <2>1. rows = Empty
    BY <1>2, <1>3 DEF Empty
  <2> QED BY <2>1, <1>3 DEF Top
<1>4. CASE DOMAIN rows # {}
  <2>1. rows # Empty
    BY <1>4 DEF Empty
  <2>2. Max(DOMAIN rows) \in DOMAIN rows /\ \A x \in DOMAIN rows : x <= Max(DOMAIN rows)
    BY <1>1, <1>4, LargestRow
  <2>3. Top(rows) = Max(DOMAIN rows)
    BY <2>1 DEF Top
  <2>4. \A x \in DOMAIN rows : x \in Nat
    BY <1>1
  <2> QED BY <2>2, <2>3, <2>4
<1> QED
  BY <1>3, <1>4

(* What an upsert leaves: each row is an old one that was not replaced, at *)
(* its old rowid and unchanged, or a new one at a rowid of its own; and no *)
(* chunk is lost, nor a row that was not replaced.                         *)
LEMMA UpsertedRows ==
  ASSUME NEW rows, NEW new, Table(rows), IsFiniteSet(new)
  PROVE  /\ Table(Upserted(rows, new))
         /\ \A r \in DOMAIN Upserted(rows, new) :
              \/ Upserted(rows, new)[r] \in new
              \/ r \in DOMAIN rows \ Replaced(rows, new) /\ Upserted(rows, new)[r] = rows[r]
         /\ Ids(rows) \subseteq Ids(Upserted(rows, new))
         /\ \A q \in DOMAIN rows \ Replaced(rows, new) :
              q \in DOMAIN Upserted(rows, new) /\ Upserted(rows, new)[q] = rows[q]
<1> DEFINE batch == SetToSeq(new)
           top == Top(rows)
           kept == Without(rows, Replaced(rows, new))
           added == [r \in (top + 1)..(top + Len(batch)) |-> batch[r - top]]
           after == Merge(kept, added)
<1>1. Upserted(rows, new) = after
  BY DEF Upserted, Top, Replaced
<1>2. top \in Nat /\ \A r \in DOMAIN rows : r \in Nat /\ r <= top
  BY TopIsAbove
<1>3. /\ Len(batch) \in Nat
      /\ \A i \in 1..Len(batch) : batch[i] \in new
      /\ \A x \in new : \E i \in 1..Len(batch) : batch[i] = x
  BY BatchHasAll
<1> HIDE DEF batch, top
<1>4. DOMAIN added = (top + 1)..(top + Len(batch)) /\ \A r \in DOMAIN added : added[r] \in new
  <2>1. \A r \in (top + 1)..(top + Len(batch)) : r - top \in 1..Len(batch)
    BY <1>2, <1>3
  <2> QED BY <2>1, <1>3
<1>5. \A x \in new : \E r \in DOMAIN added : added[r] = x
  <2> SUFFICES ASSUME NEW x \in new PROVE \E r \in DOMAIN added : added[r] = x
    OBVIOUS
  <2>1. PICK i \in 1..Len(batch) : batch[i] = x
    BY <1>3
  <2>2. top + i \in (top + 1)..(top + Len(batch)) /\ (top + i) - top = i
    BY <1>2, <1>3
  <2> QED BY <2>1, <2>2
<1>6. /\ DOMAIN kept = DOMAIN rows \ Replaced(rows, new)
      /\ \A r \in DOMAIN kept : kept[r] = rows[r]
  BY DEF Without
<1>7. \A r \in DOMAIN kept : r \notin DOMAIN added
  <2> SUFFICES ASSUME NEW r \in DOMAIN kept, r \in DOMAIN added PROVE FALSE
    OBVIOUS
  <2>1. r \in Nat /\ r <= top
    BY <1>2, <1>6
  <2>2. r \in (top + 1)..(top + Len(batch))
    BY <1>4
  <2> QED BY <2>1, <2>2, <1>2, <1>3
<1>8. DOMAIN added \subseteq 1..(top + Len(batch)) /\ DOMAIN kept \subseteq 1..(top + Len(batch))
  <2>1. DOMAIN added \subseteq 1..(top + Len(batch))
    BY <1>2, <1>3, <1>4
  <2>2. PICK m \in Nat : DOMAIN rows \subseteq 1..m
    BY DEF Table
  <2>3. ASSUME NEW r \in DOMAIN kept PROVE r \in 1..(top + Len(batch))
    <3>1. r \in DOMAIN rows
      BY <1>6
    <3>2. r \in 1..m /\ r <= top
      BY <3>1, <2>2, <1>2
    <3> QED BY <3>2, <1>2, <1>3, <2>2
  <2> QED BY <2>1, <2>3
<1>9. top + Len(batch) \in Nat
  BY <1>2, <1>3
<1> HIDE DEF kept, added
<1>10. /\ DOMAIN after = DOMAIN kept \cup DOMAIN added
       /\ \A r \in DOMAIN added : after[r] = added[r]
       /\ \A r \in DOMAIN kept : after[r] = kept[r]
  BY <1>7 DEF Merge
<1>11. after = [r \in DOMAIN after |-> after[r]]
  BY DEF Merge
<1> HIDE DEF after
<1>12. Table(after)
  <2>1. DOMAIN after \subseteq 1..(top + Len(batch))
    BY <1>8, <1>10
  <2> QED BY <2>1, <1>9, <1>11 DEF Table
<1>13. ASSUME NEW r \in DOMAIN after
       PROVE  after[r] \in new \/ (r \in DOMAIN rows \ Replaced(rows, new) /\ after[r] = rows[r])
  BY <1>4, <1>6, <1>10
<1>14. ASSUME NEW q \in DOMAIN rows
       PROVE  \E r \in DOMAIN after : after[r].id = rows[q].id
  <2>1. CASE q \in DOMAIN kept
    BY <2>1, <1>6, <1>10
  <2>2. CASE q \in Replaced(rows, new)
    <3>1. PICK n \in new : n.id = rows[q].id
      BY <2>2 DEF Replaced
    <3>2. PICK r \in DOMAIN added : added[r] = n
      BY <1>5
    <3> QED BY <3>1, <3>2, <1>10
  <2> QED BY <2>1, <2>2, <1>6
<1>15. Ids(rows) \subseteq Ids(after)
  BY <1>14 DEF Ids
<1>16. \A q \in DOMAIN rows \ Replaced(rows, new) : q \in DOMAIN after /\ after[q] = rows[q]
  BY <1>6, <1>10
<1> QED
  BY <1>1, <1>12, <1>13, <1>15, <1>16

-----------------------------------------------------------------------------
(* An empty table has no rows and no chunks.                               *)
LEMMA EmptyTable ==
  Table(Empty) /\ DOMAIN Empty = {} /\ Ids(Empty) = {}
<1>1. DOMAIN Empty = {}
  BY DEF Empty
<1>2. Empty = [r \in DOMAIN Empty |-> Empty[r]]
  BY DEF Empty
<1>3. 0 \in Nat /\ DOMAIN Empty \subseteq 1..0
  BY <1>1
<1> QED
  BY <1>1, <1>2, <1>3 DEF Table, Ids

(* What is chosen of a set depends on the elements that could be.          *)
LEMMA SameChoice ==
  ASSUME NEW S, NEW T, NEW c, \A x : x.id = c => (x \in S <=> x \in T)
  PROVE  (CHOOSE x \in S : x.id = c) = CHOOSE x \in T : x.id = c
<1>1. \A x : (x \in S /\ x.id = c) <=> (x \in T /\ x.id = c)
  OBVIOUS
<1>2. (CHOOSE x : x \in S /\ x.id = c) = CHOOSE x : x \in T /\ x.id = c
  BY <1>1, Zenon
<1> QED
  BY <1>2, Zenon

(* The text of a chunk is that of a row with its id.                       *)
LEMMA TextOfRow ==
  ASSUME NEW c \in Ids(chunks)
  PROVE  \E r \in DOMAIN chunks : chunks[r].id = c /\ TextOf(c) = chunks[r].text
<1> DEFINE R == {row \in {chunks[r] : r \in DOMAIN chunks} : row.id = c}
           row == CHOOSE row \in {chunks[r] : r \in DOMAIN chunks} : row.id = c
<1>1. \E o \in {chunks[r] : r \in DOMAIN chunks} : o.id = c
  BY DEF Ids
<1>2. row \in {chunks[r] : r \in DOMAIN chunks} /\ row.id = c
  BY <1>1
<1>3. TextOf(c) = row.text
  BY DEF TextOf
<1> HIDE DEF row
<1> QED
  BY <1>2, <1>3

(* The first state: nothing is stored.                                     *)
LEMMA StoresInvInit == Init => StoresInv
BY EmptyTable DEF Init, StoresInv, EmbeddedInv, ContentInv, KeywordHitsAreCurrent, VectorsFitTexts, StoresAgree

(* chunk gives the chunks that it makes the texts of its configuration,    *)
(* and leaves the others alone.                                            *)
LEMMA TextAfterChunk ==
  ASSUME StoresInv, NEW config \in Configs, Chunk(config), NEW c \in Ids(chunks), c \notin recut'
  PROVE  c \in Ids(chunks)' /\ TextOf(c)' = TextOf(c)
<1> DEFINE new == Built(config)
           after == Upserted(chunks, new)
           changed == {n.id : n \in {m \in new : m.id \in Ids(chunks) /\ TextOf(m.id) # m.text}}
<1>1. /\ \A r \in DOMAIN after :
           after[r] \in new \/ (r \in DOMAIN chunks \ Replaced(chunks, new) /\ after[r] = chunks[r])
      /\ Ids(chunks) \subseteq Ids(after)
      /\ \A q \in DOMAIN chunks \ Replaced(chunks, new) : q \in DOMAIN after /\ after[q] = chunks[q]
  BY BuiltIsFinite, UpsertedRows DEF StoresInv
<1>2. chunks' = after /\ recut' = recut \cup changed
  BY DEF Chunk
<1>3. c \in Ids(chunks)'
  BY <1>1, <1>2 DEF Ids
<1>4. ASSUME NEW n \in new, n.id = c PROVE n.text = TextOf(c)
  BY <1>2, <1>4
<1>5. \A m, n \in new : m.id = n.id => m = n
  BY DEF Built
<1> HIDE DEF new, after, changed
<1>6. CASE \E n \in new : n.id = c
  <2>1. PICK n \in new : n.id = c
    BY <1>6
  <2>2. PICK r \in DOMAIN after : after[r].id = c /\ TextOf(c)' = after[r].text
    <3> DEFINE row == CHOOSE row \in {after[r] : r \in DOMAIN after} : row.id = c
    <3>1. \E o \in {after[r] : r \in DOMAIN after} : o.id = c
      BY <1>2, <1>3 DEF Ids
    <3>2. row \in {after[r] : r \in DOMAIN after} /\ row.id = c
      BY <3>1
    <3>3. TextOf(c)' = row.text
      BY <1>2 DEF TextOf
    <3> HIDE DEF row
    <3> QED
      BY <3>2, <3>3
  <2>3. after[r] \in new
    BY <1>1, <2>1, <2>2 DEF Replaced
  <2> QED
    BY <1>3, <1>4, <2>2, <2>3
<1>7. CASE ~\E n \in new : n.id = c
  <2>1. \A x : x.id = c => (x \in {after[r] : r \in DOMAIN after} <=> x \in {chunks[r] : r \in DOMAIN chunks})
    <3> SUFFICES ASSUME NEW x, x.id = c
                 PROVE  x \in {after[r] : r \in DOMAIN after} <=> x \in {chunks[r] : r \in DOMAIN chunks}
      OBVIOUS
    <3>1. ASSUME NEW r \in DOMAIN after, x = after[r] PROVE x \in {chunks[q] : q \in DOMAIN chunks}
      BY <1>1, <1>7, <3>1
    <3>2. ASSUME NEW q \in DOMAIN chunks, x = chunks[q] PROVE x \in {after[r] : r \in DOMAIN after}
      <4>1. q \notin Replaced(chunks, new)
        BY <1>7, <3>2 DEF Replaced
      <4> QED
        BY <1>1, <3>2, <4>1
    <3> QED
      BY <3>1, <3>2
  <2>2. (CHOOSE row \in {after[r] : r \in DOMAIN after} : row.id = c)
          = CHOOSE row \in {chunks[r] : r \in DOMAIN chunks} : row.id = c
    BY <2>1, SameChoice
  <2>3. TextOf(c)' = TextOf(c)
    BY <1>2, <2>2 DEF TextOf
  <2> QED
    BY <1>3, <2>3
<1> QED
  BY <1>6, <1>7

(* chunk: whatever rows it replaces, the full text is written at the rows  *)
(* that the chunks have afterwards, and the vectors keep their chunks.     *)
LEMMA ChunkKeepsInv ==
  ASSUME StoresInv, NEW config \in Configs, Chunk(config)
  PROVE  StoresInv'
<1> DEFINE new == Built(config)
           after == Upserted(chunks, new)
           written == [r \in {q \in DOMAIN after : after[q] \in new} |-> after[r]]
<1>1. /\ Table(after)
      /\ \A r \in DOMAIN after : after[r] \in new \/ (r \in DOMAIN chunks /\ after[r] = chunks[r])
      /\ Ids(chunks) \subseteq Ids(after)
      /\ \A n \in new : n.text[1] = documents[n.id[1]]
  <2>1. \A n \in new : n.text[1] = documents[n.id[1]]
    BY DEF Built
  <2> QED
    BY <2>1, BuiltIsFinite, UpsertedRows DEF StoresInv
<1>2. /\ chunks' = after /\ fts' = Merge(fts, written)
      /\ UNCHANGED <<documents, vectors, lance, stage, lost>> /\ recut \subseteq recut' /\ stage = "idle"
  BY DEF Chunk, Begin, FtsUpserted
<1> HIDE DEF new, after
<1>2a.
      /\ DOMAIN written = {q \in DOMAIN after : after[q] \in new}
      /\ \A r \in DOMAIN written : written[r] = after[r]
  OBVIOUS
<1> HIDE DEF written
<1>2b.
      /\ DOMAIN fts' = DOMAIN fts \cup DOMAIN written
      /\ \A x \in DOMAIN written : fts'[x] = written[x]
      /\ \A x \in DOMAIN fts \ DOMAIN written : fts'[x] = fts[x]
  <2>1. fts' = Merge(fts, written)
    BY <1>2
  <2> QED BY <2>1 DEF Merge
<1>3. Table(chunks)'
  BY <1>1, <1>2 DEF Table
<1>4. EmbeddedInv'
  BY <1>1, <1>2 DEF StoresInv, EmbeddedInv, Ids
<1>5. KeywordHitsAreCurrent'
  <2> SUFFICES ASSUME NEW r \in DOMAIN after PROVE r \in DOMAIN fts' /\ fts'[r] = after[r]
    BY <1>2 DEF KeywordHitsAreCurrent
  <2>1. CASE after[r] \in new
    <3>1. r \in DOMAIN written
      BY <2>1, <1>2a
    <3> QED BY <3>1, <1>2a, <1>2b
  <2>2. CASE after[r] \notin new
    <3>1. r \in DOMAIN chunks /\ after[r] = chunks[r]
      BY <2>2, <1>1
    <3>2. r \in DOMAIN fts /\ fts[r] = chunks[r]
      BY <3>1 DEF StoresInv, KeywordHitsAreCurrent
    <3>3. r \notin DOMAIN written
      BY <2>2, <1>2a
    <3> QED BY <3>1, <3>2, <3>3, <1>2b
  <2> QED BY <2>1, <2>2
<1>6. VectorsFitTexts'
  <2> SUFFICES ASSUME NEW c \in DOMAIN vectors
               PROVE  /\ c \in Ids(chunks)' /\ vectors[c][1] = documents[c[1]]
                      /\ c \notin recut' => vectors[c] = TextOf(c)'
    BY <1>2 DEF VectorsFitTexts
  <2>1. c \in Ids(chunks) /\ vectors[c][1] = documents[c[1]] /\ (c \notin recut => vectors[c] = TextOf(c))
    BY DEF StoresInv, VectorsFitTexts
  <2>2. c \in Ids(chunks)'
    BY <2>1, <1>4, <1>2 DEF EmbeddedInv
  <2>3. c \notin recut' => TextOf(c)' = TextOf(c)
    BY <2>1, TextAfterChunk
  <2> QED
    BY <1>2, <2>1, <2>2, <2>3
<1>7. StoresAgree'
  BY <1>2 DEF StoresInv, StoresAgree
<1>8. ContentInv'
  BY <1>1, <1>2 DEF StoresInv, ContentInv
<1> QED
  BY <1>3, <1>4, <1>5, <1>6, <1>7, <1>8 DEF StoresInv

(* embed: it only adds vectors of chunks that have none, computed from the *)
(* texts of now, and SQLite gets none that LanceDB does not get.           *)
LEMMA EmbedKeepsInv ==
  ASSUME StoresInv, Embed
  PROVE  StoresInv'
<1>0. PICK done \in SUBSET Missing : \E kept \in SUBSET done :
        /\ lance' = IF Writes("lance") THEN Merge(lance, [c \in done |-> TextOf(c)]) ELSE lance
        /\ vectors' = IF Writes("sqlite") THEN Merge(vectors, [c \in kept |-> TextOf(c)]) ELSE vectors
  BY DEF Embed
<1>1. PICK kept \in SUBSET done :
        /\ lance' = IF Writes("lance") THEN Merge(lance, [c \in done |-> TextOf(c)]) ELSE lance
        /\ vectors' = IF Writes("sqlite") THEN Merge(vectors, [c \in kept |-> TextOf(c)]) ELSE vectors
  BY <1>0
<1>2. UNCHANGED <<documents, chunks, fts, stage, recut, lost>> /\ stage = "idle"
  BY DEF Embed, history, Begin
<1>3. done \subseteq Ids(chunks) /\ (\A c \in done : c \notin DOMAIN vectors) /\ kept \subseteq done
  BY DEF Missing
<1>4. \A c : TextOf(c)' = TextOf(c)
  BY <1>2 DEF TextOf
<1>5. Ids(chunks)' = Ids(chunks)
  BY <1>2 DEF Ids
<1> DEFINE ofDone == [c \in done |-> TextOf(c)]
           ofKept == [c \in kept |-> TextOf(c)]
<1>6. /\ DOMAIN ofDone = done /\ \A c \in done : ofDone[c] = TextOf(c)
      /\ DOMAIN ofKept = kept /\ \A c \in kept : ofKept[c] = TextOf(c)
  OBVIOUS
<1>7. /\ lance' = IF Writes("lance") THEN Merge(lance, ofDone) ELSE lance
      /\ vectors' = IF Writes("sqlite") THEN Merge(vectors, ofKept) ELSE vectors
  BY <1>1
<1> HIDE DEF ofDone, ofKept
<1>7a. Writes("sqlite") =>
         /\ DOMAIN vectors' = DOMAIN vectors \cup kept
         /\ \A c \in kept : vectors'[c] = TextOf(c)
         /\ \A c \in DOMAIN vectors \ kept : vectors'[c] = vectors[c]
  <2> SUFFICES ASSUME Writes("sqlite")
               PROVE  /\ DOMAIN vectors' = DOMAIN vectors \cup kept
                      /\ \A c \in kept : vectors'[c] = TextOf(c)
                      /\ \A c \in DOMAIN vectors \ kept : vectors'[c] = vectors[c]
    OBVIOUS
  <2>1. vectors' = Merge(vectors, ofKept)
    BY <1>7
  <2>2. /\ DOMAIN vectors' = DOMAIN vectors \cup DOMAIN ofKept
        /\ \A c \in DOMAIN ofKept : vectors'[c] = ofKept[c]
        /\ \A c \in DOMAIN vectors \ DOMAIN ofKept : vectors'[c] = vectors[c]
    BY <2>1 DEF Merge
  <2> QED BY <2>2, <1>6
<1>7b. Writes("lance") =>
         /\ DOMAIN lance' = DOMAIN lance \cup done
         /\ \A c \in done : lance'[c] = TextOf(c)
         /\ \A c \in DOMAIN lance \ done : lance'[c] = lance[c]
  <2> SUFFICES ASSUME Writes("lance")
               PROVE  /\ DOMAIN lance' = DOMAIN lance \cup done
                      /\ \A c \in done : lance'[c] = TextOf(c)
                      /\ \A c \in DOMAIN lance \ done : lance'[c] = lance[c]
    OBVIOUS
  <2>1. lance' = Merge(lance, ofDone)
    BY <1>7
  <2>2. /\ DOMAIN lance' = DOMAIN lance \cup DOMAIN ofDone
        /\ \A c \in DOMAIN ofDone : lance'[c] = ofDone[c]
        /\ \A c \in DOMAIN lance \ DOMAIN ofDone : lance'[c] = lance[c]
    BY <2>1 DEF Merge
  <2> QED BY <2>2, <1>6
<1>8. ASSUME NEW c \in DOMAIN vectors'
      PROVE  \/ c \in DOMAIN vectors /\ c \notin done /\ vectors'[c] = vectors[c]
             \/ c \in kept /\ vectors'[c] = TextOf(c)
  <2>1. CASE Writes("sqlite")
    BY <2>1, <1>3, <1>7a
  <2>2. CASE ~Writes("sqlite")
    BY <2>2, <1>7, <1>3
  <2> QED BY <2>1, <2>2
<1>9. Table(chunks)' /\ KeywordHitsAreCurrent'
  BY <1>2 DEF StoresInv, Table, KeywordHitsAreCurrent
<1>10. EmbeddedInv'
  BY <1>3, <1>5, <1>8 DEF StoresInv, EmbeddedInv
<1>11. VectorsFitTexts'
  <2> SUFFICES ASSUME NEW c \in DOMAIN vectors'
               PROVE  /\ c \in Ids(chunks)' /\ vectors'[c][1] = documents[c[1]]
                      /\ c \notin recut => vectors'[c] = TextOf(c)
    BY <1>2, <1>4 DEF VectorsFitTexts
  <2>1. c \in Ids(chunks) /\ c \in Ids(chunks)'
    BY <1>5, <1>10 DEF EmbeddedInv
  <2>2. \A e \in DOMAIN vectors : vectors[e][1] = documents[e[1]] /\ (e \notin recut => vectors[e] = TextOf(e))
    BY DEF StoresInv, VectorsFitTexts
  <2>3. TextOf(c)[1] = documents[c[1]]
    BY <2>1, TextOfRow DEF StoresInv, ContentInv
  <2> QED BY <1>8, <2>1, <2>2, <2>3
<1>12. StoresAgree'
  <2> SUFFICES ASSUME Mode = <<"sqlite", "lance">>, NEW c \in DOMAIN vectors'
               PROVE  /\ c \in DOMAIN lance' => lance'[c] = vectors'[c]
                      /\ c \notin lost => c \in DOMAIN lance'
    BY <1>2 DEF StoresAgree
  <2>1. Writes("lance")
    BY DEF Writes
  <2>3. CASE c \in kept /\ vectors'[c] = TextOf(c)
    BY <2>1, <2>3, <1>3, <1>7b
  <2>4. CASE c \in DOMAIN vectors /\ c \notin done /\ vectors'[c] = vectors[c]
    <3>1. (c \in DOMAIN lance => lance[c] = vectors[c]) /\ (c \notin lost => c \in DOMAIN lance)
      BY <2>4, <1>2 DEF StoresInv, StoresAgree
    <3> QED BY <3>1, <2>1, <2>4, <1>7b
  <2> QED BY <1>8, <2>3, <2>4
<1>13. ContentInv'
  BY <1>2 DEF StoresInv, ContentInv
<1> QED
  BY <1>9, <1>10, <1>11, <1>12, <1>13 DEF StoresInv

(* purge-chunks, second part: every vector that SQLite has is of a chunk   *)
(* that is deleted with it.                                                *)
LEMMA EndPurgeKeepsInv ==
  ASSUME StoresInv, EndPurge
  PROVE  StoresInv'
<1>1. DOMAIN vectors' = {}
  BY DEF StoresInv, EmbeddedInv, EndPurge, Without
<1>2. chunks' = Empty
  BY DEF EndPurge
<1>3. Table(chunks)'
  BY <1>2, EmptyTable DEF Table
<1>4. KeywordHitsAreCurrent' /\ ContentInv'
  BY <1>2, EmptyTable DEF KeywordHitsAreCurrent, ContentInv
<1> QED
  BY <1>1, <1>3, <1>4 DEF StoresInv, EmbeddedInv, VectorsFitTexts, StoresAgree

(* ingest, first commit: SQLite is empty.                                  *)
LEMMA BeginIngestKeepsInv ==
  ASSUME StoresInv, BeginIngest
  PROVE  StoresInv'
<1>1. chunks' = Empty /\ DOMAIN vectors' = {}
  BY EmptyTable DEF BeginIngest
<1>2. Table(chunks)'
  BY <1>1, EmptyTable DEF Table
<1>3. KeywordHitsAreCurrent' /\ ContentInv'
  BY <1>1, EmptyTable DEF KeywordHitsAreCurrent, ContentInv
<1> QED
  BY <1>1, <1>2, <1>3 DEF StoresInv, EmbeddedInv, VectorsFitTexts, StoresAgree

(* Steps that leave the chunks, their full text and their vectors alone    *)
(* can only disturb what the stores have in common, while files change     *)
(* only where no chunk is.                                                 *)
LEMMA SameRowsKeepInv ==
  ASSUME StoresInv, UNCHANGED <<chunks, fts, vectors, recut>>, StoresAgree',
         documents' = documents \/ chunks = Empty, stage' # "ingest"
  PROVE  StoresInv'
<1>1. Ids(chunks)' = Ids(chunks)
  BY DEF Ids
<1>2. \A c : TextOf(c)' = TextOf(c)
  BY DEF TextOf
<1>3. EmbeddedInv'
  BY <1>1 DEF StoresInv, EmbeddedInv
<1>4. ContentInv' /\ (documents' = documents \/ DOMAIN vectors = {})
  BY EmptyTable DEF StoresInv, ContentInv, EmbeddedInv
<1>5. VectorsFitTexts'
  BY <1>1, <1>2, <1>4 DEF StoresInv, VectorsFitTexts
<1>6. Table(chunks)' /\ KeywordHitsAreCurrent'
  BY DEF StoresInv, Table, KeywordHitsAreCurrent
<1> QED
  BY <1>3, <1>4, <1>5, <1>6 DEF StoresInv

(* Every command, every crash between two commits and every stutter keeps  *)
(* the invariant.                                                          *)
LEMMA StoresInvNext == StoresInv /\ [Next]_vars => StoresInv'
<1> SUFFICES ASSUME StoresInv, [Next]_vars PROVE StoresInv'
  OBVIOUS
<1>1. CASE BeginIngest
  BY <1>1, BeginIngestKeepsInv
<1>2. CASE EndIngest
  <2>1. /\ UNCHANGED <<chunks, fts, vectors, lance, recut, lost>>
        /\ stage # "purge" /\ stage' # "ingest" /\ chunks = Empty
    BY <1>2 DEF EndIngest, history, StoresInv, ContentInv
  <2>2. StoresAgree'
    BY <2>1 DEF StoresInv, StoresAgree
  <2> QED BY <2>1, <2>2, SameRowsKeepInv
<1>3. CASE Embed
  BY <1>3, EmbedKeepsInv
<1>4. CASE BeginPurge
  <2>1. /\ UNCHANGED <<documents, chunks, fts, vectors, recut>> /\ stage' = "purge"
        /\ lance' = Empty \/ lance' = lance
    BY <1>4 DEF BeginPurge, history
  <2>2. StoresAgree'
    BY <2>1, EmptyTable DEF StoresInv, StoresAgree
  <2> QED BY <2>1, <2>2, SameRowsKeepInv
<1>5. CASE EndPurge
  BY <1>5, EndPurgeKeepsInv
<1>6. CASE Die
  <2>1. UNCHANGED <<documents, chunks, fts, vectors, lance, recut>> /\ stage' = "idle"
    BY <1>6 DEF Die
  <2>2. lost' = IF stage = "purge" THEN DOMAIN vectors ELSE lost
    BY <1>6 DEF Die
  <2>3. StoresAgree'
    BY <2>1, <2>2 DEF StoresInv, StoresAgree
  <2> QED BY <2>1, <2>3, SameRowsKeepInv
<1>7. CASE \E config \in Configs : Chunk(config)
  BY <1>7, ChunkKeepsInv
<1>8. CASE UNCHANGED vars
  BY <1>8 DEF vars, StoresInv, Table, EmbeddedInv, ContentInv, Ids, TextOf, KeywordHitsAreCurrent, VectorsFitTexts,
              StoresAgree
<1> QED
  BY <1>1, <1>2, <1>3, <1>4, <1>5, <1>6, <1>7, <1>8 DEF Next

-----------------------------------------------------------------------------
(* The invariant of the stores holds in every state.                       *)
THEOREM StoresInvariance == Spec => []StoresInv
<1> QED
  BY StoresInvInit, StoresInvNext, PTL DEF Spec

(* keyword_search joins the full text and the chunks by rowid: in every    *)
(* state, with whatever rowids were replaced, deleted and given out again, *)
(* each chunk is there with its present text.                              *)
THEOREM KeywordHitsAlwaysCurrent == Spec => []KeywordHitsAreCurrent
<1>1. StoresInv => KeywordHitsAreCurrent
  BY DEF StoresInv
<1> QED
  BY <1>1, StoresInvariance, PTL

(* Whatever commands run and die: every vector of SQLite is of a chunk     *)
(* that is there and of the content its file was ingested with, and was    *)
(* computed from the text that its chunk has now unless chunk has cut the  *)
(* file anew since (VectorsFitTexts).                                      *)
THEOREM VectorsAlwaysFitTexts == Spec => []VectorsFitTexts
<1>1. StoresInv => VectorsFitTexts
  BY DEF StoresInv
<1> QED
  BY <1>1, StoresInvariance, PTL

(* With dual writes a chunk that has a vector in both stores has the same  *)
(* in both, always; and LanceDB lacks no vector of SQLite but those that a *)
(* purge dropped which died before its second part (StoresAgree).          *)
THEOREM StoresAlwaysAgree == Spec => []StoresAgree
<1>1. StoresInv => StoresAgree
  BY DEF StoresInv
<1> QED
  BY <1>1, StoresInvariance, PTL

-----------------------------------------------------------------------------
(* Cutting a document: numbers.                                            *)

LEMMA LeastNumber ==
  ASSUME NEW S \in SUBSET Nat, S # {}
  PROVE  \E x \in S : \A y \in S : x <= y
<1> DEFINE Less == {ss \in Nat \X Nat : ss[1] < ss[2]}
<1>1. IsWellFoundedOn(Less, Nat)
  BY NatLessThanWellFounded DEF OpToRel
<1>2. PICK x \in S : \A y \in S : <<y, x>> \notin Less
  <2> HIDE DEF Less
  <2> QED
    BY <1>1, WFMin
<1>3. x \in Nat /\ \A y \in S : y \in Nat /\ ~(y < x)
  BY <1>2
<1> QED
  BY <1>3

LEMMA MinOfNumbers ==
  ASSUME NEW S \in SUBSET Nat, S # {}
  PROVE  Min(S) \in S /\ \A y \in S : Min(S) <= y
BY LeastNumber DEF Min

LEMMA MaxOfNumbers ==
  ASSUME NEW S, NEW m \in Nat, S \subseteq 0 .. m, S # {}
  PROVE  Max(S) \in S /\ \A y \in S : y <= Max(S)
<1> DEFINE T == {m - x : x \in S}
<1>1. T \in SUBSET Nat /\ T # {}
  <2>1. \A x \in S : m - x \in Nat
    OBVIOUS
  <2> QED
    BY <2>1
<1>2. PICK t \in T : \A u \in T : t <= u
  <2> HIDE DEF T
  <2> QED
    BY <1>1, LeastNumber
<1>3. PICK x \in S : t = m - x
  OBVIOUS
<1>4. x \in Int /\ \A y \in S : y \in Int /\ m - x <= m - y
  BY <1>2, <1>3
<1>5. \A y \in S : x >= y
  BY <1>4
<1>6. Max(S) \in S /\ \A y \in S : Max(S) >= y
  BY <1>5 DEF Max
<1> QED
  BY <1>4, <1>6

(* The first of some pairs of numbers, by the one and then by the other.   *)
LEMMA LeastPair ==
  ASSUME NEW S, S # {}, NEW x \in [S -> Nat], NEW y \in [S -> Nat]
  PROVE  \E c \in S : \A d \in S : x[c] < x[d] \/ (x[c] = x[d] /\ y[c] <= y[d])
<1>1. PICK m \in {x[c] : c \in S} : \A n \in {x[c] : c \in S} : m <= n
  <2>1. {x[c] : c \in S} \in SUBSET Nat /\ {x[c] : c \in S} # {}
    OBVIOUS
  <2> QED
    BY <2>1, LeastNumber
<1>2. m \in Nat /\ \A d \in S : x[d] \in Nat /\ m <= x[d]
  BY <1>1
<1> DEFINE T == {c \in S : x[c] = m}
<1>3. PICK k \in {y[c] : c \in T} : \A n \in {y[c] : c \in T} : k <= n
  <2>1. {y[c] : c \in T} \in SUBSET Nat /\ {y[c] : c \in T} # {}
    BY <1>1
  <2> QED
    BY <2>1, LeastNumber
<1>4. PICK c \in T : y[c] = k
  OBVIOUS
<1>5. ASSUME NEW d \in S PROVE x[c] < x[d] \/ (x[c] = x[d] /\ y[c] <= y[d])
  <2>1. CASE x[d] = m
    BY <1>3, <1>4, <2>1
  <2>2. CASE x[d] # m
    BY <1>2, <1>4, <2>2
  <2> QED
    BY <2>1, <2>2
<1> QED
  BY <1>5

-----------------------------------------------------------------------------
(* What is computed place by place: the equations have a solution.         *)

Steps(f, a, b, base, after) ==
  f[a] = base /\ \A n \in a + 1 .. b : f[n] = after[<<n, f[n - 1]>>]

LEMMA StepsExist ==
  ASSUME NEW V, NEW a \in Int, NEW b \in Int, a <= b, NEW base \in V,
         NEW after \in [(a + 1 .. b) \X V -> V]
  PROVE  \E f \in [a .. b -> V] : Steps(f, a, b, base, after)
<1> DEFINE Until1(k) == \E f \in [a .. a + k -> V] : Steps(f, a, a + k, base, after)
           Failed == {k \in 0 .. b - a : ~ Until1(k)}
<1>1. Until1(0)
  <2>1. [n \in a .. a |-> base] \in [a .. a + 0 -> V]
    OBVIOUS
  <2>2. Steps([n \in a .. a |-> base], a, a + 0, base, after)
    BY DEF Steps
  <2> QED
    BY <2>1, <2>2
<1>2. ASSUME NEW k \in 0 .. b - a, k > 0, Until1(k - 1) PROVE Until1(k)
  <2>1. PICK f \in [a .. a + (k - 1) -> V] : Steps(f, a, a + (k - 1), base, after)
    BY <1>2
  <2> DEFINE last == a + k
             g == [n \in a .. a + k |-> IF n = last THEN after[<<last, f[last - 1]>>] ELSE f[n]]
  <2>2. last \in a + 1 .. b /\ last - 1 \in a .. a + (k - 1) /\ f[last - 1] \in V
    BY <1>2
  <2>3. after[<<last, f[last - 1]>>] \in V
    BY <2>2
  <2>4. \A n \in a .. a + k : n # last => n \in a .. a + (k - 1) /\ g[n] = f[n] /\ f[n] \in V
    <3>1. ASSUME NEW n \in a .. a + k, n # last PROVE n \in a .. a + (k - 1)
      BY <3>1
    <3>2. ASSUME NEW n \in a .. a + k, n # last PROVE g[n] = f[n] /\ f[n] \in V
      <4>1. n \in a .. a + (k - 1)
        BY <3>1, <3>2
      <4>2. f[n] \in V
        BY <4>1
      <4> HIDE DEF last
      <4> QED
        BY <3>2, <4>2
    <3> QED
      BY <3>1, <3>2
  <2>5. g[last] = after[<<last, f[last - 1]>>]
    OBVIOUS
  <2>6. g \in [a .. a + k -> V]
    <3>1. \A n \in a .. a + k : g[n] \in V
      BY <2>3, <2>4, <2>5
    <3> QED
      BY <3>1
  <2>7. a \in a .. a + k /\ a # last /\ g[a] = f[a]
    <3>1. a \in a .. a + k /\ a # last
      BY <1>2
    <3> HIDE DEF g, last
    <3> QED
      BY <2>4, <3>1
  <2>8. ASSUME NEW n \in a + 1 .. a + k PROVE g[n] = after[<<n, g[n - 1]>>]
    <3>1. n - 1 \in a .. a + k /\ n - 1 # last /\ g[n - 1] = f[n - 1]
      <4>1. n - 1 \in a .. a + k /\ n - 1 # last
        OBVIOUS
      <4> HIDE DEF g, last
      <4> QED
        BY <2>4, <4>1
    <3>2. CASE n = last
      BY <2>5, <3>1, <3>2
    <3>3. CASE n # last
      <4>1. n \in a + 1 .. a + (k - 1) /\ g[n] = f[n]
        BY <3>3
      <4>2. f[n] = after[<<n, f[n - 1]>>]
        BY <2>1, <4>1 DEF Steps
      <4> QED
        BY <3>1, <4>1, <4>2
    <3> QED
      BY <3>2, <3>3
  <2>9. g[a] = base
    BY <2>1, <2>7 DEF Steps
  <2> HIDE DEF g
  <2>10. Steps(g, a, a + k, base, after)
    BY <2>8, <2>9 DEF Steps
  <2> QED
    BY <2>6, <2>10
<1>3. Failed = {}
  <2> SUFFICES ASSUME Failed # {} PROVE FALSE
    OBVIOUS
  <2>1. Failed \in SUBSET Nat
    OBVIOUS
  <2>2. PICK k \in Failed : \A j \in Failed : k <= j
    <3> HIDE DEF Failed
    <3> QED
      BY <2>1, LeastNumber
  <2>3. k \in 0 .. b - a /\ ~ Until1(k)
    OBVIOUS
  <2> HIDE DEF Until1
  <2>4. k > 0
    BY <1>1, <2>3
  <2>5. k - 1 \in 0 .. b - a /\ ~ (k <= k - 1)
    BY <2>3, <2>4
  <2>6. k - 1 \notin Failed
    BY <2>2, <2>5
  <2>7. Until1(k - 1)
    BY <2>5, <2>6
  <2> QED
    BY <1>2, <2>3, <2>4, <2>7
<1>4. Until1(b - a)
  <2>1. b - a \in 0 .. b - a
    OBVIOUS
  <2> HIDE DEF Until1
  <2> QED
    BY <1>3, <2>1
<1>5. a + (b - a) = b
  OBVIOUS
<1> QED
  BY <1>4, <1>5

(* What holds at the first place and from each place to the next.          *)
LEMMA Along ==
  ASSUME NEW V, NEW a \in Int, NEW b \in Int, NEW f, a <= b, f[a] \in V,
         \A n \in a + 1 .. b : f[n - 1] \in V => f[n] \in V
  PROVE  \A n \in a .. b : f[n] \in V
<1> DEFINE Failed == {k \in 0 .. b - a : f[a + k] \notin V}
<1>1. Failed = {}
  <2> SUFFICES ASSUME Failed # {} PROVE FALSE
    OBVIOUS
  <2>1. Failed \in SUBSET Nat
    OBVIOUS
  <2>2. PICK k \in Failed : \A j \in Failed : k <= j
    <3> HIDE DEF Failed
    <3> QED
      BY <2>1, LeastNumber
  <2>3. k \in 0 .. b - a /\ f[a + k] \notin V
    OBVIOUS
  <2>4. k > 0
    <3> SUFFICES ASSUME k = 0 PROVE FALSE
      BY <2>3
    <3>1. a + k = a
      OBVIOUS
    <3> QED
      BY <2>3, <3>1
  <2>5. k - 1 \in 0 .. b - a /\ ~ (k <= k - 1)
    BY <2>3, <2>4
  <2>6. k - 1 \notin Failed
    BY <2>2, <2>5
  <2>7. f[a + (k - 1)] \in V
    BY <2>5, <2>6
  <2>8. a + k \in a + 1 .. b /\ (a + k) - 1 = a + (k - 1)
    BY <2>3, <2>4
  <2> QED
    BY <2>3, <2>7, <2>8
<1>2. ASSUME NEW n \in a .. b PROVE f[n] \in V
  <2>1. n - a \in 0 .. b - a /\ a + (n - a) = n
    OBVIOUS
  <2>2. n - a \notin Failed
    BY <1>1
  <2> QED
    BY <2>1, <2>2
<1> QED
  BY <1>2

-----------------------------------------------------------------------------
(* Lines and tokens.                                                       *)

DocTyped == doc \in Documents /\ cfg \in Settings

LEMMA DocShape ==
  ASSUME DocTyped
  PROVE  /\ Total \in Nat
         /\ \A n \in 0 .. Total - 1 : Tokens[Line(n)] \in Nat
         /\ IsFiniteSet(doc.defs)
         /\ \A n \in doc.ast : n.start \in Nat /\ n.end \in 0 .. Total
<1>1. doc.lines \in Seq(DOMAIN Tokens) /\ Tokens \in [DOMAIN Tokens -> Nat]
  BY DocumentsAssumption DEF DocTyped
<1>2. Total \in Nat
  BY <1>1 DEF Total
<1>3. ASSUME NEW n \in 0 .. Total - 1 PROVE Tokens[Line(n)] \in Nat
  <2>1. n + 1 \in 1 .. Len(doc.lines)
    BY <1>2 DEF Total
  <2>2. doc.lines[n + 1] \in DOMAIN Tokens
    BY <1>1, <2>1
  <2> QED
    BY <1>1, <2>2 DEF Line
<1> QED
  BY <1>2, <1>3, DocumentsAssumption DEF DocTyped, Total

LEMMA SettingShape ==
  ASSUME DocTyped
  PROVE  /\ cfg.target \in Nat \ {0} /\ cfg.minLines \in Nat \ {0}
         /\ cfg.overlap \in Nat /\ cfg.lookback \in Nat /\ cfg.contextMax \in Nat
         /\ cfg.fields \in Seq([prefix : Nat, value : Nat])
BY SettingsAssumption DEF DocTyped

LEMMA WeightIsNumber ==
  ASSUME DocTyped, NEW i \in 0 .. Total, NEW j \in 0 .. Total, i <= j
  PROVE  Weight(i, j) \in Nat
<1>1. Total \in Nat /\ \A n \in 0 .. Total - 1 : Tokens[Line(n)] \in Nat
  BY DocShape
<1>i. i \in Int /\ j \in Int
  BY <1>1
<1> DEFINE value(g, n) == IF n = i THEN 0 ELSE g[n - 1] + Tokens[Line(n - 1)]
           upTo == CHOOSE g : g = [n \in i .. j |-> value(g, n)]
           after == [x \in (i + 1 .. j) \X Nat |-> x[2] + Tokens[Line(x[1] - 1)]]
<1>2. Weight(i, j) = upTo[j]
  BY DEF Weight
<1>3. \A n \in i + 1 .. j : Tokens[Line(n - 1)] \in Nat
  <2>1. \A n \in i + 1 .. j : n - 1 \in 0 .. Total - 1
    BY <1>1
  <2> QED
    BY <1>1, <2>1
<1>4. after \in [(i + 1 .. j) \X Nat -> Nat]
  BY <1>3
<1>5. PICK f \in [i .. j -> Nat] : Steps(f, i, j, 0, after)
  <2> HIDE DEF after
  <2> QED
    BY <1>i, <1>4, StepsExist
<1>6. f = [n \in i .. j |-> value(f, n)]
  <2>1. ASSUME NEW n \in i .. j PROVE f[n] = value(f, n)
    <3>1. CASE n = i
      BY <1>5, <3>1 DEF Steps
    <3>2. CASE n # i
      <4>1. n \in i + 1 .. j /\ n - 1 \in i .. j
        BY <3>2
      <4>2. f[n] = after[<<n, f[n - 1]>>] /\ f[n - 1] \in Nat
        BY <1>5, <4>1 DEF Steps
      <4> QED
        BY <3>2, <4>1, <4>2
    <3> QED
      BY <3>1, <3>2
  <2> HIDE DEF value
  <2> QED
    BY <2>1
<1>7. upTo = [n \in i .. j |-> value(upTo, n)]
  <2> HIDE DEF value
  <2> QED
    BY <1>6
<1>8. upTo[i] = 0 /\ \A n \in i + 1 .. j : upTo[n] = upTo[n - 1] + Tokens[Line(n - 1)]
  <2>1. i \in i .. j /\ \A n \in i + 1 .. j : n \in i .. j /\ n # i
    OBVIOUS
  <2> HIDE DEF upTo
  <2>2. \A n \in i .. j : upTo[n] = value(upTo, n)
    BY <1>7
  <2> QED
    BY <2>1, <2>2
<1> HIDE DEF upTo
<1>9. \A n \in i .. j : upTo[n] \in Nat
  <2>1. ASSUME NEW n \in i + 1 .. j, upTo[n - 1] \in Nat PROVE upTo[n] \in Nat
    <3>1. upTo[n] = upTo[n - 1] + Tokens[Line(n - 1)] /\ Tokens[Line(n - 1)] \in Nat
      BY <1>3, <1>8
    <3> QED
      BY <2>1, <3>1
  <2>2. \A n \in i + 1 .. j : upTo[n - 1] \in Nat => upTo[n] \in Nat
    BY <2>1
  <2> QED
    <3>1. upTo[i] \in Nat
      BY <1>8
    <3> HIDE DEF after
    <3> QED
      BY <1>i, <2>2, <3>1, Along
<1> QED
  BY <1>2, <1>9

(* The budgets of the text, of the fields before it and of the overlap.    *)
LEMMA Budgets ==
  ASSUME DocTyped
  PROVE  /\ SourceTarget \in Nat \ {0} /\ SourceTarget <= cfg.target
         /\ MetadataTarget \in Nat /\ SourceTarget + MetadataTarget <= cfg.target
         /\ Overlap \in Nat
<1>1. cfg.target \in Nat /\ cfg.target > 0 /\ cfg.overlap \in Nat /\ cfg.contextMax \in Nat
  BY SettingShape
<1>2. (cfg.target * 8) \div 10 \in Nat /\ (cfg.target * 8) \div 10 <= cfg.target
  BY <1>1
<1>3. SourceTarget \in Nat \ {0} /\ SourceTarget <= cfg.target
  BY <1>1, <1>2 DEF SourceTarget, Larger
<1>4. MetadataTarget \in Nat /\ SourceTarget + MetadataTarget <= cfg.target
  BY <1>1, <1>3 DEF MetadataTarget, Smaller
<1>5. SourceTarget \div 2 \in Nat
  BY <1>3
<1>6. Overlap \in Nat
  BY <1>1, <1>5 DEF Overlap, Smaller
<1> QED
  BY <1>3, <1>4, <1>6

LEMMA FieldsFit ==
  ASSUME DocTyped
  PROVE  MetadataTokens \in 0 .. MetadataTarget
<1> DEFINE M == MetadataTarget
           F == cfg.fields
           N == Len(F)
           value(g, n) == IF n = 0 THEN M ELSE FieldTaken(g[n - 1], F[n])
           left == CHOOSE g : g = [n \in 0 .. N |-> value(g, n)]
           after == [x \in (0 + 1 .. N) \X (0 .. M) |-> FieldTaken(x[2], F[x[1]])]
<1>1. M \in Nat /\ N \in Nat /\ \A n \in 1 .. N : F[n].prefix \in Nat /\ F[n].value \in Nat
  <2>1. cfg.fields \in Seq([prefix : Nat, value : Nat])
    BY SettingShape
  <2> DEFINE R == [prefix : Nat, value : Nat]
  <2>2. \A n \in 1 .. N : F[n] \in R
    <3> HIDE DEF R
    <3> QED
      BY <2>1, ElementOfSeq DEF R
  <2>3. N \in Nat
    BY <2>1, LenProperties
  <2> QED
    BY <2>2, <2>3, Budgets
<1>2. MetadataTokens = M - left[N]
  BY DEF MetadataTokens
<1>3. ASSUME NEW l \in 0 .. M, NEW n \in 1 .. N PROVE FieldTaken(l, F[n]) \in 0 .. M
  <2> DEFINE budget == l - F[n].prefix
             taken == Truncated(F[n].value, budget)
  <2>1. F[n].prefix \in Nat /\ F[n].value \in Nat /\ l \in Int /\ 0 <= l /\ l <= M
    BY <1>1
  <2>2. budget \in Int /\ budget <= l
    BY <2>1
  <2>3. taken \in Nat /\ (taken = 0 \/ taken <= budget)
    <3> HIDE DEF budget
    <3>1. CASE budget <= 0
      BY <2>1, <2>2, <3>1 DEF Truncated
    <3>2. CASE budget > 0
      BY <2>1, <2>2, <3>2 DEF Truncated
    <3> QED
      BY <2>2, <3>1, <3>2
  <2>4. FieldTaken(l, F[n]) = IF taken = 0 THEN l ELSE budget - taken
    BY DEF FieldTaken
  <2> HIDE DEF budget, taken, M
  <2> QED
    BY <1>1, <2>1, <2>2, <2>3, <2>4
<1> HIDE DEF M, N, F
<1>4. after \in [(0 + 1 .. N) \X (0 .. M) -> 0 .. M]
  <2>1. \A x \in (0 + 1 .. N) \X (0 .. M) : FieldTaken(x[2], F[x[1]]) \in 0 .. M
    BY <1>3
  <2> QED
    BY <2>1
<1>5. PICK f \in [0 .. N -> 0 .. M] : Steps(f, 0, N, M, after)
  <2> DEFINE V == 0 .. M
  <2>1. M \in V /\ 0 <= N /\ 0 \in Int /\ N \in Int
    BY <1>1
  <2>2. after \in [(0 + 1 .. N) \X V -> V]
    BY <1>4
  <2> HIDE DEF after, V
  <2>3. \E f \in [0 .. N -> V] : Steps(f, 0, N, M, after)
    BY <2>1, <2>2, StepsExist
  <2> QED
    BY <2>3 DEF V
<1>6. f = [n \in 0 .. N |-> value(f, n)]
  <2>1. ASSUME NEW n \in 0 .. N PROVE f[n] = value(f, n)
    <3>1. CASE n = 0
      BY <1>5, <3>1 DEF Steps
    <3>2. CASE n # 0
      <4>1. n \in 0 + 1 .. N /\ n - 1 \in 0 .. N
        BY <1>1, <3>2
      <4>2. f[n] = after[<<n, f[n - 1]>>] /\ f[n - 1] \in 0 .. M
        BY <1>5, <4>1 DEF Steps
      <4> QED
        BY <3>2, <4>1, <4>2
    <3> QED
      BY <3>1, <3>2
  <2> HIDE DEF value
  <2> QED
    BY <2>1
<1>7. left = [n \in 0 .. N |-> value(left, n)]
  <2> HIDE DEF value
  <2> QED
    BY <1>6
<1>8. left[0] = M /\ \A n \in 1 .. N : left[n] = FieldTaken(left[n - 1], F[n])
  <2>1. 0 \in 0 .. N /\ \A n \in 1 .. N : n \in 0 .. N /\ n # 0
    BY <1>1
  <2> HIDE DEF left
  <2>2. \A n \in 0 .. N : left[n] = value(left, n)
    BY <1>7
  <2> QED
    BY <2>1, <2>2
<1> HIDE DEF left
<1>9. left[N] \in 0 .. M
  <2> DEFINE V == 0 .. M
  <2>1. left[0] \in V
    BY <1>1, <1>8
  <2>2. \A n \in 0 + 1 .. N : left[n - 1] \in V => left[n] \in V
    BY <1>3, <1>8
  <2>i. 0 \in Int /\ N \in Int /\ 0 <= N
    BY <1>1
  <2> HIDE DEF V
  <2>3. \A n \in 0 .. N : left[n] \in V
    BY <2>i, <2>1, <2>2, Along
  <2> QED
    BY <1>1, <2>3 DEF V
<1> QED
  BY <1>1, <1>2, <1>9 DEF M

(* A piece takes what the budget of its text allows, and one line at least.*)
LEMMA PieceFits ==
  ASSUME DocTyped, NEW i \in Nat, NEW end \in 0 .. Total, i < end
  PROVE  /\ PieceEnd(i, end) \in i + 1 .. end
         /\ PieceEnd(i, end) # i + 1 => Weight(i, PieceEnd(i, end)) <= SourceTarget
<1> DEFINE S == {i + 1} \cup {j \in i + 1 .. end : Weight(i, j) <= SourceTarget}
<1>1. Total \in Nat
  BY DocShape
<1>2. S \subseteq 0 .. end /\ S # {} /\ end \in Nat
  BY <1>1
<1>3. PieceEnd(i, end) = Max(S)
  BY DEF PieceEnd
<1>4. Max(S) \in S
  <2> HIDE DEF S
  <2> QED
    BY <1>2, MaxOfNumbers
<1> QED
  BY <1>1, <1>3, <1>4

LEMMA NextIsWithin ==
  ASSUME DocTyped, NEW i \in Nat, NEW j \in Nat, i < j
  PROVE  NextStart(i, j) \in i + 1 .. j
<1> DEFINE S == {i} \cup {k \in i + 1 .. j - 1 : Weight(k, j) >= Overlap}
<1>1. S \subseteq 0 .. j /\ S # {} /\ \A k \in S : k < j
  OBVIOUS
<1>2. Max(S) \in S
  <2> HIDE DEF S
  <2> QED
    BY <1>1, MaxOfNumbers
<1>3. Max(S) \in 0 .. j /\ Max(S) < j
  BY <1>1, <1>2
<1>4. NextStart(i, j) = IF Overlap = 0 THEN j ELSE Larger(i + 1, Max(S))
  BY DEF NextStart
<1> HIDE DEF S
<1> QED
  BY <1>3, <1>4 DEF Larger

LEMMA DocIsAbove ==
  ASSUME DocTyped, NEW def \in Nat
  PROVE  LeadingDoc(def) \in 0 .. def
<1> DEFINE S == {i \in Larger(0, def - cfg.lookback) .. def : \A n \in i .. def - 1 : Line(n) \in {"blank", "note"}}
<1>1. CASE def = 0
  BY <1>1 DEF LeadingDoc
<1>2. CASE def # 0
  <2>1. cfg.lookback \in Nat
    BY SettingShape
  <2>2. Larger(0, def - cfg.lookback) \in 0 .. def
    BY <2>1 DEF Larger
  <2>3. S \subseteq 0 .. def /\ def \in S
    BY <2>2
  <2>4. LeadingDoc(def) = Min(S)
    BY <1>2 DEF LeadingDoc
  <2>5. Min(S) \in S
    <3> HIDE DEF S
    <3>1. S \in SUBSET Nat /\ S # {}
      BY <2>3
    <3> QED
      BY <3>1, MinOfNumbers
  <2> QED
    BY <2>3, <2>4, <2>5
<1> QED
  BY <1>1, <1>2

-----------------------------------------------------------------------------
(* Candidates.                                                             *)

DefinedIds == {d.id : d \in doc.defs}
Shapes ==
  {c \in [ids : Seq(DefinedIds), owner : {d.owner : d \in doc.defs}, container : BOOLEAN, start : Nat, end : Nat, eff : Nat] :
     c.eff <= c.start /\ c.start < c.end /\ c.end <= Total}

LEMMA DefinitionShape ==
  ASSUME DocTyped, NEW d \in doc.defs
  PROVE  /\ d.def \in Nat /\ d.enclosing \in Int \X Int
         /\ d.def < Total \/ StoredRange(d)[1] >= Total
<1>1. doc \in Documents
  BY DEF DocTyped
<1> QED
  BY <1>1, DocumentsAssumption DEF Total

LEMMA RangeIsInText ==
  ASSUME DocTyped, NEW d \in doc.defs, LongEnough(d)
  PROVE  /\ NodeRange(d) = <<NodeRange(d)[1], NodeRange(d)[2]>>
         /\ NodeRange(d)[1] \in Nat /\ NodeRange(d)[2] \in Nat
         /\ NodeRange(d)[1] < NodeRange(d)[2] /\ NodeRange(d)[2] <= Total
<1>1. Total \in Nat /\ d.def \in Nat /\ d.enclosing \in Int \X Int
  BY DocShape, DefinitionShape
<1>2. NodeRange(d)[1] < Total
  BY DEF LongEnough
<1>3. CASE ~Explicit(d) /\ cfg.treesitter /\ AstSpans(d) # {}
  <2>1. PICK n \in AstSpans(d) : NodeRange(d) = <<n.start, n.end>>
    BY <1>3 DEF NodeRange
  <2>2. n \in doc.ast /\ n.start <= d.def /\ d.def < n.end
    BY DEF AstSpans
  <2>3. n.start \in Nat /\ n.end \in 0 .. Total
    BY <2>2, DocShape
  <2> QED
    BY <1>1, <2>1, <2>2, <2>3
<1>4. CASE ~(~Explicit(d) /\ cfg.treesitter /\ AstSpans(d) # {})
  <2> DEFINE r == StoredRange(d)
  <2>1. NodeRange(d) = <<r[1], Smaller(Total, Larger(r[1] + 1, r[2]))>>
    BY <1>4 DEF NodeRange
  <2>2. r[1] \in Nat /\ r[2] \in Nat
    BY <1>1 DEF StoredRange, Explicit
  <2> HIDE DEF r
  <2>3. r[1] < Total
    BY <1>2, <2>1
  <2>4. Larger(r[1] + 1, r[2]) \in Nat /\ r[1] < Larger(r[1] + 1, r[2])
    BY <2>2 DEF Larger
  <2>5. Smaller(Total, Larger(r[1] + 1, r[2])) \in r[1] + 1 .. Total
    BY <1>1, <2>2, <2>3, <2>4 DEF Smaller
  <2> QED
    BY <1>1, <2>1, <2>2, <2>3, <2>5
<1> QED
  BY <1>3, <1>4

LEMMA CandidateShape ==
  ASSUME DocTyped, NEW d \in doc.defs, LongEnough(d)
  PROVE  Candidate(d) \in Shapes
<1> DEFINE r == NodeRange(d)
           eff == Smaller(r[1], LeadingDoc(d.def))
<1>1. r[1] \in Nat /\ r[2] \in Nat /\ r[1] < r[2] /\ r[2] <= Total
  BY RangeIsInText
<1>2. LeadingDoc(d.def) \in Nat
  <2>1. d.def \in Nat
    BY DefinitionShape
  <2> QED
    BY <2>1, DocIsAbove
<1> HIDE DEF r
<1>3. eff \in Nat /\ eff <= r[1]
  BY <1>1, <1>2 DEF Smaller
<1> HIDE DEF eff
<1>4. Candidate(d) = [ids |-> <<d.id>>, owner |-> d.owner, container |-> IsContainer(d), start |-> r[1],
                      end |-> r[2], eff |-> eff]
  BY DEF Candidate, r, eff
<1>5. <<d.id>> \in Seq(DefinedIds)
  BY DEF DefinedIds
<1>6. IsContainer(d) \in BOOLEAN /\ d.owner \in {x.owner : x \in doc.defs}
  BY DEF IsContainer
<1> DEFINE Owners == {x.owner : x \in doc.defs}
           S == Seq(DefinedIds)
<1> HIDE DEF Owners, S
<1>7. Candidate(d) \in [ids : S, owner : Owners, container : BOOLEAN, start : Nat, end : Nat, eff : Nat]
  <2>1. <<d.id>> \in S /\ d.owner \in Owners
    BY <1>5, <1>6 DEF S, Owners
  <2> QED
    BY <1>1, <1>3, <1>4, <1>6, <2>1
<1>8. Candidate(d).eff = eff /\ Candidate(d).start = r[1] /\ Candidate(d).end = r[2]
  BY <1>4
<1> QED
  BY <1>1, <1>3, <1>7, <1>8 DEF Shapes, S, Owners

LEMMA CandidatesShape ==
  ASSUME DocTyped
  PROVE  /\ Candidates \subseteq Shapes
         /\ \A c \in Candidates : c.ids = <<c.ids[1]>>
         /\ IsFiniteSet(Candidates)
<1> DEFINE D == {d \in doc.defs : Chunked(d) /\ LongEnough(d)}
           F == [d \in D |-> Candidate(d)]
<1>1. AllCandidates = {Candidate(d) : d \in D}
  BY DEF AllCandidates
<1>2. Candidates \subseteq AllCandidates
  BY DEF Candidates
<1>3. \A c \in AllCandidates : c \in Shapes /\ c.ids = <<c.ids[1]>>
  <2>1. ASSUME NEW d \in D PROVE Candidate(d) \in Shapes /\ Candidate(d).ids = <<Candidate(d).ids[1]>>
    <3>1. Candidate(d).ids = <<d.id>>
      BY DEF Candidate
    <3> QED
      BY <3>1, CandidateShape
  <2> QED
    BY <1>1, <2>1
<1>4. IsFiniteSet(AllCandidates)
  <2>1. IsFiniteSet(D)
    BY DocShape, FS_Subset
  <2>2. F \in Surjection(D, AllCandidates)
    BY <1>1 DEF Surjection
  <2> HIDE DEF D, F
  <2> QED
    BY <2>1, <2>2, FS_Surjection
<1> QED
  BY <1>2, <1>3, <1>4, FS_Subset

LEMMA ForemostIsOf ==
  ASSUME NEW S, S # {}, \A c \in S : c.start \in Nat /\ c.end \in Nat
  PROVE  Foremost(S) \in S
<1> DEFINE x == [c \in S |-> c.start]
           y == [c \in S |-> c.end]
<1>1. \A c \in S : x[c] = c.start /\ y[c] = c.end
  OBVIOUS
<1>2. x \in [S -> Nat] /\ y \in [S -> Nat]
  OBVIOUS
<1> HIDE DEF x, y
<1>3. \E c \in S : \A d \in S : x[c] < x[d] \/ (x[c] = x[d] /\ y[c] <= y[d])
  BY <1>2, LeastPair
<1>4. \E c \in S : \A d \in S : c.start < d.start \/ (c.start = d.start /\ c.end <= d.end)
  BY <1>1, <1>3
<1> QED
  BY <1>4 DEF Foremost

LEMMA FirstIsOf ==
  ASSUME NEW S, S # {}, \A s \in S : s.eff \in Nat /\ s.end \in Nat
  PROVE  First(S) \in S
<1> DEFINE x == [s \in S |-> s.eff]
           y == [s \in S |-> s.end]
<1>1. \A s \in S : x[s] = s.eff /\ y[s] = s.end
  OBVIOUS
<1>2. x \in [S -> Nat] /\ y \in [S -> Nat]
  OBVIOUS
<1> HIDE DEF x, y
<1>3. \E s \in S : \A t \in S : x[s] < x[t] \/ (x[s] = x[t] /\ y[s] <= y[t])
  BY <1>2, LeastPair
<1>4. \E s \in S : \A t \in S : s.eff < t.eff \/ (s.eff = t.eff /\ s.end <= t.end)
  BY <1>1, <1>3
<1> QED
  BY <1>4 DEF First

-----------------------------------------------------------------------------
(* Packs.                                                                  *)

(* The pack takes in the candidate: it names it and reaches around it.     *)
Takes(p, c) == c.ids[1] \in Range(p.ids) /\ p.eff <= c.eff /\ c.end <= p.end

Rows(members) ==
  [full : SUBSET Shapes, last : [c : Shapes, tokens : Int, last : Nat, open : BOOLEAN], rest : SUBSET members]

RowFits(members, n, row) ==
  /\ row \in Rows(members)
  /\ Cardinality(row.rest) = Cardinality(members) - n
  /\ \A c \in members \ row.rest : \E p \in row.full \cup {row.last.c} : Takes(p, c)

LEMMA OpenedShape ==
  ASSUME DocTyped, NEW c \in Shapes
  PROVE  /\ Opened(c) \in [c : Shapes, tokens : Int, last : Nat, open : BOOLEAN]
         /\ Opened(c).c = c
<1>1. c.eff \in 0 .. Total /\ c.end \in 0 .. Total /\ c.eff <= c.end /\ c.end \in Nat
  <2>1. Total \in Nat
    BY DocShape
  <2> QED
    BY <2>1 DEF Shapes
<1>2. SpanTokens(c) \in Int
  BY <1>1, WeightIsNumber DEF SpanTokens
<1> HIDE DEF Shapes
<1>3. Opened(c) = [c |-> c, tokens |-> SpanTokens(c), last |-> c.end, open |-> IsSmall(c)]
  BY DEF Opened
<1>4. IsSmall(c) \in BOOLEAN
  BY DEF IsSmall
<1> QED
  BY <1>1, <1>2, <1>3, <1>4

LEMMA SmallerOf ==
  ASSUME NEW a \in Nat, NEW b \in Nat
  PROVE  Smaller(a, b) \in {a, b} /\ Smaller(a, b) \in Nat /\ Smaller(a, b) <= a /\ Smaller(a, b) <= b
BY DEF Smaller

LEMMA LargerOf ==
  ASSUME NEW a \in Nat, NEW b \in Nat
  PROVE  Larger(a, b) \in {a, b} /\ Larger(a, b) \in Nat /\ a <= Larger(a, b) /\ b <= Larger(a, b)
BY DEF Larger

LEMMA JoinedShape ==
  ASSUME DocTyped, NEW p \in [c : Shapes, tokens : Int, last : Nat, open : BOOLEAN], NEW c \in Shapes
  PROVE  /\ Joined(p, c) \in [c : Shapes, tokens : Int, last : Nat, open : BOOLEAN]
         /\ Joined(p, c).c.eff <= p.c.eff /\ p.c.end <= Joined(p, c).c.end
         /\ Joined(p, c).c.eff <= c.eff /\ c.end <= Joined(p, c).c.end
         /\ Joined(p, c).c.ids = p.c.ids \o c.ids
<1> DEFINE q == p.c
           Owners == {d.owner : d \in doc.defs}
           Records == [ids : Seq(DefinedIds), owner : Owners, container : BOOLEAN, start : Nat, end : Nat, eff : Nat]
           eff == Smaller(q.eff, c.eff)
           start == Smaller(q.start, c.start)
           end == Larger(q.end, c.end)
           both == [ids |-> q.ids \o c.ids, owner |-> q.owner, container |-> q.container, start |-> start,
                    end |-> end, eff |-> eff]
<1>1. q \in Shapes /\ p.tokens \in Int
  OBVIOUS
<1>2. q \in Records /\ c \in Records
  BY <1>1 DEF Shapes
<1>3. /\ q.eff <= q.start /\ q.start < q.end /\ q.end <= Total
      /\ c.eff <= c.start /\ c.start < c.end /\ c.end <= Total
  BY <1>1 DEF Shapes
<1> HIDE DEF q
<1>4. /\ q.eff \in Nat /\ q.start \in Nat /\ q.end \in Nat
      /\ c.eff \in Nat /\ c.start \in Nat /\ c.end \in Nat
      /\ q.ids \in Seq(DefinedIds) /\ c.ids \in Seq(DefinedIds) /\ q.owner \in Owners /\ q.container \in BOOLEAN
  BY <1>2
<1>5. q.ids \o c.ids \in Seq(DefinedIds)
  <2> DEFINE I == DefinedIds
  <2>1. q.ids \in Seq(I) /\ c.ids \in Seq(I)
    BY <1>4
  <2> HIDE DEF I
  <2>2. q.ids \o c.ids \in Seq(I)
    BY <2>1, ConcatProperties
  <2> QED
    BY <2>2 DEF I
<1>6. Total \in Nat
  BY DocShape
<1>7. /\ eff \in Nat /\ start \in Nat /\ end \in Nat /\ eff <= start /\ start < end /\ end <= Total
      /\ eff <= q.eff /\ eff <= c.eff /\ q.end <= end /\ c.end <= end
  <2>1. eff \in Nat /\ eff <= q.eff /\ eff <= c.eff
    BY <1>4, SmallerOf
  <2>2. start \in {q.start, c.start} /\ start <= q.start
    BY <1>4, SmallerOf
  <2>3. end \in {q.end, c.end} /\ q.end <= end /\ c.end <= end
    BY <1>4, LargerOf
  <2> HIDE DEF eff, start, end
  <2>4. start \in Nat /\ end \in Nat /\ end <= Total
    BY <1>3, <1>4, <2>2, <2>3
  <2>5. eff <= start
    BY <1>3, <1>4, <2>1, <2>2
  <2>6. start < end
    BY <1>3, <1>4, <2>2, <2>3
  <2> QED
    BY <2>1, <2>3, <2>4, <2>5, <2>6
<1> HIDE DEF eff, start, end
<1>8. Joined(p, c).c = [q EXCEPT !.ids = @ \o c.ids, !.start = start, !.end = end, !.eff = eff]
  BY DEF Joined, q, start, end, eff
<1>9. Joined(p, c).c = both
  <2> DEFINE I == Seq(DefinedIds)
  <2>1. q \in [ids : I, owner : Owners, container : BOOLEAN, start : Nat, end : Nat, eff : Nat]
    BY <1>2
  <2> HIDE DEF I, Owners
  <2> QED
    BY <1>8, <2>1
<1>10. both \in Shapes
  <2> DEFINE I == Seq(DefinedIds)
  <2>1. q.ids \o c.ids \in I
    BY <1>5
  <2> HIDE DEF I, Owners
  <2>2. both \in [ids : I, owner : Owners, container : BOOLEAN, start : Nat, end : Nat, eff : Nat]
    BY <1>4, <1>7, <2>1
  <2>3. both.eff = eff /\ both.start = start /\ both.end = end
    OBVIOUS
  <2> QED
    BY <1>7, <2>2, <2>3 DEF I, Owners, Shapes
<1>11. /\ Joined(p, c).tokens = p.tokens + SpanTokens(c) /\ Joined(p, c).last = c.end
       /\ Joined(p, c).open \in BOOLEAN
       /\ Joined(p, c) = [c |-> Joined(p, c).c, tokens |-> Joined(p, c).tokens, last |-> Joined(p, c).last,
                          open |-> Joined(p, c).open]
  BY DEF Joined
<1>12. SpanTokens(c) \in Int
  <2>1. c.eff \in 0 .. Total /\ c.end \in 0 .. Total /\ c.eff <= c.end
    BY <1>3, <1>4, <1>6
  <2> QED
    BY <2>1, WeightIsNumber DEF SpanTokens
<1>13. both.eff = eff /\ both.end = end /\ both.ids = q.ids \o c.ids
  OBVIOUS
<1> HIDE DEF both
<1>14. Joined(p, c) \in [c : Shapes, tokens : Int, last : Nat, open : BOOLEAN]
  <2>1. p.tokens + SpanTokens(c) \in Int
    BY <1>1, <1>12
  <2> HIDE DEF Shapes
  <2> QED
    BY <1>4, <1>9, <1>10, <1>11, <2>1
<1> QED
  BY <1>7, <1>9, <1>13, <1>14 DEF q

Together(members) == members \subseteq Shapes /\ IsFiniteSet(members) /\ \A c \in members : c.ids = <<c.ids[1]>>

LEMMA TakesItself ==
  ASSUME NEW c \in Shapes, c.ids = <<c.ids[1]>>
  PROVE  Takes(c, c)
<1>1. c.eff \in Nat /\ c.end \in Nat
  BY DEF Shapes
<1>2. c.ids[1] \in Range(<<c.ids[1]>>)
  BY DEF Range
<1> QED
  BY <1>1, <1>2 DEF Takes

LEMMA TakesBoth ==
  ASSUME DocTyped, NEW p \in [c : Shapes, tokens : Int, last : Nat, open : BOOLEAN], NEW c \in Shapes,
         c.ids = <<c.ids[1]>>
  PROVE  /\ Takes(Joined(p, c).c, c)
         /\ \A d \in Shapes : Takes(p.c, d) => Takes(Joined(p, c).c, d)
<1> DEFINE j == Joined(p, c).c
           I == DefinedIds
<1>1. p.c \in Shapes /\ j \in Shapes
  BY JoinedShape
<1>2. /\ p.c.eff \in Nat /\ p.c.end \in Nat /\ p.c.ids \in Seq(I) /\ c.ids \in Seq(I)
      /\ j.eff \in Nat /\ j.end \in Nat
      /\ \A d \in Shapes : d.eff \in Nat /\ d.end \in Nat
  BY <1>1 DEF Shapes
<1>3. /\ j.eff <= p.c.eff /\ p.c.end <= j.end
      /\ j.eff <= c.eff /\ c.end <= j.end
      /\ j.ids = p.c.ids \o c.ids
  BY JoinedShape
<1> HIDE DEF j, I
<1>4. Range(j.ids) = Range(p.c.ids) \cup Range(c.ids)
  <2>1. \A x \in Seq(I), y \in Seq(I) : Range(x \o y) = Range(x) \cup Range(y)
    <3> SUFFICES ASSUME NEW x \in Seq(I), NEW y \in Seq(I) PROVE Range(x \o y) = Range(x) \cup Range(y)
      OBVIOUS
    <3>1. /\ Len(x) \in Nat /\ Len(y) \in Nat /\ Len(x \o y) = Len(x) + Len(y)
          /\ \A n \in 1 .. Len(x) + Len(y) : (x \o y)[n] = IF n <= Len(x) THEN x[n] ELSE y[n - Len(x)]
      BY LenProperties, ConcatProperties
    <3>2. DOMAIN x = 1 .. Len(x) /\ DOMAIN y = 1 .. Len(y) /\ DOMAIN (x \o y) = 1 .. Len(x) + Len(y)
      <4>1. x \o y \in Seq(I)
        BY ConcatProperties
      <4> QED
        BY <3>1, <4>1, LenProperties
    <3>3. ASSUME NEW n \in 1 .. Len(x) + Len(y) PROVE (x \o y)[n] \in Range(x) \cup Range(y)
      <4>1. CASE n <= Len(x)
        BY <3>1, <3>2, <4>1 DEF Range
      <4>2. CASE ~(n <= Len(x))
        <5>1. n - Len(x) \in 1 .. Len(y)
          BY <3>1, <4>2
        <5> QED
          BY <3>1, <3>2, <4>2, <5>1 DEF Range
      <4> QED
        BY <4>1, <4>2
    <3>4. ASSUME NEW n \in 1 .. Len(x) PROVE x[n] \in Range(x \o y)
      <4>1. n \in 1 .. Len(x) + Len(y) /\ (x \o y)[n] = x[n]
        BY <3>1
      <4> QED
        BY <3>2, <4>1 DEF Range
    <3>5. ASSUME NEW n \in 1 .. Len(y) PROVE y[n] \in Range(x \o y)
      <4>1. Len(x) + n \in 1 .. Len(x) + Len(y) /\ (x \o y)[Len(x) + n] = y[n]
        BY <3>1
      <4> QED
        BY <3>2, <4>1 DEF Range
    <3> QED
      BY <3>2, <3>3, <3>4, <3>5 DEF Range
  <2> QED
    BY <1>2, <1>3, <2>1
<1>5. c.ids[1] \in Range(c.ids)
  <2>1. c.ids[1] \in Range(<<c.ids[1]>>)
    BY DEF Range
  <2> QED
    BY <2>1
<1>6. Takes(j, c)
  BY <1>3, <1>4, <1>5 DEF Takes
<1>7. ASSUME NEW d \in Shapes, Takes(p.c, d) PROVE Takes(j, d)
  <2>1. d.ids[1] \in Range(p.c.ids) /\ p.c.eff <= d.eff /\ d.end <= p.c.end
    BY <1>7 DEF Takes
  <2>2. d.eff \in Nat /\ d.end \in Nat
    BY <1>2
  <2>3. d.ids[1] \in Range(j.ids)
    BY <1>4, <2>1
  <2>4. j.eff \in Nat /\ j.end \in Nat
    BY <1>2
  <2>5. j.eff <= d.eff /\ d.end <= j.end
    BY <1>2, <1>3, <2>1, <2>2, <2>4
  <2> QED
    BY <2>3, <2>5 DEF Takes
<1> QED
  BY <1>6, <1>7 DEF j

LEMMA FirstPackFits ==
  ASSUME DocTyped, NEW members, Together(members), members # {}
  PROVE  RowFits(members, 1, FirstPack(members))
<1> DEFINE c == Foremost(members)
           row == FirstPack(members)
<1>1. members \subseteq Shapes /\ IsFiniteSet(members) /\ \A m \in members : m.ids = <<m.ids[1]>>
  BY DEF Together
<1>2. c \in members
  <2>1. \A m \in members : m.start \in Nat /\ m.end \in Nat
    BY <1>1 DEF Shapes
  <2> HIDE DEF c
  <2> QED
    BY <2>1, ForemostIsOf DEF c
<1>3. c \in Shapes
  BY <1>1, <1>2
<1>4. row = [full |-> {}, last |-> Opened(c), rest |-> members \ {c}]
  BY DEF FirstPack
<1> HIDE DEF c, row
<1>5. Opened(c) \in [c : Shapes, tokens : Int, last : Nat, open : BOOLEAN] /\ Opened(c).c = c
  BY <1>3, OpenedShape
<1>6. row \in Rows(members)
  <2> DEFINE P == [c : Shapes, tokens : Int, last : Nat, open : BOOLEAN]
             S == Shapes
  <2>1. Opened(c) \in P
    BY <1>5
  <2> HIDE DEF P, S
  <2>2. row \in [full : SUBSET S, last : P, rest : SUBSET members]
    BY <1>4, <2>1
  <2> QED
    BY <2>2 DEF Rows, P, S
<1>7. Cardinality(row.rest) = Cardinality(members) - 1
  BY <1>1, <1>2, <1>4, FS_RemoveElement
<1>8. ASSUME NEW m \in members \ row.rest PROVE \E p \in row.full \cup {row.last.c} : Takes(p, m)
  <2>1. m = c /\ row.last.c = c
    BY <1>4, <1>5
  <2>2. Takes(c, c)
    BY <1>1, <1>2, <1>3, TakesItself
  <2> QED
    BY <2>1, <2>2
<1> QED
  BY <1>6, <1>7, <1>8 DEF RowFits, row

LEMMA PackedFits ==
  ASSUME DocTyped, NEW members, Together(members), NEW row \in Rows(members), row.rest # {}
  PROVE  /\ Packed(row) \in Rows(members)
         /\ \A n \in Int : RowFits(members, n, row) => RowFits(members, n + 1, Packed(row))
<1> DEFINE P == [c : Shapes, tokens : Int, last : Nat, open : BOOLEAN]
           S == Shapes
           c == Foremost(row.rest)
           joins == row.last.open /\ c.start - row.last.last <= cfg.maxGap /\ IsSmall(c)
           next == Packed(row)
           last == IF joins THEN Joined(row.last, c) ELSE Opened(c)
           full == IF joins THEN row.full ELSE row.full \cup {row.last.c}
<1>1. members \subseteq S /\ IsFiniteSet(members) /\ \A m \in members : m.ids = <<m.ids[1]>>
  BY DEF Together
<1>2. row \in [full : SUBSET S, last : P, rest : SUBSET members]
  BY DEF Rows
<1>3. row.full \subseteq S /\ row.last \in P /\ row.rest \subseteq members
  <2> HIDE DEF S, P
  <2> QED
    BY <1>2
<1>4. row.last.c \in S
  BY <1>3
<1>5. c \in row.rest
  <2>1. \A m \in row.rest : m.start \in Nat /\ m.end \in Nat
    BY <1>1, <1>3 DEF Shapes
  <2> HIDE DEF c
  <2> QED
    BY <2>1, ForemostIsOf DEF c
<1>6. c \in S /\ c.ids = <<c.ids[1]>>
  BY <1>1, <1>3, <1>5
<1>7. next = [full |-> full, last |-> last, rest |-> row.rest \ {c}]
  BY DEF Packed
<1> HIDE DEF c, joins, next
<1>8. last \in P /\ full \subseteq S
  <2>1. Opened(c) \in P /\ Joined(row.last, c) \in P
    BY <1>3, <1>6, OpenedShape, JoinedShape
  <2> HIDE DEF P, S
  <2> QED
    BY <1>3, <1>4, <2>1
<1>9. next \in Rows(members)
  <2>1. row.rest \ {c} \subseteq members
    BY <1>3
  <2> HIDE DEF P, S, last, full
  <2>2. next \in [full : SUBSET S, last : P, rest : SUBSET members]
    BY <1>7, <1>8, <2>1
  <2> QED
    BY <2>2 DEF Rows, P, S
<1>10. ASSUME NEW n \in Int, RowFits(members, n, row) PROVE RowFits(members, n + 1, next)
  <2>1. Cardinality(next.rest) = Cardinality(members) - (n + 1)
    <3>1. IsFiniteSet(row.rest)
      BY <1>1, <1>3, FS_Subset
    <3>2. Cardinality(row.rest \ {c}) = Cardinality(row.rest) - 1
      BY <1>5, <3>1, FS_RemoveElement
    <3>3. Cardinality(row.rest) = Cardinality(members) - n
      BY <1>10 DEF RowFits
    <3>4. Cardinality(members) \in Nat
      BY <1>1, FS_CardinalityType
    <3>5. next.rest = row.rest \ {c}
      BY <1>7
    <3> QED
      BY <3>2, <3>3, <3>4, <3>5
  <2>2. ASSUME NEW m \in members \ next.rest PROVE \E p \in next.full \cup {next.last.c} : Takes(p, m)
    <3>1. next.full = full /\ next.last = last /\ next.rest = row.rest \ {c}
      BY <1>7
    <3>2. m \in S
      BY <1>1
    <3>3. CASE m = c
      <4>1. Takes(c, c) /\ Takes(Joined(row.last, c).c, c)
        BY <1>3, <1>6, TakesItself, TakesBoth
      <4>2. Opened(c).c = c
        BY <1>6, OpenedShape
      <4>3. Takes(last.c, c)
        BY <4>1, <4>2
      <4> HIDE DEF last, full
      <4> QED
        BY <3>1, <3>3, <4>3
    <3>4. CASE m # c
      <4>1. m \in members \ row.rest
        BY <3>1, <3>4
      <4>2. PICK p \in row.full \cup {row.last.c} : Takes(p, m)
        BY <1>10, <4>1 DEF RowFits
      <4>3. CASE joins /\ p = row.last.c
        <5>1. Takes(Joined(row.last, c).c, m)
          BY <1>3, <1>6, <3>2, <4>2, <4>3, TakesBoth
        <5>2. Takes(last.c, m)
          BY <4>3, <5>1
        <5> HIDE DEF last, full
        <5> QED
          BY <3>1, <5>2
      <4>4. CASE ~(joins /\ p = row.last.c)
        <5>1. p \in full
          BY <4>2, <4>4
        <5> HIDE DEF last, full
        <5> QED
          BY <3>1, <4>2, <5>1
      <4> QED
        BY <4>3, <4>4
    <3> QED
      BY <3>3, <3>4
  <2> QED
    BY <1>9, <2>1, <2>2 DEF RowFits
<1> QED
  BY <1>9, <1>10 DEF next

LEMMA PackedSiblingsTake ==
  ASSUME DocTyped, NEW owner, Siblings(owner) # {}
  PROVE  /\ PackedSiblings(owner) \subseteq Shapes
         /\ \A c \in Siblings(owner) : \E p \in PackedSiblings(owner) : Takes(p, c)
<1> DEFINE members == Siblings(owner)
           count == Cardinality(members)
           value(g, n) == IF n = 1 THEN FirstPack(members) ELSE Packed(g[n - 1])
           row == CHOOSE g : g = [n \in 1 .. count |-> value(g, n)]
           V == Rows(members)
           after == [x \in (1 + 1 .. count) \X V |-> IF x[2].rest = {} THEN x[2] ELSE Packed(x[2])]
<1>1. PackedSiblings(owner) = row[count].full \cup {row[count].last.c}
  BY DEF PackedSiblings
<1>2. Together(members) /\ members # {}
  <2>1. members \subseteq Candidates
    BY DEF Siblings
  <2> QED
    BY <2>1, CandidatesShape, FS_Subset DEF Together
<1> HIDE DEF members
<1>3. count \in Nat /\ count > 0
  <2>1. IsFiniteSet(members)
    BY <1>2 DEF Together
  <2> QED
    BY <1>2, <2>1, FS_CardinalityType, FS_EmptySet
<1>4. RowFits(members, 1, FirstPack(members)) /\ FirstPack(members) \in V
  <2>1. RowFits(members, 1, FirstPack(members))
    BY <1>2, FirstPackFits
  <2> QED
    BY <2>1 DEF RowFits
<1>5. /\ \A r \in V : r.rest # {} => Packed(r) \in V
      /\ \A r \in V, n \in Int : r.rest # {} /\ RowFits(members, n, r) => RowFits(members, n + 1, Packed(r))
  BY <1>2, PackedFits
<1>6. ASSUME NEW n \in 1 .. count - 1, NEW r, RowFits(members, n, r) PROVE r \in V /\ r.rest # {}
  <2>1. r \in V /\ Cardinality(r.rest) = count - n
    BY <1>6 DEF RowFits
  <2>2. count - n # 0
    BY <1>3
  <2> QED
    BY <2>1, <2>2, FS_EmptySet
<1> HIDE DEF count, V
<1>7. ASSUME NEW g, g[1] = FirstPack(members),
             \A n \in 1 + 1 .. count : RowFits(members, n - 1, g[n - 1]) => g[n] = Packed(g[n - 1])
      PROVE  \A n \in 1 .. count : RowFits(members, n, g[n])
  <2> DEFINE T == {1}
             h == [n \in 1 .. count |-> IF RowFits(members, n, g[n]) THEN 1 ELSE 0]
  <2>1. h[1] \in T
    <3>1. RowFits(members, 1, g[1]) /\ 1 \in 1 .. count
      BY <1>3, <1>4, <1>7
    <3> QED
      BY <3>1
  <2>2. ASSUME NEW n \in 1 + 1 .. count, h[n - 1] \in T PROVE h[n] \in T
    <3>1. n - 1 \in 1 .. count - 1 /\ n - 1 \in 1 .. count /\ n \in 1 .. count /\ n - 1 \in Int /\ (n - 1) + 1 = n
      BY <1>3
    <3>2. RowFits(members, n - 1, g[n - 1])
      BY <2>2, <3>1
    <3>3. g[n] = Packed(g[n - 1])
      BY <1>7, <3>2
    <3>4. g[n - 1] \in V /\ g[n - 1].rest # {}
      BY <1>6, <3>1, <3>2
    <3>5. RowFits(members, (n - 1) + 1, Packed(g[n - 1]))
      BY <1>5, <3>1, <3>2, <3>4
    <3>6. RowFits(members, n, g[n])
      BY <3>1, <3>3, <3>5
    <3> QED
      BY <3>1, <3>6
  <2>3. 1 \in Int /\ count \in Int /\ 1 <= count
    BY <1>3
  <2>4. \A n \in 1 + 1 .. count : h[n - 1] \in T => h[n] \in T
    BY <2>2
  <2>5. \A n \in 1 .. count : h[n] = 1
    <3> HIDE DEF h
    <3>1. \A n \in 1 .. count : h[n] \in T
      <4> HIDE DEF T
      <4> QED
        BY <2>1, <2>3, <2>4, Along
    <3> QED
      BY <3>1
  <2> QED
    BY <2>5
<1>8. PICK f \in [1 .. count -> V] : Steps(f, 1, count, FirstPack(members), after)
  <2>1. after \in [(1 + 1 .. count) \X V -> V]
    <3>1. \A x \in (1 + 1 .. count) \X V : x[2] \in V /\ (x[2].rest # {} => Packed(x[2]) \in V)
      BY <1>5
    <3> QED
      BY <3>1
  <2>2. 1 \in Int /\ count \in Int /\ 1 <= count
    BY <1>3
  <2> HIDE DEF after
  <2> QED
    BY <1>4, <2>1, <2>2, StepsExist
<1>9. f = [n \in 1 .. count |-> value(f, n)]
  <2>1. f[1] = FirstPack(members)
    BY <1>8 DEF Steps
  <2>2. ASSUME NEW n \in 1 + 1 .. count, RowFits(members, n - 1, f[n - 1]) PROVE f[n] = Packed(f[n - 1])
    <3>1. n - 1 \in 1 .. count - 1 /\ n - 1 \in 1 .. count
      BY <1>3
    <3> DEFINE r == f[n - 1]
    <3>2. r \in V /\ r.rest # {}
      BY <1>6, <2>2, <3>1
    <3>3. f[n] = after[<<n, r>>]
      BY <1>8 DEF Steps
    <3> HIDE DEF r
    <3>4. after[<<n, r>>] = Packed(r)
      BY <3>2
    <3>5. f[n] = Packed(r)
      BY <3>3, <3>4
    <3> QED
      BY <3>5 DEF r
  <2>3. \A n \in 1 .. count : RowFits(members, n, f[n])
    BY <1>7, <2>1, <2>2
  <2>4. ASSUME NEW n \in 1 .. count PROVE f[n] = value(f, n)
    <3>1. CASE n = 1
      BY <2>1, <3>1
    <3>2. CASE n # 1
      <4>1. n \in 1 + 1 .. count /\ n - 1 \in 1 .. count
        BY <1>3, <3>2
      <4>2. f[n] = Packed(f[n - 1])
        BY <2>2, <2>3, <4>1
      <4> QED
        BY <3>2, <4>2
    <3> QED
      BY <3>1, <3>2
  <2> HIDE DEF value
  <2> QED
    BY <2>4
<1>10. row = [n \in 1 .. count |-> value(row, n)]
  <2> HIDE DEF value
  <2> QED
    BY <1>9
<1>11. row[1] = FirstPack(members) /\ \A n \in 1 + 1 .. count : row[n] = Packed(row[n - 1])
  <2>1. 1 \in 1 .. count /\ \A n \in 1 + 1 .. count : n \in 1 .. count /\ n # 1
    BY <1>3
  <2> HIDE DEF row
  <2>2. \A n \in 1 .. count : row[n] = value(row, n)
    BY <1>10
  <2> QED
    BY <2>1, <2>2
<1> HIDE DEF row
<1>12. RowFits(members, count, row[count])
  <2>1. \A n \in 1 .. count : RowFits(members, n, row[n])
    BY <1>7, <1>11
  <2> QED
    BY <1>3, <2>1
<1>13. row[count] \in V /\ Cardinality(row[count].rest) = 0
  <2>1. row[count] \in V /\ Cardinality(row[count].rest) = Cardinality(members) - count
    BY <1>12 DEF RowFits, V
  <2> QED
    BY <1>3, <2>1 DEF count
<1>14. row[count].rest = {}
  <2>1. row[count].rest \subseteq members
    BY <1>13 DEF V, Rows
  <2>2. IsFiniteSet(row[count].rest)
    BY <1>2, <2>1, FS_Subset DEF Together
  <2> QED
    BY <1>13, <2>2, FS_EmptySet
<1>15. row[count].full \cup {row[count].last.c} \subseteq Shapes
  <2> DEFINE S == Shapes
  <2>1. row[count] \in [full : SUBSET S, last : [c : S, tokens : Int, last : Nat, open : BOOLEAN], rest : SUBSET members]
    BY <1>13 DEF V, Rows
  <2> HIDE DEF S
  <2>2. row[count].full \subseteq S /\ row[count].last.c \in S
    BY <2>1
  <2> QED
    BY <2>2 DEF S
<1>16. \A c \in members : \E p \in row[count].full \cup {row[count].last.c} : Takes(p, c)
  BY <1>12, <1>14 DEF RowFits
<1> QED
  BY <1>1, <1>15, <1>16 DEF members

LEMMA PacksTake ==
  ASSUME DocTyped
  PROVE  /\ Packs \subseteq Shapes
         /\ \A c \in Candidates : \E p \in Packs : Takes(p, c)
<1>1. Candidates \subseteq Shapes /\ \A c \in Candidates : c.ids = <<c.ids[1]>>
  BY CandidatesShape
<1>2. \A c \in Candidates : Takes(c, c)
  BY <1>1, TakesItself
<1>3. CASE ~(cfg.functionLevel /\ cfg.merge)
  BY <1>1, <1>2, <1>3 DEF Packs
<1>4. CASE cfg.functionLevel /\ cfg.merge
  <2>1. Packs = {c \in Candidates : c.container} \cup
                UNION {PackedSiblings(c.owner) : c \in {c \in Candidates : ~c.container}}
    BY <1>4 DEF Packs
  <2>2. ASSUME NEW c \in Candidates, ~c.container
        PROVE  /\ PackedSiblings(c.owner) \subseteq Shapes
               /\ \E p \in PackedSiblings(c.owner) : Takes(p, c)
    <3>1. c \in Siblings(c.owner)
      BY <2>2 DEF Siblings
    <3> QED
      BY <3>1, PackedSiblingsTake
  <2>3. Packs \subseteq Shapes
    BY <1>1, <2>1, <2>2
  <2>4. ASSUME NEW c \in Candidates PROVE \E p \in Packs : Takes(p, c)
    <3>1. CASE c.container
      BY <1>2, <2>1, <3>1
    <3>2. CASE ~c.container
      BY <2>1, <2>2, <3>2
    <3> QED
      BY <3>1, <3>2
  <2> QED
    BY <2>3, <2>4
<1> QED
  BY <1>3, <1>4

-----------------------------------------------------------------------------
(* What is cut.                                                            *)

Spans == {s \in [ids : Seq(DefinedIds), eff : Nat, end : Nat] : s.eff < s.end /\ s.end <= Total}

LEMMA SpanShape ==
  ASSUME DocTyped, NEW ids \in Seq(DefinedIds), NEW a \in Nat, NEW b \in Nat, a < b, b <= Total
  PROVE  [ids |-> ids, eff |-> a, end |-> b] \in Spans
<1> DEFINE I == Seq(DefinedIds)
           s == [ids |-> ids, eff |-> a, end |-> b]
<1>1. ids \in I
  OBVIOUS
<1>2. s.eff = a /\ s.end = b
  OBVIOUS
<1>3. s \in [ids : I, eff : Nat, end : Nat]
  <2> HIDE DEF I
  <2> QED
    BY <1>1
<1> HIDE DEF s
<1>4. s \in Spans
  BY <1>2, <1>3 DEF Spans
<1> QED
  BY <1>4 DEF s

LEMMA AstWorkShape ==
  ASSUME DocTyped
  PROVE  /\ AstWork \subseteq Spans
         /\ \A c \in Candidates : \E s \in AstWork : Takes(s, c)
<1>1. ASSUME NEW p \in Packs
      PROVE  [ids |-> p.ids, eff |-> p.eff, end |-> p.end] \in Spans
  <2>1. p \in Shapes
    BY PacksTake
  <2>2. Total \in Nat
    BY DocShape
  <2>3. p.ids \in Seq(DefinedIds) /\ p.eff \in Nat /\ p.end \in Nat /\ p.eff < p.end /\ p.end <= Total
    BY <2>1, <2>2 DEF Shapes
  <2> QED
    BY <2>3, SpanShape
<1>2. ParentSpans \subseteq Spans
  <2> SUFFICES ASSUME NEW c \in Containers, NEW g \in Gaps(c)
               PROVE  [ids |-> <<c.id>>, eff |-> g[1], end |-> g[2]] \in Spans
    BY DEF ParentSpans
  <2> DEFINE lo == NodeRange(c)[1]
             hi == NodeRange(c)[2]
  <2>1. c \in doc.defs /\ LongEnough(c)
    BY DEF Containers
  <2>2. lo \in Nat /\ hi \in Nat /\ hi <= Total /\ Total \in Nat
    BY <2>1, RangeIsInText, DocShape
  <2>3. g \in (lo .. hi) \X (lo .. hi) /\ g[1] < g[2]
    BY DEF Gaps
  <2> HIDE DEF lo, hi
  <2>4. g[1] \in Nat /\ g[2] \in Nat /\ g[2] <= Total /\ g[1] < g[2]
    BY <2>2, <2>3
  <2>5. <<c.id>> \in Seq(DefinedIds)
    BY <2>1 DEF DefinedIds
  <2> QED
    BY <2>4, <2>5, SpanShape
<1>3. AstWork \subseteq Spans
  BY <1>1, <1>2 DEF AstWork
<1>4. ASSUME NEW c \in Candidates PROVE \E s \in AstWork : Takes(s, c)
  <2>1. PICK p \in Packs : Takes(p, c)
    BY PacksTake
  <2> DEFINE s == [ids |-> p.ids, eff |-> p.eff, end |-> p.end]
  <2>2. s \in AstWork
    BY DEF AstWork
  <2>3. s.ids = p.ids /\ s.eff = p.eff /\ s.end = p.end
    OBVIOUS
  <2> HIDE DEF s
  <2>4. Takes(s, c)
    BY <2>1, <2>3 DEF Takes
  <2> QED
    BY <2>2, <2>4
<1> QED
  BY <1>3, <1>4

LEMMA UntilIsBehind ==
  ASSUME DocTyped, NEW d \in Defined, d.def < Total
  PROVE  /\ Until(d) \in d.def + 1 .. Total
         /\ d = LastOn(d.def) => \A e \in Defined : e.def > d.def => Until(d) <= e.def
         /\ d = LastOn(d.def) =>
              \/ Until(d) = Total
              \/ \E e \in Defined : e.def > d.def /\ Until(d) = e.def
<1> DEFINE later == {e.def : e \in {e \in Defined : e.def > d.def}}
           S == {Total} \cup later
<1>1. Total \in Nat
  BY DocShape
<1>2. \A e \in Defined : e.def \in Nat
  BY DefinitionShape DEF Defined
<1>3. d.def \in Nat
  BY <1>2
<1>4. CASE d # LastOn(d.def)
  <2>1. Until(d) = d.def + 1
    BY <1>4 DEF Until
  <2> QED
    BY <1>1, <1>3, <1>4, <2>1
<1>5. CASE d = LastOn(d.def)
  <2>1. Until(d) = Min(S)
    BY <1>5 DEF Until
  <2>2. S \in SUBSET Nat /\ S # {} /\ \A x \in S : x > d.def
    BY <1>1, <1>2
  <2>3. Min(S) \in S /\ \A x \in S : Min(S) <= x
    <3> HIDE DEF S
    <3> QED
      BY <2>2, MinOfNumbers
  <2>4. Total \in S /\ \A e \in Defined : e.def > d.def => e.def \in S
    OBVIOUS
  <2>5. Min(S) \in Nat /\ Min(S) > d.def /\ Min(S) <= Total
    <3> HIDE DEF S
    <3> QED
      BY <2>2, <2>3, <2>4
  <2>6. \A e \in Defined : e.def > d.def => Min(S) <= e.def
    <3> HIDE DEF S
    <3> QED
      BY <2>3, <2>4
  <2>7. Min(S) = Total \/ \E e \in Defined : e.def > d.def /\ Min(S) = e.def
    BY <2>3
  <2> HIDE DEF S
  <2>8. Until(d) \in d.def + 1 .. Total
    BY <1>1, <1>3, <2>1, <2>5
  <2> QED
    BY <2>1, <2>6, <2>7, <2>8
<1> QED
  BY <1>4, <1>5

LEMMA DefinitionWorkShape ==
  ASSUME DocTyped
  PROVE  DefinitionWork \subseteq Spans
<1> SUFFICES ASSUME NEW d \in Defined, d.def < Total
             PROVE  [ids |-> <<d.id>>, eff |-> LeadingDoc(d.def), end |-> Until(d)] \in Spans
  BY DEF DefinitionWork
<1>1. d \in doc.defs
  BY DEF Defined
<1>2. d.def \in Nat /\ Total \in Nat
  BY <1>1, DefinitionShape, DocShape
<1>3. LeadingDoc(d.def) \in 0 .. d.def
  BY <1>2, DocIsAbove
<1>4. Until(d) \in d.def + 1 .. Total
  BY UntilIsBehind
<1>5. <<d.id>> \in Seq(DefinedIds)
  BY <1>1 DEF DefinedIds
<1>6. LeadingDoc(d.def) \in Nat /\ Until(d) \in Nat /\ LeadingDoc(d.def) < Until(d) /\ Until(d) <= Total
  BY <1>2, <1>3, <1>4
<1> QED
  BY <1>5, <1>6, SpanShape

(* From a definition to the end of the document no line is left out.       *)
LEMMA DefinitionsReachTheEnd ==
  ASSUME DocTyped, NEW d \in Defined, d.def < Total, NEW l \in LeadingDoc(d.def) .. Total - 1
  PROVE  \E s \in DefinitionWork : l \in s.eff .. s.end - 1
<1>1. Total \in Nat /\ \A e \in Defined : e.def \in Nat
  BY DocShape, DefinitionShape DEF Defined
<1>2. \A e \in Defined : e.def < Total =>
        /\ LeadingDoc(e.def) \in 0 .. e.def
        /\ [ids |-> <<e.id>>, eff |-> LeadingDoc(e.def), end |-> Until(e)] \in DefinitionWork
  BY <1>1, DocIsAbove DEF DefinitionWork
<1>l. l \in Nat
  <2>1. LeadingDoc(d.def) \in 0 .. d.def
    BY <1>2
  <2>2. LeadingDoc(d.def) \in Nat
    BY <2>1
  <2> QED
    BY <1>1, <2>2
<1>3. CASE l < d.def
  <2>1. Until(d) \in d.def + 1 .. Total
    BY UntilIsBehind
  <2>2. l \in LeadingDoc(d.def) .. Until(d) - 1
    BY <1>1, <1>2, <1>3, <2>1
  <2> QED
    BY <1>2, <2>2
<1>4. CASE ~(l < d.def)
  <2> DEFINE S == {e.def : e \in {e \in Defined : e.def <= l}}
             e == LastOn(Max(S))
  <2>1. S \subseteq 0 .. l /\ S # {}
    <3>1. d.def \in Nat /\ d.def <= l
      BY <1>1, <1>l, <1>4
    <3>2. d.def \in S
      BY <3>1
    <3>3. \A x \in Defined : x.def <= l => x.def \in 0 .. l
      BY <1>1, <1>l
    <3> QED
      BY <3>2, <3>3
  <2>2. Max(S) \in S /\ \A x \in S : x <= Max(S)
    <3> HIDE DEF S
    <3> QED
      BY <1>l, <2>1, MaxOfNumbers
  <2>3. e \in Defined /\ e.def = Max(S)
    <3>1. \E x \in Defined : x.def = Max(S)
      BY <2>2
    <3> HIDE DEF S
    <3> QED
      BY <3>1 DEF LastOn
  <2>4. e.def \in Nat /\ e.def <= l /\ e.def < Total /\ e = LastOn(e.def)
    <3>1. Max(S) \in 0 .. l
      BY <2>1, <2>2
    <3> HIDE DEF S
    <3> QED
      BY <1>1, <1>l, <2>3, <3>1
  <2>5. \A x \in Defined : x.def > e.def => x.def > l
    <3> SUFFICES ASSUME NEW x \in Defined, x.def <= l PROVE x.def <= e.def
      <4>1. \A x \in Defined : x.def \in Nat
        BY <1>1
      <4> HIDE DEF e
      <4> QED
        BY <1>l, <2>4, <4>1
    <3>1. x.def \in S
      OBVIOUS
    <3> HIDE DEF S
    <3> QED
      BY <2>2, <2>3, <3>1
  <2> HIDE DEF S, e
  <2>6. Until(e) > l
    <3>1. Until(e) = Total \/ \E x \in Defined : x.def > e.def /\ Until(e) = x.def
      BY <2>3, <2>4, UntilIsBehind
    <3> QED
      BY <1>1, <1>l, <2>5, <3>1
  <2>7. Until(e) \in Nat /\ LeadingDoc(e.def) \in 0 .. e.def
    <3>1. Until(e) \in e.def + 1 .. Total
      BY <2>3, <2>4, UntilIsBehind
    <3>2. LeadingDoc(e.def) \in 0 .. e.def
      BY <1>2, <2>3, <2>4
    <3> QED
      BY <1>1, <2>4, <3>1, <3>2
  <2>8. l \in LeadingDoc(e.def) .. Until(e) - 1
    BY <1>l, <2>4, <2>6, <2>7
  <2> QED
    BY <1>2, <2>3, <2>4, <2>8
<1> QED
  BY <1>3, <1>4

LEMMA WholeWorkShape ==
  ASSUME DocTyped, Total > 0
  PROVE  WholeWork \subseteq Spans
<1>1. Total \in Nat /\ 0 \in Nat /\ 0 < Total /\ Total <= Total
  BY DocShape
<1>e. <<>> \in Seq(DefinedIds)
  OBVIOUS
<1>2. [ids |-> <<>>, eff |-> 0, end |-> Total] \in Spans
  BY <1>1, <1>e, SpanShape
<1> QED
  BY <1>2 DEF WholeWork

-----------------------------------------------------------------------------
(* A step that leaves the document and the settings leaves what is made of *)
(* them.                                                                   *)

LEMMA SameText ==
  ASSUME doc' = doc, cfg' = cfg
  PROVE  Total' = Total /\ (\A i, j : Weight(i, j)' = Weight(i, j)) /\ (\A i, j : Text(i, j)' = Text(i, j))
<1>1. Total' = Total
  BY DEF Total
<1>2. ASSUME NEW i, NEW j PROVE Weight(i, j)' = Weight(i, j)
  BY DEF Weight, Line
<1>3. ASSUME NEW i, NEW j PROVE Text(i, j)' = Text(i, j)
  BY DEF Text, Line
<1> QED
  BY <1>1, <1>2, <1>3

LEMMA SameFields ==
  ASSUME doc' = doc, cfg' = cfg
  PROVE  MetadataTokens' = MetadataTokens
BY DEF MetadataTokens, MetadataTarget, SourceTarget

LEMMA SameCandidates ==
  ASSUME doc' = doc, cfg' = cfg
  PROVE  Candidates' = Candidates
BY SMTT(30) DEF Candidates, AllCandidates, Candidate, Chunked, LongEnough, NodeRange, Total, AstSpans, LeadingDoc, Line

LEMMA SameAstWork ==
  ASSUME doc' = doc, cfg' = cfg
  PROVE  AstWork' = AstWork
<1>1. Candidates' = Candidates
  BY SameCandidates
<1>2. \A d : NodeRange(d)' = NodeRange(d) /\ LongEnough(d)' = LongEnough(d)
  BY DEF LongEnough, NodeRange, Total, AstSpans
<1>3. \A o : PackedSiblings(o)' = PackedSiblings(o)
  <2> SUFFICES ASSUME NEW o PROVE PackedSiblings(o)' = PackedSiblings(o)
    OBVIOUS
  <2>1. Siblings(o)' = Siblings(o)
    BY <1>1 DEF Siblings
  <2> QED
    BY <2>1 DEF PackedSiblings, Packed, FirstPack, Joined, Opened, IsSmall, SpanTokens, Weight, Line
<1>4. Packs' = Packs
  BY <1>1, <1>3 DEF Packs
<1>5. Containers' = Containers
  BY <1>2 DEF Containers
<1>6. \A c : Taken(c)' = Taken(c)
  BY <1>2, <1>4, <1>5 DEF Taken, Inside
<1>7. \A c : Gaps(c)' = Gaps(c)
  BY <1>2, <1>6 DEF Gaps
<1>8. \A g : Kept(g)' = Kept(g)
  BY SameText DEF Kept
<1>9. ParentSpans' = ParentSpans
  BY <1>5, <1>7, <1>8 DEF ParentSpans
<1> QED
  BY <1>4, <1>9 DEF AstWork

LEMMA SameOtherWork ==
  ASSUME doc' = doc, cfg' = cfg
  PROVE  DefinitionWork' = DefinitionWork /\ WholeWork' = WholeWork /\ Defined' = Defined /\ (\A d : LeadingDoc(d)' = LeadingDoc(d))
BY DEF DefinitionWork, WholeWork, Total, Defined, Chunked, LeadingDoc, Line, Until, LastOn

-----------------------------------------------------------------------------
(* The invariant of the cut: what is not behind the cursor of a span that  *)
(* is still to cut is in a piece of its span, and of those spans only the  *)
(* first has pieces, all of which start behind the cursor.                 *)

OfSpan(p, s) == p.ids = s.ids /\ p.span = <<s.eff, s.end>>

Cursor(s) == IF s = First(todo) THEN at ELSE s.eff

Covered(spans) ==
  \A s \in spans : \A l \in Text(s.eff, s.end) :
    \/ \E p \in pieces : OfSpan(p, s) /\ l \in p.from .. p.to - 1
    \/ s \in todo /\ l >= Cursor(s)

Cutting(spans) == todo \subseteq spans /\ Covered(spans)

PieceFitsBudget(p) ==
  /\ p.from \in Nat
  /\ Weight(p.from, p.to) + MetadataTokens <= cfg.target \/ p.to = p.from + 1
  /\ p.span[1] <= p.from /\ p.to <= p.span[2]

(* Where the nodes of the syntax tree gave no piece there was no text.     *)
NoCandidateHasText ==
  cfg.strategy = "ast" => \A c \in Candidates : Text(c.start, c.end) = {}

AtStep ==
  /\ step = "start" => todo = {} /\ pieces = {}
  /\ step = "ast" => Cutting(AstWork)
  /\ step = "spans" =>
       Cutting(DefinitionWork) /\ MayUseDefinitions /\ doc.defs # {} /\ NoCandidateHasText
  /\ step = "whole" => Cutting(WholeWork) /\ NoCandidateHasText
  /\ step = "done" => todo = {} /\ TextIsFound

CutInv ==
  /\ DocTyped
  /\ step \in {"start", "ast", "spans", "whole", "done"}
  /\ step # "start" => Total > 0
  /\ todo \subseteq Spans
  /\ todo # {} => at \in Nat /\ First(todo).eff <= at /\ at < First(todo).end
  /\ \A s \in todo : \A p \in pieces : OfSpan(p, s) => s = First(todo) /\ p.from < at
  /\ \A p \in pieces : PieceFitsBudget(p)
  /\ AtStep

LEMMA SameSpans ==
  ASSUME doc' = doc, cfg' = cfg
  PROVE  Spans' = Spans /\ DocTyped' = DocTyped /\ MayUseDefinitions' = MayUseDefinitions
BY DEF Spans, DefinedIds, Total, DocTyped, MayUseDefinitions

LEMMA SpanIsText ==
  ASSUME DocTyped, NEW s \in Spans
  PROVE  /\ s.eff \in Nat /\ s.end \in Nat /\ s.eff < s.end /\ s.end <= Total
         /\ s.end \in 0 .. Total
<1>1. Total \in Nat
  BY DocShape
<1> QED
  BY <1>1 DEF Spans

LEMMA SpansDiffer ==
  ASSUME NEW s \in Spans, NEW t \in Spans, s.ids = t.ids, s.eff = t.eff, s.end = t.end
  PROVE  s = t
<1> DEFINE I == Seq(DefinedIds)
<1>1. s \in [ids : I, eff : Nat, end : Nat] /\ t \in [ids : I, eff : Nat, end : Nat]
  BY DEF Spans
<1> HIDE DEF I
<1> QED
  BY <1>1

LEMMA FirstOfTodo ==
  ASSUME DocTyped, NEW S, S \subseteq Spans, S # {}
  PROVE  First(S) \in S /\ First(S) \in Spans
<1>1. \A s \in S : s.eff \in Nat /\ s.end \in Nat
  BY SpanIsText
<1>2. First(S) \in S
  BY <1>1, FirstIsOf
<1> QED
  BY <1>2

LEMMA CutInitInv ==
  ASSUME CutInit
  PROVE  CutInv
BY DEF CutInit, CutInv, DocTyped, AtStep

(* Work is laid out when there is no piece.                                *)
LEMMA WorkKeeps ==
  ASSUME CutInv, NEW next \in {"ast", "spans", "whole"}, NEW spans, spans \subseteq Spans,
         Work(next, spans), pieces = {}, Total > 0
  PROVE  /\ DocTyped'
         /\ step' = next /\ todo' = spans /\ pieces' = {} /\ doc' = doc /\ cfg' = cfg
         /\ (step # "start" => Total > 0)'
         /\ (todo \subseteq Spans)'
         /\ (todo # {} => at \in Nat /\ First(todo).eff <= at /\ at < First(todo).end)'
         /\ (\A s \in todo : \A p \in pieces : OfSpan(p, s) => s = First(todo) /\ p.from < at)'
         /\ (\A p \in pieces : PieceFitsBudget(p))'
         /\ \A s \in spans : \A l \in Text(s.eff, s.end) :
              s \in todo' /\ l >= IF s = First(todo') THEN at' ELSE s.eff
<1>1. /\ step' = next /\ todo' = spans /\ pieces' = {} /\ doc' = doc /\ cfg' = cfg
      /\ at' = StartOf(spans)
  BY DEF Work
<1>2. DocTyped /\ DocTyped' /\ Spans' = Spans
  BY <1>1, SameSpans DEF CutInv
<1>3. Total' = Total
  BY <1>1 DEF Total
<1>4. ASSUME spans # {}
      PROVE  /\ First(spans) \in spans /\ at' = First(spans).eff /\ at' \in Nat /\ at' < First(spans).end
  <2>1. First(spans) \in spans /\ First(spans) \in Spans
    BY <1>2, <1>4, FirstOfTodo
  <2>2. at' = First(spans).eff
    BY <1>1, <1>4 DEF StartOf
  <2> QED
    BY <1>2, <2>1, <2>2, SpanIsText
<1>5. (todo # {} => at \in Nat /\ First(todo).eff <= at /\ at < First(todo).end)'
  <2> SUFFICES ASSUME spans # {}
               PROVE  at' \in Nat /\ First(spans).eff <= at' /\ at' < First(spans).end
    BY <1>1
  <2> QED
    BY <1>4
<1>6. ASSUME NEW s \in spans, NEW l \in Text(s.eff, s.end)
      PROVE  s \in todo' /\ l >= IF s = First(todo') THEN at' ELSE s.eff
  <2>1. s \in Spans
    OBVIOUS
  <2>2. s.eff \in Nat /\ l \in s.eff .. s.end - 1
    BY <1>2, <2>1, SpanIsText DEF Text
  <2>3. l >= s.eff
    BY <1>2, <2>1, <2>2, SpanIsText
  <2>4. s = First(spans) => at' = s.eff
    BY <1>4
  <2> QED
    BY <1>1, <2>3, <2>4
<1> QED
  BY <1>1, <1>2, <1>3, <1>5, <1>6

LEMMA ByAstKeeps ==
  ASSUME CutInv, ByAst
  PROVE  CutInv'
<1>1. step = "start" /\ Total > 0 /\ Work("ast", AstWork)
  BY DEF ByAst
<1>2. pieces = {} /\ DocTyped
  BY <1>1 DEF CutInv, AtStep
<1>3. AstWork \subseteq Spans
  BY <1>2, AstWorkShape
<1> DEFINE W == AstWork
<1> HIDE DEF W
<1>4. /\ DocTyped'
      /\ step' = "ast" /\ todo' = W /\ pieces' = {} /\ doc' = doc /\ cfg' = cfg
      /\ (step # "start" => Total > 0)'
      /\ (todo \subseteq Spans)'
      /\ (todo # {} => at \in Nat /\ First(todo).eff <= at /\ at < First(todo).end)'
      /\ (\A s \in todo : \A p \in pieces : OfSpan(p, s) => s = First(todo) /\ p.from < at)'
      /\ (\A p \in pieces : PieceFitsBudget(p))'
      /\ \A s \in W : \A l \in Text(s.eff, s.end) :
           s \in todo' /\ l >= IF s = First(todo') THEN at' ELSE s.eff
  <2>1. Work("ast", W) /\ W \subseteq Spans /\ "ast" \in {"ast", "spans", "whole"}
    BY <1>1, <1>3 DEF W
  <2> QED
    BY <1>1, <1>2, <2>1, WorkKeeps
<1>5. AstWork' = W /\ \A i, j : Text(i, j)' = Text(i, j)
  BY <1>4, SameText, SameAstWork DEF W
<1>6. Cutting(AstWork)'
  BY <1>4, <1>5 DEF Cutting, Covered, Cursor
<1>7. AtStep'
  BY <1>4, <1>6 DEF AtStep
<1> QED
  BY <1>4, <1>7 DEF CutInv

(* When the nodes of the syntax tree are done and there is no piece, or    *)
(* when they were not asked for.                                           *)
LEMMA NoAstChunksFacts ==
  ASSUME CutInv, NoAstChunks
  PROVE  Total > 0 /\ pieces = {} /\ todo = {} /\ DocTyped /\ NoCandidateHasText
<1>1. DocTyped
  BY DEF CutInv
<1>2. CASE step = "start" /\ Total > 0 /\ ~(cfg.strategy = "ast" /\ doc.defs # {})
  <2>1. cfg.strategy = "ast" => Candidates = {}
    BY <1>2 DEF Candidates, AllCandidates
  <2> QED
    BY <1>1, <1>2, <2>1 DEF CutInv, AtStep, NoCandidateHasText
<1>3. CASE step = "ast" /\ todo = {} /\ pieces = {}
  <2>1. Total > 0 /\ Covered(AstWork)
    BY <1>3 DEF CutInv, AtStep, Cutting
  <2>2. \A s \in AstWork : Text(s.eff, s.end) = {}
    BY <1>3, <2>1 DEF Covered
  <2>3. ASSUME NEW c \in Candidates PROVE Text(c.start, c.end) = {}
    <3>1. PICK s \in AstWork : Takes(s, c)
      BY <1>1, AstWorkShape
    <3>2. s \in Spans /\ c \in Shapes
      BY <1>1, AstWorkShape, CandidatesShape
    <3>3. s.eff \in Nat /\ s.end \in Nat
      BY <1>1, <3>2, SpanIsText
    <3>4. c.eff \in Nat /\ c.start \in Nat /\ c.end \in Nat /\ c.eff <= c.start
      BY <3>2 DEF Shapes
    <3>5. s.eff <= c.eff /\ c.end <= s.end
      BY <3>1 DEF Takes
    <3>6. \A l \in c.start .. c.end - 1 : l \in s.eff .. s.end - 1
      BY <3>3, <3>4, <3>5
    <3> QED
      BY <2>2, <3>6 DEF Text
  <2> QED
    BY <1>1, <1>3, <2>1, <2>3 DEF NoCandidateHasText
<1> QED
  BY <1>2, <1>3 DEF NoAstChunks

LEMMA SameNoCandidateHasText ==
  ASSUME doc' = doc, cfg' = cfg, NoCandidateHasText
  PROVE  NoCandidateHasText'
BY SameCandidates, SameText DEF NoCandidateHasText

LEMMA ByDefinitionsKeeps ==
  ASSUME CutInv, ByDefinitions
  PROVE  CutInv'
<1>1. NoAstChunks /\ MayUseDefinitions /\ doc.defs # {} /\ Work("spans", DefinitionWork)
  BY DEF ByDefinitions
<1>2. pieces = {} /\ DocTyped /\ Total > 0 /\ NoCandidateHasText
  BY <1>1, NoAstChunksFacts
<1>3. DefinitionWork \subseteq Spans
  BY <1>2, DefinitionWorkShape
<1> DEFINE W == DefinitionWork
<1> HIDE DEF W
<1>4. /\ DocTyped'
      /\ step' = "spans" /\ todo' = W /\ pieces' = {} /\ doc' = doc /\ cfg' = cfg
      /\ (step # "start" => Total > 0)'
      /\ (todo \subseteq Spans)'
      /\ (todo # {} => at \in Nat /\ First(todo).eff <= at /\ at < First(todo).end)'
      /\ (\A s \in todo : \A p \in pieces : OfSpan(p, s) => s = First(todo) /\ p.from < at)'
      /\ (\A p \in pieces : PieceFitsBudget(p))'
      /\ \A s \in W : \A l \in Text(s.eff, s.end) :
           s \in todo' /\ l >= IF s = First(todo') THEN at' ELSE s.eff
  <2>1. Work("spans", W) /\ W \subseteq Spans /\ "spans" \in {"ast", "spans", "whole"}
    BY <1>1, <1>3 DEF W
  <2> QED
    BY <1>2, <2>1, WorkKeeps
<1>5. DefinitionWork' = W /\ \A i, j : Text(i, j)' = Text(i, j)
  BY <1>4, SameText, SameOtherWork DEF W
<1>6. Cutting(DefinitionWork)'
  BY <1>4, <1>5 DEF Cutting, Covered, Cursor
<1>7. MayUseDefinitions' /\ (doc.defs # {})' /\ NoCandidateHasText'
  BY <1>1, <1>2, <1>4, SameSpans, SameNoCandidateHasText
<1>8. AtStep'
  BY <1>4, <1>6, <1>7 DEF AtStep
<1> QED
  BY <1>4, <1>8 DEF CutInv

LEMMA WholeKeeps ==
  ASSUME CutInv, Whole
  PROVE  CutInv'
<1>1. NoAstChunks /\ Work("whole", WholeWork)
  BY DEF Whole
<1>2. pieces = {} /\ DocTyped /\ Total > 0 /\ NoCandidateHasText
  BY <1>1, NoAstChunksFacts
<1>3. WholeWork \subseteq Spans
  BY <1>2, WholeWorkShape
<1> DEFINE W == WholeWork
<1> HIDE DEF W
<1>4. /\ DocTyped'
      /\ step' = "whole" /\ todo' = W /\ pieces' = {} /\ doc' = doc /\ cfg' = cfg
      /\ (step # "start" => Total > 0)'
      /\ (todo \subseteq Spans)'
      /\ (todo # {} => at \in Nat /\ First(todo).eff <= at /\ at < First(todo).end)'
      /\ (\A s \in todo : \A p \in pieces : OfSpan(p, s) => s = First(todo) /\ p.from < at)'
      /\ (\A p \in pieces : PieceFitsBudget(p))'
      /\ \A s \in W : \A l \in Text(s.eff, s.end) :
           s \in todo' /\ l >= IF s = First(todo') THEN at' ELSE s.eff
  <2>1. Work("whole", W) /\ W \subseteq Spans /\ "whole" \in {"ast", "spans", "whole"}
    BY <1>1, <1>3 DEF W
  <2> QED
    BY <1>2, <2>1, WorkKeeps
<1>5. WholeWork' = W /\ \A i, j : Text(i, j)' = Text(i, j)
  BY <1>4, SameText, SameOtherWork DEF W
<1>6. Cutting(WholeWork)'
  BY <1>4, <1>5 DEF Cutting, Covered, Cursor
<1>7. NoCandidateHasText'
  BY <1>2, <1>4, SameNoCandidateHasText
<1>8. AtStep'
  BY <1>4, <1>6, <1>7 DEF AtStep
<1> QED
  BY <1>4, <1>8 DEF CutInv

(* What TextIsFound says of the end, said of the pieces there are.         *)
FunctionsFound ==
  cfg.strategy = "ast" =>
    \A c \in Candidates : \A l \in Text(c.start, c.end) : InPiece(c.ids[1], l)

SomethingFound ==
  \/ pieces # {} \/ Text(0, Total) = {}
  \/ /\ MayUseDefinitions /\ doc.defs # {}
     /\ \A d \in Defined : d.def < Total => Text(LeadingDoc(d.def), Total) = {}

LEMMA AstFindsFunctions ==
  ASSUME DocTyped, Covered(AstWork), todo = {}
  PROVE  FunctionsFound
<1> SUFFICES ASSUME NEW c \in Candidates, NEW l \in Text(c.start, c.end)
             PROVE  InPiece(c.ids[1], l)
  BY DEF FunctionsFound
<1>1. PICK s \in AstWork : Takes(s, c)
  BY AstWorkShape
<1>2. s \in Spans /\ c \in Shapes
  BY <1>1, AstWorkShape, CandidatesShape
<1>3. s.eff \in Nat /\ s.end \in Nat
  BY <1>2, SpanIsText
<1>4. c.eff \in Nat /\ c.start \in Nat /\ c.end \in Nat /\ c.eff <= c.start
  BY <1>2 DEF Shapes
<1>5. s.eff <= c.eff /\ c.end <= s.end /\ c.ids[1] \in Range(s.ids)
  BY <1>1 DEF Takes
<1>6. l \in Text(s.eff, s.end)
  <2>1. l \in c.start .. c.end - 1 /\ Line(l) # "blank"
    BY DEF Text
  <2>2. l \in s.eff .. s.end - 1
    BY <1>3, <1>4, <1>5, <2>1
  <2> QED
    BY <2>1, <2>2 DEF Text
<1>7. PICK p \in pieces : OfSpan(p, s) /\ l \in p.from .. p.to - 1
  BY <1>1, <1>6 DEF Covered
<1>8. p.ids = s.ids
  BY <1>7 DEF OfSpan
<1> QED
  BY <1>5, <1>7, <1>8 DEF InPiece

LEMMA DefinitionsFindSomething ==
  ASSUME DocTyped, Covered(DefinitionWork), todo = {}, MayUseDefinitions, doc.defs # {}
  PROVE  SomethingFound
<1> SUFFICES ASSUME pieces = {}, NEW d \in Defined, d.def < Total, NEW l \in Text(LeadingDoc(d.def), Total)
             PROVE  FALSE
  BY DEF SomethingFound
<1>1. l \in LeadingDoc(d.def) .. Total - 1 /\ Line(l) # "blank"
  BY DEF Text
<1>2. PICK s \in DefinitionWork : l \in s.eff .. s.end - 1
  BY <1>1, DefinitionsReachTheEnd
<1>3. l \in Text(s.eff, s.end)
  BY <1>1, <1>2 DEF Text
<1> QED
  BY <1>2, <1>3 DEF Covered

LEMMA WholeFindsSomething ==
  ASSUME Covered(WholeWork), todo = {}
  PROVE  SomethingFound
<1> DEFINE s == [ids |-> <<>>, eff |-> 0, end |-> Total]
<1>1. s \in WholeWork /\ s.eff = 0 /\ s.end = Total
  BY DEF WholeWork
<1> HIDE DEF s
<1>2. \A l \in Text(0, Total) : \E p \in pieces : OfSpan(p, s)
  BY <1>1 DEF Covered
<1> QED
  BY <1>2 DEF SomethingFound

LEMMA CardsKeeps ==
  ASSUME CutInv, Cards
  PROVE  CutInv'
<1>1. /\ todo = {} /\ step' = "done"
      /\ (step \in {"spans", "whole"} \/ (step = "ast" /\ pieces # {}))
      /\ doc' = doc /\ cfg' = cfg /\ todo' = todo /\ at' = at /\ pieces' = pieces
  BY DEF Cards
<1>2. DocTyped /\ AtStep /\ (step # "start" => Total > 0)
  BY DEF CutInv
<1>3. FunctionsFound /\ SomethingFound
  <2>1. CASE step = "ast"
    <3>1. FunctionsFound
      BY <1>1, <1>2, <2>1, AstFindsFunctions DEF AtStep, Cutting
    <3> QED
      BY <1>1, <2>1, <3>1 DEF SomethingFound
  <2>2. CASE step = "spans"
    <3>1. FunctionsFound
      BY <1>2, <2>2 DEF AtStep, NoCandidateHasText, FunctionsFound
    <3> QED
      BY <1>1, <1>2, <2>2, <3>1, DefinitionsFindSomething DEF AtStep, Cutting
  <2>3. CASE step = "whole"
    <3>1. FunctionsFound
      BY <1>2, <2>3 DEF AtStep, NoCandidateHasText, FunctionsFound
    <3> QED
      BY <1>1, <1>2, <2>3, <3>1, WholeFindsSomething DEF AtStep, Cutting
  <2> QED
    BY <1>1, <2>1, <2>2, <2>3
<1>4. /\ Candidates' = Candidates /\ (\A i, j : Text(i, j)' = Text(i, j)) /\ Total' = Total
      /\ Defined' = Defined /\ (\A d : LeadingDoc(d)' = LeadingDoc(d))
      /\ DocTyped' = DocTyped /\ MayUseDefinitions' = MayUseDefinitions /\ Spans' = Spans
      /\ MetadataTokens' = MetadataTokens /\ \A i, j : Weight(i, j)' = Weight(i, j)
  BY <1>1, SameCandidates, SameText, SameOtherWork, SameSpans, SameFields
<1>5. \A id, l : InPiece(id, l)' = InPiece(id, l)
  BY <1>1 DEF InPiece
<1>6. FunctionsFound' /\ SomethingFound'
  <2>1. FunctionsFound'
    BY <1>1, <1>3, <1>4, <1>5 DEF FunctionsFound
  <2>2. SomethingFound'
    BY <1>1, <1>3, <1>4 DEF SomethingFound
  <2> QED
    BY <2>1, <2>2
<1>7. TextIsFound'
  BY <1>6 DEF TextIsFound, FunctionsFound, SomethingFound
<1>8. AtStep'
  BY <1>1, <1>7 DEF AtStep
<1>9. (\A p \in pieces : PieceFitsBudget(p))'
  <2>1. \A p \in pieces : PieceFitsBudget(p)
    BY DEF CutInv
  <2> QED
    BY <1>1, <1>4, <2>1 DEF PieceFitsBudget
<1>10. DocTyped' /\ Total' > 0 /\ todo' = {}
  BY <1>1, <1>2, <1>4
<1> QED
  BY <1>1, <1>8, <1>9, <1>10 DEF CutInv

(* A cut takes the lines from the cursor to the end of a piece; the cursor *)
(* goes on behind the start of the piece and no further than its end.      *)
LEMMA CutStep ==
  ASSUME CutInv, Cut
  PROVE  LET span == First(todo)
             to == PieceEnd(at, span.end)
             new == [ids |-> span.ids, span |-> <<span.eff, span.end>>, from |-> at, to |-> to]
         IN  /\ doc' = doc /\ cfg' = cfg /\ step' = step
             /\ span \in todo /\ span \in Spans /\ span.eff \in Nat /\ span.end \in 0 .. Total
             /\ at \in Nat /\ span.eff <= at /\ at < span.end
             /\ to \in at + 1 .. span.end
             /\ to # at + 1 => Weight(at, to) <= SourceTarget
             /\ \/ pieces' = pieces /\ Text(at, to) = {}
                \/ pieces' = pieces \cup {new}
             /\ \/ todo' = todo /\ at' \in at + 1 .. to
                \/ /\ todo' = todo \ {span} /\ to = span.end
                   /\ todo' # {} => at' = First(todo').eff /\ First(todo') \in todo'
<1> DEFINE span == First(todo)
           to == PieceEnd(at, span.end)
           new == [ids |-> span.ids, span |-> <<span.eff, span.end>>, from |-> at, to |-> to]
<1>1. /\ todo # {} /\ doc' = doc /\ cfg' = cfg /\ step' = step
      /\ pieces' = IF Text(at, to) = {} THEN pieces ELSE pieces \cup {new}
      /\ IF to < span.end
           THEN at' = NextStart(at, to) /\ todo' = todo
           ELSE todo' = todo \ {span} /\ at' = StartOf(todo \ {span})
  BY DEF Cut
<1>2. DocTyped /\ todo \subseteq Spans /\ at \in Nat /\ span.eff <= at /\ at < span.end
  BY <1>1 DEF CutInv
<1>3. span \in todo /\ span \in Spans
  BY <1>1, <1>2, FirstOfTodo
<1>4. span.eff \in Nat /\ span.end \in 0 .. Total
  BY <1>2, <1>3, SpanIsText
<1>5. to \in at + 1 .. span.end /\ (to # at + 1 => Weight(at, to) <= SourceTarget)
  BY <1>2, <1>4, PieceFits
<1>6. ASSUME todo' # {}, todo' = todo \ {span} PROVE First(todo') \in todo'
  <2> DEFINE S == todo'
  <2>1. S \subseteq Spans /\ S # {}
    BY <1>2, <1>6
  <2> HIDE DEF S
  <2>2. First(S) \in S
    BY <1>2, <2>1, FirstOfTodo
  <2> QED
    BY <2>2 DEF S
<1> HIDE DEF span, to, new
<1>7. CASE to < span.end
  <2>1. to \in Nat /\ at < to
    BY <1>2, <1>4, <1>5
  <2>2. NextStart(at, to) \in at + 1 .. to
    BY <1>2, <2>1, NextIsWithin
  <2>3. todo' = todo /\ at' \in at + 1 .. to
    BY <1>1, <1>7, <2>2
  <2> QED
    BY <1>1, <1>2, <1>3, <1>4, <1>5, <2>3 DEF span, to, new
<1>8. CASE ~(to < span.end)
  <2>1. to = span.end
    BY <1>2, <1>4, <1>5, <1>8
  <2>2. todo' = todo \ {span} /\ at' = StartOf(todo')
    BY <1>1, <1>8
  <2>3. todo' # {} => at' = First(todo').eff /\ First(todo') \in todo'
    BY <1>6, <2>2 DEF StartOf
  <2> QED
    BY <1>1, <1>2, <1>3, <1>4, <1>5, <2>1, <2>2, <2>3 DEF span, to, new
<1> QED
  BY <1>7, <1>8

LEMMA CutCovers ==
  ASSUME CutInv, Cut, NEW spans, Cutting(spans)
  PROVE  /\ todo' \subseteq spans
         /\ \A s \in spans : \A l \in Text(s.eff, s.end) :
              \/ \E p \in pieces' : OfSpan(p, s) /\ l \in p.from .. p.to - 1
              \/ s \in todo' /\ l >= IF s = First(todo') THEN at' ELSE s.eff
<1> DEFINE span == First(todo)
           to == PieceEnd(at, span.end)
           new == [ids |-> span.ids, span |-> <<span.eff, span.end>>, from |-> at, to |-> to]
<1>1. /\ span \in todo /\ span \in Spans /\ span.eff \in Nat /\ span.end \in 0 .. Total
      /\ at \in Nat /\ span.eff <= at /\ at < span.end /\ to \in at + 1 .. span.end
      /\ \/ pieces' = pieces /\ Text(at, to) = {}
         \/ pieces' = pieces \cup {new}
      /\ \/ todo' = todo /\ at' \in at + 1 .. to
         \/ /\ todo' = todo \ {span} /\ to = span.end
            /\ todo' # {} => at' = First(todo').eff /\ First(todo') \in todo'
  BY CutStep
<1>2. todo \subseteq spans /\ Covered(spans) /\ todo \subseteq Spans /\ DocTyped
  BY DEF Cutting, CutInv
<1>n. new.from = at /\ new.to = to /\ new.ids = span.ids /\ new.span = <<span.eff, span.end>>
  OBVIOUS
<1>t. Total \in Nat
  BY <1>2, DocShape
<1>s. span = First(todo)
  OBVIOUS
<1> HIDE DEF span, to, new
<1>3. todo' \subseteq spans
  BY <1>1, <1>2
<1>4. ASSUME NEW s \in spans, NEW l \in Text(s.eff, s.end)
      PROVE  \/ \E p \in pieces' : OfSpan(p, s) /\ l \in p.from .. p.to - 1
             \/ s \in todo' /\ l >= IF s = First(todo') THEN at' ELSE s.eff
  <2>1. CASE \E p \in pieces : OfSpan(p, s) /\ l \in p.from .. p.to - 1
    BY <1>1, <2>1
  <2>2. CASE s \in todo /\ l >= Cursor(s)
    <3>1. s \in Spans /\ s.eff \in Nat /\ s.end \in Nat
      BY <1>2, <2>2, SpanIsText
    <3>2. l \in s.eff .. s.end - 1 /\ Line(l) # "blank" /\ l \in Int
      BY <3>1 DEF Text
    <3>3. CASE s = span
      <4>1. l >= at
        BY <2>2, <3>3, <1>s DEF Cursor
      <4>2. CASE l < to
        <5>1. l \in at .. to - 1
          BY <1>1, <1>t, <3>2, <4>1, <4>2
        <5>2. l \in Text(at, to)
          BY <3>2, <5>1 DEF Text
        <5>3. new \in pieces'
          BY <1>1, <5>2
        <5>4. OfSpan(new, s) /\ l \in new.from .. new.to - 1
          BY <1>n, <3>3, <5>1 DEF OfSpan
        <5> QED
          BY <5>3, <5>4
      <4>3. CASE ~(l < to)
        <5>1. to # span.end
          BY <1>1, <1>t, <3>2, <3>3, <4>3
        <5>2. todo' = todo /\ at' \in at + 1 .. to
          BY <1>1, <5>1
        <5>3. l >= at'
          BY <1>1, <1>t, <3>2, <4>3, <5>2
        <5> QED
          BY <1>s, <2>2, <3>3, <5>2, <5>3
      <4> QED
        BY <4>2, <4>3
    <3>4. CASE s # span
      <4>1. s \in todo' /\ l >= s.eff
        BY <1>1, <2>2, <3>1, <3>2, <3>4
      <4>2. s = First(todo') => at' = s.eff
        BY <1>1, <1>s, <3>4, <4>1
      <4> QED
        BY <4>1, <4>2
    <3> QED
      BY <3>3, <3>4
  <2> QED
    BY <1>2, <2>1, <2>2 DEF Covered
<1> QED
  BY <1>3, <1>4

LEMMA CutKeeps ==
  ASSUME CutInv, Cut
  PROVE  CutInv'
<1> DEFINE span == First(todo)
           to == PieceEnd(at, span.end)
           new == [ids |-> span.ids, span |-> <<span.eff, span.end>>, from |-> at, to |-> to]
<1>1. /\ doc' = doc /\ cfg' = cfg /\ step' = step
      /\ span \in todo /\ span \in Spans /\ span.eff \in Nat /\ span.end \in 0 .. Total
      /\ at \in Nat /\ span.eff <= at /\ at < span.end /\ to \in at + 1 .. span.end
      /\ to # at + 1 => Weight(at, to) <= SourceTarget
      /\ \/ pieces' = pieces /\ Text(at, to) = {}
         \/ pieces' = pieces \cup {new}
      /\ \/ todo' = todo /\ at' \in at + 1 .. to
         \/ /\ todo' = todo \ {span} /\ to = span.end
            /\ todo' # {} => at' = First(todo').eff /\ First(todo') \in todo'
  BY CutStep
<1>2. /\ DocTyped /\ todo \subseteq Spans /\ step \in {"start", "ast", "spans", "whole", "done"}
      /\ step # "start" => Total > 0
      /\ \A s \in todo : \A p \in pieces : OfSpan(p, s) => s = First(todo) /\ p.from < at
      /\ \A p \in pieces : PieceFitsBudget(p)
  BY DEF CutInv
<1>a. AtStep
  BY DEF CutInv
<1>n. new.from = at /\ new.to = to /\ new.ids = span.ids /\ new.span = <<span.eff, span.end>>
  OBVIOUS
<1>t. Total \in Nat
  BY <1>2, DocShape
<1>s. span = First(todo)
  OBVIOUS
<1> HIDE DEF span, to, new
<1>3. /\ (\A i, j : Text(i, j)' = Text(i, j)) /\ Total' = Total
      /\ DocTyped' = DocTyped /\ MayUseDefinitions' = MayUseDefinitions /\ Spans' = Spans
      /\ MetadataTokens' = MetadataTokens /\ \A i, j : Weight(i, j)' = Weight(i, j)
  BY <1>1, SameText, SameSpans, SameFields
<1>4. (todo # {} => at \in Nat /\ First(todo).eff <= at /\ at < First(todo).end)'
  <2>1. CASE todo' = todo /\ at' \in at + 1 .. to
    <3>1. span.end \in Nat
      BY <1>1, <1>t
    <3>2. to < span.end \/ to = span.end
      BY <1>1, <3>1
    <3>3. at' \in Nat /\ span.eff <= at'
      BY <1>1, <2>1, <3>1
    <3>4. at' < span.end
      <4>1. CutInv /\ Cut /\ todo # {}
        BY <1>1
      <4>2. to < span.end
        <5>1. IF to < span.end
                THEN at' = NextStart(at, to) /\ todo' = todo
                ELSE todo' = todo \ {span} /\ at' = StartOf(todo \ {span})
          BY DEF Cut, to, span
        <5>2. span \in todo'
          BY <1>1, <2>1
        <5> QED
          BY <5>1, <5>2
      <4> QED
        BY <1>1, <2>1, <3>1, <4>2
    <3> QED
      BY <1>s, <2>1, <3>3, <3>4
  <2>2. CASE /\ todo' = todo \ {span}
             /\ todo' # {} => at' = First(todo').eff /\ First(todo') \in todo'
    <3> SUFFICES ASSUME todo' # {}
                 PROVE  at' \in Nat /\ First(todo').eff <= at' /\ at' < First(todo').end
      OBVIOUS
    <3>1. at' = First(todo').eff /\ First(todo') \in Spans
      BY <1>2, <2>2
    <3> QED
      BY <1>2, <3>1, SpanIsText
  <2> QED
    BY <1>1, <2>1, <2>2
<1>5. ASSUME NEW s \in todo', NEW p \in pieces', OfSpan(p, s)
      PROVE  s = First(todo') /\ p.from < at'
  <2>1. s \in todo /\ s \in Spans
    BY <1>1, <1>2
  <2>2. s = span /\ p.from <= at
    <3>1. CASE p \in pieces
      <4>1. s = span /\ p.from < at
        BY <1>2, <1>5, <1>s, <2>1, <3>1
      <4>2. p.from \in Nat
        BY <1>2, <3>1 DEF PieceFitsBudget
      <4> QED
        BY <1>1, <4>1, <4>2
    <3>2. CASE p = new
      <4>1. span.ids = s.ids /\ <<span.eff, span.end>> = <<s.eff, s.end>>
        BY <1>5, <1>n, <3>2 DEF OfSpan
      <4>2. span.eff = s.eff /\ span.end = s.end
        BY <4>1
      <4>3. s = span
        BY <1>1, <2>1, <4>1, <4>2, SpansDiffer
      <4> QED
        BY <1>1, <1>n, <3>2, <4>3
    <3> QED
      BY <1>1, <3>1, <3>2
  <2>3. todo' = todo /\ at' \in at + 1 .. to
    BY <1>1, <1>5, <2>2
  <2>4. p.from \in Nat
    <3>1. CASE p \in pieces
      BY <1>2, <3>1 DEF PieceFitsBudget
    <3>2. CASE p = new
      BY <1>1, <1>n, <3>2
    <3> QED
      BY <1>1, <3>1, <3>2
  <2>5. to \in Nat
    BY <1>1, <1>t
  <2> QED
    BY <1>1, <1>s, <2>2, <2>3, <2>4, <2>5
<1>6. ASSUME NEW p \in pieces' PROVE PieceFitsBudget(p)'
  <2>1. PieceFitsBudget(p)
    <3>1. CASE p \in pieces
      BY <1>2, <3>1
    <3>2. CASE p = new
      <4>1. Weight(at, to) + MetadataTokens <= cfg.target \/ to = at + 1
        <5> SUFFICES ASSUME to # at + 1 PROVE Weight(at, to) + MetadataTokens <= cfg.target
          OBVIOUS
        <5>1. Weight(at, to) <= SourceTarget
          BY <1>1
        <5>2. at \in 0 .. Total /\ to \in 0 .. Total /\ at <= to
          BY <1>1, <1>t
        <5>3. Weight(at, to) \in Nat
          BY <1>2, <5>2, WeightIsNumber
        <5>4. /\ SourceTarget \in Nat /\ MetadataTarget \in Nat /\ SourceTarget + MetadataTarget <= cfg.target
              /\ MetadataTokens \in 0 .. MetadataTarget /\ cfg.target \in Nat
          BY <1>2, Budgets, FieldsFit, SettingShape
        <5> QED
          BY <5>1, <5>3, <5>4
      <4>2. span.eff <= at /\ to <= span.end
        BY <1>1, <1>t
      <4>3. new.span[1] = span.eff /\ new.span[2] = span.end
        BY <1>n
      <4>4. new.from \in Nat
        BY <1>1, <1>n
      <4> QED
        BY <1>n, <3>2, <4>1, <4>2, <4>3, <4>4 DEF PieceFitsBudget
    <3> QED
      BY <1>1, <3>1, <3>2
  <2> QED
    BY <1>1, <1>3, <2>1 DEF PieceFitsBudget
<1>7. AtStep'
  <2>1. step # "start" /\ step # "done"
    BY <1>1, <1>a DEF AtStep
  <2>2. ASSUME step = "ast" PROVE Cutting(AstWork)'
    <3> DEFINE W == AstWork
    <3>1. Cutting(W)
      BY <1>a, <2>2 DEF AtStep
    <3>2. AstWork' = W
      BY <1>1, SameAstWork
    <3> HIDE DEF W
    <3>3. /\ todo' \subseteq W
          /\ \A s \in W : \A l \in Text(s.eff, s.end) :
               \/ \E p \in pieces' : OfSpan(p, s) /\ l \in p.from .. p.to - 1
               \/ s \in todo' /\ l >= IF s = First(todo') THEN at' ELSE s.eff
      BY <3>1, CutCovers
    <3> QED
      BY <1>3, <3>2, <3>3 DEF Cutting, Covered, Cursor
  <2>3. ASSUME step = "spans"
        PROVE  Cutting(DefinitionWork)' /\ MayUseDefinitions' /\ (doc.defs # {})' /\ NoCandidateHasText'
    <3> DEFINE W == DefinitionWork
    <3>1. Cutting(W) /\ MayUseDefinitions /\ doc.defs # {} /\ NoCandidateHasText
      BY <1>a, <2>3 DEF AtStep
    <3>2. DefinitionWork' = W
      BY <1>1, SameOtherWork
    <3> HIDE DEF W
    <3>3. /\ todo' \subseteq W
          /\ \A s \in W : \A l \in Text(s.eff, s.end) :
               \/ \E p \in pieces' : OfSpan(p, s) /\ l \in p.from .. p.to - 1
               \/ s \in todo' /\ l >= IF s = First(todo') THEN at' ELSE s.eff
      BY <3>1, CutCovers
    <3>4. Cutting(DefinitionWork)'
      BY <1>3, <3>2, <3>3 DEF Cutting, Covered, Cursor
    <3> QED
      BY <1>1, <1>3, <3>1, <3>4, SameNoCandidateHasText
  <2>4. ASSUME step = "whole" PROVE Cutting(WholeWork)' /\ NoCandidateHasText'
    <3> DEFINE W == WholeWork
    <3>1. Cutting(W) /\ NoCandidateHasText
      BY <1>a, <2>4 DEF AtStep
    <3>2. WholeWork' = W
      BY <1>1, SameOtherWork
    <3> HIDE DEF W
    <3>3. /\ todo' \subseteq W
          /\ \A s \in W : \A l \in Text(s.eff, s.end) :
               \/ \E p \in pieces' : OfSpan(p, s) /\ l \in p.from .. p.to - 1
               \/ s \in todo' /\ l >= IF s = First(todo') THEN at' ELSE s.eff
      BY <3>1, CutCovers
    <3>4. Cutting(WholeWork)'
      BY <1>3, <3>2, <3>3 DEF Cutting, Covered, Cursor
    <3> QED
      BY <1>1, <3>1, <3>4, SameNoCandidateHasText
  <2> QED
    BY <1>1, <2>1, <2>2, <2>3, <2>4 DEF AtStep
<1>8. DocTyped' /\ (todo \subseteq Spans)' /\ (step # "start" => Total > 0)'
      /\ (step \in {"start", "ast", "spans", "whole", "done"})'
  BY <1>1, <1>2, <1>3
<1>9. (\A s \in todo : \A p \in pieces : OfSpan(p, s) => s = First(todo) /\ p.from < at)'
  BY <1>5 DEF OfSpan
<1>10. (\A p \in pieces : PieceFitsBudget(p))'
  BY <1>6
<1> QED
  BY <1>4, <1>7, <1>8, <1>9, <1>10 DEF CutInv

LEMMA CutStutterKeeps ==
  ASSUME CutInv, UNCHANGED cutVars
  PROVE  CutInv'
<1>1. /\ doc' = doc /\ cfg' = cfg /\ step' = step /\ todo' = todo /\ at' = at /\ pieces' = pieces
  BY DEF cutVars
<1>2. /\ Candidates' = Candidates /\ (\A i, j : Text(i, j)' = Text(i, j)) /\ Total' = Total
      /\ Defined' = Defined /\ (\A d : LeadingDoc(d)' = LeadingDoc(d))
      /\ DocTyped' = DocTyped /\ MayUseDefinitions' = MayUseDefinitions /\ Spans' = Spans
      /\ MetadataTokens' = MetadataTokens /\ (\A i, j : Weight(i, j)' = Weight(i, j))
      /\ AstWork' = AstWork /\ DefinitionWork' = DefinitionWork /\ WholeWork' = WholeWork
  BY <1>1, SameCandidates, SameText, SameAstWork, SameOtherWork, SameSpans, SameFields
<1>3. \A id, l : InPiece(id, l)' = InPiece(id, l)
  BY <1>1 DEF InPiece
<1>4. TextIsFound' = TextIsFound
  BY <1>1, <1>2, <1>3 DEF TextIsFound
<1>6. /\ Cutting(AstWork)' = Cutting(AstWork) /\ Cutting(DefinitionWork)' = Cutting(DefinitionWork)
      /\ Cutting(WholeWork)' = Cutting(WholeWork)
  BY <1>1, <1>2 DEF Cutting, Covered, Cursor, OfSpan
<1>7. NoCandidateHasText => NoCandidateHasText'
  BY <1>1, SameNoCandidateHasText
<1>8. AtStep'
  <2>1. AtStep
    BY DEF CutInv
  <2> QED
    BY <1>1, <1>2, <1>4, <1>6, <1>7, <2>1 DEF AtStep
<1>9. (\A p \in pieces : PieceFitsBudget(p))'
  <2>1. \A p \in pieces : PieceFitsBudget(p)
    BY DEF CutInv
  <2> QED
    BY <1>1, <1>2, <2>1 DEF PieceFitsBudget
<1> QED
  BY <1>1, <1>2, <1>8, <1>9 DEF CutInv, OfSpan

(* Every state of the cut satisfies the invariant.                         *)
THEOREM CutIsInvariant == CutSpec => []CutInv
<1>1. CutInit => CutInv
  BY CutInitInv
<1>2. CutInv /\ [CutNext]_cutVars => CutInv'
  <2> SUFFICES ASSUME CutInv, [CutNext]_cutVars PROVE CutInv'
    OBVIOUS
  <2>1. CASE ByAst
    BY <2>1, ByAstKeeps
  <2>2. CASE ByDefinitions
    BY <2>2, ByDefinitionsKeeps
  <2>3. CASE Whole
    BY <2>3, WholeKeeps
  <2>4. CASE Cut
    BY <2>4, CutKeeps
  <2>5. CASE Cards
    BY <2>5, CardsKeeps
  <2>6. CASE UNCHANGED cutVars
    BY <2>6, CutStutterKeeps
  <2> QED
    BY <2>1, <2>2, <2>3, <2>4, <2>5, <2>6 DEF CutNext
<1> QED
  BY <1>1, <1>2, PTL DEF CutSpec

LEMMA CutInvCoversSpan ==
  ASSUME CutInv
  PROVE  PiecesCoverSpan
<1>1. \A p \in pieces : PieceFitsBudget(p)
  BY DEF CutInv
<1> DEFINE span == First(todo)
           mine == {p \in pieces : p.ids = span.ids /\ p.span = <<span.eff, span.end>>}
<1>2. ASSUME todo # {}
      PROVE  /\ \A l \in Text(span.eff, at) : \E p \in mine : l \in p.from .. p.to - 1
             /\ \A p \in mine : p.from < at
  <2>1. DocTyped /\ todo \subseteq Spans /\ at \in Nat /\ span.eff <= at /\ at < span.end
    BY <1>2 DEF CutInv
  <2>2. span \in todo /\ span \in Spans
    BY <1>2, <2>1, FirstOfTodo
  <2>3. span.eff \in Nat /\ span.end \in Nat
    BY <2>1, <2>2, SpanIsText
  <2>4. \A p \in mine : p.from < at
    BY <2>2 DEF CutInv, OfSpan
  <2>5. ASSUME NEW l \in Text(span.eff, at)
        PROVE  \E p \in mine : l \in p.from .. p.to - 1
    <3> DEFINE s == span
    <3>s. s \in todo /\ s = First(todo) /\ s.eff \in Nat /\ s.end \in Nat /\ at < s.end
      BY <2>1, <2>2, <2>3
    <3>1. l \in s.eff .. at - 1 /\ Line(l) # "blank"
      BY DEF Text
    <3> HIDE DEF s
    <3>2. l \in Text(s.eff, s.end) /\ ~(l >= at)
      <4>1. l \in s.eff .. s.end - 1 /\ ~(l >= at)
        BY <2>1, <3>s, <3>1
      <4> QED
        BY <3>1, <4>1 DEF Text
    <3>3. PICK W : todo \subseteq W /\ Covered(W)
      <4>1. step \in {"ast", "spans", "whole"}
        BY <1>2 DEF CutInv, AtStep
      <4> QED
        BY <4>1 DEF CutInv, AtStep, Cutting
    <3>4. \E p \in pieces : OfSpan(p, s) /\ l \in p.from .. p.to - 1
      BY <3>s, <3>2, <3>3 DEF Covered, Cursor
    <3> QED
      BY <3>4 DEF OfSpan, s
  <2> QED
    BY <2>4, <2>5
<1> QED
  BY <1>1, <1>2 DEF PiecesCoverSpan, PieceFitsBudget

LEMMA CutInvFindsText ==
  ASSUME CutInv
  PROVE  TextIsFound
BY DEF CutInv, AtStep, TextIsFound

(* While a span is cut, all its text behind the cursor is in its pieces,   *)
(* no piece is over the budget unless it is one line, and no piece leaves  *)
(* its span (_chunks_for_span): for every document and every setting.      *)
THEOREM PiecesAlwaysCoverSpan == CutSpec => []PiecesCoverSpan
BY CutIsInvariant, CutInvCoversSpan, PTL

(* When a document is cut, each function has all its text in pieces that   *)
(* name it, and a document with text has a piece (build_chunks).           *)
THEOREM TextIsAlwaysFound == CutSpec => []TextIsFound
BY CutIsInvariant, CutInvFindsText, PTL
=============================================================================
