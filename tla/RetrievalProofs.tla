--------------------------- MODULE RetrievalProofs ---------------------------
(***************************************************************************)
(* Proofs about what a served index answers: queries, for any ranked lists *)
(* of any number of symbols and chunks, any scores, pages and demotion of  *)
(* test code; the code graph, for any rows ingested any number of times;   *)
(* entities by name; and the seeds of an exploration.                      *)
(***************************************************************************)
EXTENDS Retrieval, CallLookup, EntityQuery, GraphExplore, SequenceTheorems, FiniteSetTheorems, WellFoundedInduction, TLAPS

-----------------------------------------------------------------------------
(* Finite sets in order *)

StrictOrder(before) ==
  /\ IsFiniteSet(DOMAIN before)
  /\ \A i \in DOMAIN before : before[i] \subseteq DOMAIN before /\ i \notin before[i]
  /\ \A i, j \in DOMAIN before : i \in before[j] => before[i] \subseteq before[j]
  /\ \A i, j \in DOMAIN before : i = j \/ i \in before[j] \/ j \in before[i]

(* A list of all elements, each after those that come before it.           *)
Arranges(order, before) ==
  /\ order \in Seq(DOMAIN before) /\ Len(order) = Cardinality(DOMAIN before)
  /\ \A i \in DOMAIN before : \E p \in DOMAIN order : order[p] = i
  /\ \A p, r \in DOMAIN order : p < r <=> order[p] \in before[order[r]]

LEMMA RankOrder ==
  ASSUME NEW before, StrictOrder(before), NEW i \in DOMAIN before
  PROVE  /\ Cardinality(before[i]) \in Nat /\ Cardinality(before[i]) < Cardinality(DOMAIN before)
         /\ \A j \in DOMAIN before : i \in before[j] => Cardinality(before[i]) < Cardinality(before[j])
<1>1. ASSUME NEW T \in SUBSET DOMAIN before, i \in T, before[i] \subseteq T
      PROVE  Cardinality(before[i]) \in Nat /\ Cardinality(before[i]) < Cardinality(T)
  <2>1. IsFiniteSet(T)
    BY FS_Subset DEF StrictOrder
  <2>2. before[i] \in SUBSET T /\ before[i] # T
    BY <1>1 DEF StrictOrder
  <2>3. /\ IsFiniteSet(before[i]) /\ Cardinality(before[i]) <= Cardinality(T)
        /\ Cardinality(T) = Cardinality(before[i]) => T = before[i]
    BY <2>1, <2>2, FS_Subset
  <2>4. Cardinality(T) \in Nat /\ Cardinality(before[i]) \in Nat
    BY <2>1, <2>3, FS_CardinalityType
  <2> QED
    BY <2>2, <2>3, <2>4
<1>2. Cardinality(before[i]) \in Nat /\ Cardinality(before[i]) < Cardinality(DOMAIN before)
  BY <1>1 DEF StrictOrder
<1>3. ASSUME NEW j \in DOMAIN before, i \in before[j]
      PROVE  Cardinality(before[i]) < Cardinality(before[j])
  BY <1>1, <1>3 DEF StrictOrder
<1> QED
  BY <1>2, <1>3

LEMMA InOrderArranges ==
  ASSUME NEW before, StrictOrder(before)
  PROVE  Arranges(InOrder(before), before)
<1> DEFINE S == DOMAIN before
           count == Cardinality(S)
           rank == [i \in S |-> Cardinality(before[i]) + 1]
           order == InOrder(before)
<1>1. IsFiniteSet(S) /\ count \in Nat
  BY FS_CardinalityType DEF StrictOrder
<1>2. \A i \in S : Cardinality(before[i]) \in Nat /\ Cardinality(before[i]) < count
  BY RankOrder
<1>3. \A i, j \in S : i \in before[j] => rank[i] < rank[j]
  BY RankOrder
<1>4. \A i, j \in S : rank[i] = rank[j] => i = j
  <2> SUFFICES ASSUME NEW i \in S, NEW j \in S, rank[i] = rank[j], i # j PROVE FALSE
    OBVIOUS
  <2>1. rank[i] < rank[j] \/ rank[j] < rank[i]
    BY <1>3 DEF StrictOrder
  <2>2. rank[i] \in Nat
    BY <1>2
  <2> HIDE DEF rank
  <2> QED
    BY <2>1, <2>2
<1> HIDE DEF count
<1>5. rank \in [S -> 1..count]
  BY <1>1, <1>2
<1>6. rank \in Injection(S, 1..count)
  <2> HIDE DEF S, rank
  <2>1. DOMAIN rank = S
    BY <1>5
  <2>2. IsInjective(rank)
    BY <1>4, <2>1 DEF IsInjective
  <2> QED
    BY <1>5, <2>2 DEF Injection
<1>7. IsFiniteSet(1..count) /\ Cardinality(1..count) = count
  <2>1. 1 \in Int /\ count \in Int
    BY <1>1
  <2>2. IsFiniteSet(1..count) /\ Cardinality(1..count) = IF 1 > count THEN 0 ELSE count - 1 + 1
    BY <2>1, FS_Interval, Zenon
  <2> QED
    BY <1>1, <2>2
<1>8. Cardinality(S) = Cardinality(1..count)
  BY <1>7 DEF count
<1> HIDE DEF rank
<1>9. rank \in Surjection(S, 1..count)
  BY <1>1, <1>6, <1>7, <1>8, FS_Injection
<1>10. \A p \in 1..count : \E i \in S : rank[i] = p
  BY <1>9 DEF Surjection
<1>11. order = [p \in 1..count |-> CHOOSE i \in S : Cardinality(before[i]) = p - 1]
  BY DEF InOrder, count
<1> HIDE DEF order, S
<1>12. ASSUME NEW p \in 1..count PROVE order[p] \in S /\ rank[order[p]] = p
  <2>1. \E i \in S : Cardinality(before[i]) = p - 1
    <3>1. PICK i \in S : rank[i] = p
      BY <1>10
    <3>2. Cardinality(before[i]) + 1 = p /\ Cardinality(before[i]) \in Nat
      BY <1>2, <3>1 DEF rank
    <3>3. Cardinality(before[i]) = p - 1
      BY <3>2
    <3> QED
      BY <3>3
  <2>2. order[p] = CHOOSE i \in S : Cardinality(before[i]) = p - 1
    BY <1>11
  <2>3. order[p] \in S /\ Cardinality(before[order[p]]) = p - 1
    BY <2>1, <2>2
  <2>4. rank[order[p]] = p - 1 + 1
    BY <2>3 DEF rank
  <2> QED
    BY <2>3, <2>4
<1>13. order \in [1..count -> S] /\ DOMAIN order = 1..count
  BY <1>11, <1>12
<1>14. order \in Seq(S) /\ Len(order) = count
  BY <1>1, <1>13
<1>15. \A i \in S : \E p \in DOMAIN order : order[p] = i
  <2> SUFFICES ASSUME NEW i \in S PROVE \E p \in DOMAIN order : order[p] = i
    OBVIOUS
  <2>1. rank[i] \in 1..count
    BY <1>5
  <2>2. order[rank[i]] \in S /\ rank[order[rank[i]]] = rank[i]
    BY <1>12, <2>1
  <2> QED
    BY <1>4, <1>13, <2>1, <2>2
<1>16. ASSUME NEW p \in DOMAIN order, NEW r \in DOMAIN order
       PROVE  p < r <=> order[p] \in before[order[r]]
  <2>1. p \in 1..count /\ r \in 1..count
    BY <1>13
  <2>2. order[p] \in S /\ order[r] \in S /\ rank[order[p]] = p /\ rank[order[r]] = r
    BY <1>12, <2>1
  <2>3. order[p] \in before[order[r]] => p < r
    BY <1>3, <2>2
  <2>4. ASSUME p < r PROVE order[p] \in before[order[r]]
    <3>1. order[p] # order[r] /\ order[r] \notin before[order[p]]
      BY <1>3, <2>1, <2>2, <2>4
    <3> QED
      BY <2>2, <3>1 DEF StrictOrder, S
  <2> QED
    BY <2>3, <2>4
<1> QED
  BY <1>14, <1>15, <1>16 DEF Arranges, S, count, order

(* The smallest of the numbers.                                            *)
LEMMA Least ==
  ASSUME NEW n \in Nat, NEW T \in SUBSET (1..n), T # {}
  PROVE  \E i \in T : \A j \in T : i <= j
<1> DEFINE before == [i \in T |-> {j \in T : j < i}]
           order == InOrder(before)
<1>0. \A i \in T : i \in Int
  <2>1. \A i \in T : i \in 1..n
    OBVIOUS
  <2> QED
    BY <2>1
<1>1. IsFiniteSet(T)
  <2>1. 1 \in Int /\ n \in Int
    OBVIOUS
  <2>2. IsFiniteSet(1..n)
    BY <2>1, FS_Interval, Zenon
  <2> QED
    BY <2>2, FS_Subset
<1>2. DOMAIN before = T /\ \A i \in T : before[i] = {j \in T : j < i}
  OBVIOUS
<1> HIDE DEF before
<1>3. StrictOrder(before)
  <2>1. \A i \in T : before[i] \subseteq T /\ i \notin before[i]
    BY <1>2
  <2>2. \A i, j \in T : i \in before[j] => before[i] \subseteq before[j]
    <3> SUFFICES ASSUME NEW i \in T, NEW j \in T, i \in before[j], NEW k \in before[i]
                 PROVE  k \in before[j]
      OBVIOUS
    <3>1. k \in T /\ k < i /\ i < j
      BY <1>2
    <3>2. k < j
      BY <1>0, <3>1
    <3> QED
      BY <1>2, <3>1, <3>2
  <2>3. \A i, j \in T : i = j \/ i \in before[j] \/ j \in before[i]
    BY <1>0, <1>2
  <2> QED
    BY <1>1, <1>2, <2>1, <2>2, <2>3 DEF StrictOrder
<1>4. Arranges(order, before)
  BY <1>3, InOrderArranges
<1> HIDE DEF order
<1>5. /\ order \in Seq(T) /\ \A i \in T : \E p \in DOMAIN order : order[p] = i
      /\ \A p, r \in DOMAIN order : p < r <=> order[p] \in before[order[r]]
  BY <1>2, <1>4 DEF Arranges
<1>6. DOMAIN order = 1..Len(order) /\ Len(order) \in Nat /\ \A p \in DOMAIN order : order[p] \in T
  BY <1>5
<1>7. 1 \in DOMAIN order
  <2>1. PICK i \in T : TRUE
    OBVIOUS
  <2>2. PICK p \in DOMAIN order : order[p] = i
    BY <1>5
  <2> QED
    BY <1>6, <2>2
<1>8. ASSUME NEW j \in T PROVE order[1] <= j
  <2>1. PICK p \in DOMAIN order : order[p] = j
    BY <1>5
  <2>2. ~(p < 1) /\ order[1] \in T
    BY <1>6, <1>7
  <2>3. j \notin before[order[1]]
    BY <1>5, <1>7, <2>1, <2>2
  <2>4. ~(j < order[1])
    BY <1>2, <2>2, <2>3
  <2>5. order[1] \in Int /\ j \in Int
    BY <1>0, <2>2
  <2> QED
    BY <2>4, <2>5
<1> QED
  BY <1>6, <1>7, <1>8

-----------------------------------------------------------------------------
(* Lists of results *)

Ids == Symbols \cup Chunks
Result == [id : Ids, score : Int]

(* No id twice.                                                            *)
Clean(l) == l \in Seq(Result) /\ \A i, j \in DOMAIN l : l[i].id = l[j].id => i = j

(* Places that are all different.                                          *)
Distinct(order) == \A p, r \in DOMAIN order : order[p] = order[r] => p = r

LEMMA RankOf ==
  ASSUME NEW l, Clean(l), NEW i \in DOMAIN l
  PROVE  /\ RankIn(l, l[i].id) = i /\ l[i].id \in IdsOf(l)
         /\ ScoreIn(l, l[i].id) = l[i].score
<1>1. RankIn(l, l[i].id) \in DOMAIN l /\ l[RankIn(l, l[i].id)].id = l[i].id
  BY DEF RankIn
<1>2. RankIn(l, l[i].id) = i
  BY <1>1 DEF Clean
<1>3. l[i].id \in IdsOf(l)
  BY DEF IdsOf
<1> QED
  BY <1>2, <1>3 DEF ScoreIn

LEMMA IdHasRank ==
  ASSUME NEW l, Clean(l), NEW id \in IdsOf(l)
  PROVE  RankIn(l, id) \in DOMAIN l /\ l[RankIn(l, id)].id = id /\ ScoreIn(l, id) = l[RankIn(l, id)].score
<1>1. PICK i \in DOMAIN l : l[i].id = id
  BY DEF IdsOf
<1> QED
  BY <1>1, RankOf

LEMMA CleanIds ==
  ASSUME NEW l, Clean(l)
  PROVE  /\ IdsOf(l) \subseteq Ids /\ IsFiniteSet(IdsOf(l)) /\ Cardinality(IdsOf(l)) = Len(l)
         /\ Len(l) \in Nat /\ DOMAIN l = 1..Len(l)
<1> DEFINE ranks == [i \in DOMAIN l |-> l[i].id]
<1>1. l \in Seq(Result) /\ Len(l) \in Nat /\ DOMAIN l = 1..Len(l)
  BY DEF Clean
<1>2. IdsOf(l) \subseteq Ids
  <2>1. \A i \in DOMAIN l : l[i] \in Result
    BY <1>1
  <2> QED
    BY <2>1 DEF IdsOf, Result
<1>3. ranks \in Surjection(DOMAIN l, IdsOf(l))
  BY DEF Surjection, IdsOf
<1>4. ranks \in Injection(DOMAIN l, IdsOf(l))
  <2>1. ranks \in [DOMAIN l -> IdsOf(l)]
    BY DEF IdsOf
  <2>2. IsInjective(ranks)
    BY DEF IsInjective, Clean
  <2> HIDE DEF ranks
  <2> QED
    BY <2>1, <2>2 DEF Injection
<1>5. IsFiniteSet(DOMAIN l) /\ Cardinality(DOMAIN l) = Len(l)
  <2>1. 1 \in Int /\ Len(l) \in Int
    BY <1>1
  <2>2. IsFiniteSet(1..Len(l)) /\ Cardinality(1..Len(l)) = IF 1 > Len(l) THEN 0 ELSE Len(l) - 1 + 1
    BY <2>1, FS_Interval, Zenon
  <2>3. Cardinality(1..Len(l)) = Len(l)
    BY <1>1, <2>2
  <2> QED
    BY <1>1, <2>2, <2>3, Zenon
<1> HIDE DEF ranks
<1>6. IsFiniteSet(IdsOf(l)) /\ Cardinality(IdsOf(l)) = Cardinality(DOMAIN l)
  BY <1>3, <1>4, <1>5, FS_Surjection
<1> QED
  BY <1>1, <1>2, <1>5, <1>6

(* What a list has at distinct places.                                     *)
LEMMA FollowShape ==
  ASSUME NEW S, NEW l \in Seq(S), NEW order \in Seq(DOMAIN l)
  PROVE  /\ Follow(l, order) \in Seq(S) /\ DOMAIN Follow(l, order) = DOMAIN order
         /\ Len(Follow(l, order)) = Len(order)
         /\ \A p \in DOMAIN order : Follow(l, order)[p] = l[order[p]]
<1>1. DOMAIN order = 1..Len(order) /\ Len(order) \in Nat
  OBVIOUS
<1>2. \A p \in DOMAIN order : order[p] \in DOMAIN l /\ l[order[p]] \in S
  OBVIOUS
<1>3. Follow(l, order) \in [1..Len(order) -> S]
  BY <1>1, <1>2 DEF Follow
<1> QED
  BY <1>1, <1>3 DEF Follow

LEMMA FollowClean ==
  ASSUME NEW l, Clean(l), NEW order \in Seq(DOMAIN l), Distinct(order)
  PROVE  Clean(Follow(l, order))
<1>1. l \in Seq(Result)
  BY DEF Clean
<1>2. /\ Follow(l, order) \in Seq(Result) /\ DOMAIN Follow(l, order) = DOMAIN order
      /\ \A p \in DOMAIN order : Follow(l, order)[p] = l[order[p]]
  BY <1>1, FollowShape
<1>3. \A p \in DOMAIN order : order[p] \in DOMAIN l
  OBVIOUS
<1> QED
  BY <1>2, <1>3 DEF Clean, Distinct

LEMMA ArrangedDistinct ==
  ASSUME NEW before, StrictOrder(before), NEW order, Arranges(order, before)
  PROVE  Distinct(order) /\ order \in Seq(DOMAIN before)
<1>1. order \in Seq(DOMAIN before)
  BY DEF Arranges
<1>2. ASSUME NEW p \in DOMAIN order, NEW r \in DOMAIN order, order[p] = order[r] PROVE p = r
  <2>1. order[p] \in DOMAIN before
    BY <1>1
  <2>2. ~(p < r) /\ ~(r < p)
    BY <1>2, <2>1 DEF Arranges, StrictOrder
  <2>3. p \in Int /\ r \in Int
    BY <1>1
  <2> QED
    BY <2>2, <2>3
<1> QED
  BY <1>1, <1>2 DEF Distinct

(* What is at these places, in their order.                                *)
LEMMA PickedOrder ==
  ASSUME NEW S, NEW l \in Seq(S), NEW places \in SUBSET DOMAIN l
  PROVE  \E order : /\ order \in Seq(places) /\ Distinct(order)
                    /\ \A i \in places : \E p \in DOMAIN order : order[p] = i
                    /\ \A p, r \in DOMAIN order : p < r => order[p] < order[r]
                    /\ Picked(l, places) = Follow(l, order)
<1> DEFINE before == [i \in places |-> {j \in places : j < i}]
           order == InOrder(before)
<1>1. Len(l) \in Nat /\ places \in SUBSET (1..Len(l))
  OBVIOUS
<1>2. IsFiniteSet(places)
  <2>1. 1 \in Int /\ Len(l) \in Int
    BY <1>1
  <2>2. IsFiniteSet(1..Len(l))
    BY <2>1, FS_Interval, Zenon
  <2> QED
    BY <1>1, <2>2, FS_Subset
<1>3. DOMAIN before = places /\ \A i \in places : before[i] = {j \in places : j < i}
  OBVIOUS
<1>4. \A i \in places : i \in Int
  BY <1>1
<1>5. Picked(l, places) = Follow(l, order)
  BY DEF Picked
<1> HIDE DEF before
<1>6. StrictOrder(before)
  <2>1. \A i \in places : before[i] \subseteq places /\ i \notin before[i]
    BY <1>3, <1>4
  <2>2. ASSUME NEW i \in places, NEW j \in places, i \in before[j], NEW k \in before[i]
        PROVE  k \in before[j]
    <3>1. k \in places /\ k < i /\ i < j
      BY <1>3, <2>2
    <3>2. k < j
      BY <1>4, <3>1
    <3> QED
      BY <1>3, <3>1, <3>2
  <2>3. \A i, j \in places : i = j \/ i \in before[j] \/ j \in before[i]
    BY <1>3, <1>4
  <2>4. \A i, j \in places : i \in before[j] => before[i] \subseteq before[j]
    BY <2>2
  <2> QED
    BY <1>2, <1>3, <2>1, <2>3, <2>4 DEF StrictOrder
<1>7. Arranges(order, before)
  BY <1>6, InOrderArranges
<1> HIDE DEF order
<1>8. Distinct(order) /\ order \in Seq(places) /\ \A i \in places : \E p \in DOMAIN order : order[p] = i
  <2>1. Distinct(order) /\ order \in Seq(DOMAIN before)
    BY <1>6, <1>7, ArrangedDistinct
  <2> QED
    BY <1>3, <1>7, <2>1 DEF Arranges
<1>9. ASSUME NEW p \in DOMAIN order, NEW r \in DOMAIN order, p < r PROVE order[p] < order[r]
  <2>1. order[p] \in before[order[r]] /\ order[r] \in places
    BY <1>7, <1>8, <1>9 DEF Arranges
  <2> QED
    BY <1>3, <2>1
<1> QED
  BY <1>5, <1>8, <1>9

LEMMA PickedClean ==
  ASSUME NEW l, Clean(l), NEW places \in SUBSET DOMAIN l
  PROVE  /\ Clean(Picked(l, places))
         /\ IdsOf(Picked(l, places)) = {l[i].id : i \in places}
<1>1. l \in Seq(Result)
  BY DEF Clean
<1>2. PICK order : /\ order \in Seq(places) /\ Distinct(order)
                   /\ \A i \in places : \E p \in DOMAIN order : order[p] = i
                   /\ Picked(l, places) = Follow(l, order)
  BY <1>1, PickedOrder
<1>3. order \in Seq(DOMAIN l) /\ \A p \in DOMAIN order : order[p] \in places
  BY <1>2
<1>4. Clean(Follow(l, order))
  BY <1>2, <1>3, FollowClean
<1>5. DOMAIN Follow(l, order) = DOMAIN order /\ \A p \in DOMAIN order : Follow(l, order)[p] = l[order[p]]
  BY <1>1, <1>3, FollowShape
<1>6. IdsOf(Follow(l, order)) = {l[i].id : i \in places}
  BY <1>2, <1>3, <1>5 DEF IdsOf
<1> QED
  BY <1>2, <1>4, <1>6

(* A list sorted by score: the same results, the greater scores first and  *)
(* equal ones as they were.                                                *)
Precedes(l, i, j) == l[i].score > l[j].score \/ (l[i].score = l[j].score /\ i < j)

LEMMA SortedShape ==
  ASSUME NEW l, Clean(l)
  PROVE  /\ Clean(Sorted(l)) /\ Elements(Sorted(l)) = Elements(l) /\ Len(Sorted(l)) = Len(l)
         /\ \A i, j \in DOMAIN l : Precedes(l, i, j) => RankIn(Sorted(l), l[i].id) < RankIn(Sorted(l), l[j].id)
<1> DEFINE S == DOMAIN l
           before == [i \in DOMAIN l |-> {j \in DOMAIN l : \/ l[j].score > l[i].score
                                                           \/ l[j].score = l[i].score /\ j < i}]
           order == InOrder(before)
<1>1. /\ l \in Seq(Result) /\ S = 1..Len(l) /\ Len(l) \in Nat
      /\ \A i \in S : i \in Int /\ l[i].score \in Int
  <2>1. l \in Seq(Result)
    BY DEF Clean
  <2>2. S = 1..Len(l) /\ Len(l) \in Nat /\ \A i \in S : i \in Int /\ l[i] \in Result
    BY <2>1
  <2> QED
    BY <2>1, <2>2 DEF Result
<1>2. IsFiniteSet(S) /\ Cardinality(S) = Len(l)
  <2>1. 1 \in Int /\ Len(l) \in Int
    BY <1>1
  <2>2. IsFiniteSet(1..Len(l)) /\ Cardinality(1..Len(l)) = IF 1 > Len(l) THEN 0 ELSE Len(l) - 1 + 1
    BY <2>1, FS_Interval, Zenon
  <2>3. Cardinality(1..Len(l)) = Len(l)
    BY <1>1, <2>2
  <2> QED
    BY <1>1, <2>2, <2>3, Zenon
<1>3. DOMAIN before = S /\ \A i \in S : before[i] = {j \in S : Precedes(l, j, i)}
  BY DEF Precedes
<1>4. Sorted(l) = Follow(l, order)
  BY DEF Sorted
<1> HIDE DEF before, S
<1>5. StrictOrder(before)
  <2>1. \A i \in S : before[i] \subseteq S /\ i \notin before[i]
    BY <1>1, <1>3 DEF Precedes
  <2>2. ASSUME NEW i \in S, NEW j \in S, i \in before[j], NEW k \in before[i]
        PROVE  k \in before[j]
    <3>1. k \in S /\ Precedes(l, k, i) /\ Precedes(l, i, j)
      BY <1>3, <2>2
    <3>2. Precedes(l, k, j)
      BY <1>1, <3>1 DEF Precedes
    <3> QED
      BY <1>3, <3>1, <3>2
  <2>3. \A i, j \in S : i = j \/ i \in before[j] \/ j \in before[i]
    <3>1. \A i, j \in S : i = j \/ Precedes(l, i, j) \/ Precedes(l, j, i)
      BY <1>1 DEF Precedes
    <3> QED
      BY <1>3, <3>1
  <2>4. \A i, j \in S : i \in before[j] => before[i] \subseteq before[j]
    BY <2>2
  <2> QED
    BY <1>2, <1>3, <2>1, <2>3, <2>4 DEF StrictOrder
<1>6. Arranges(order, before)
  BY <1>5, InOrderArranges
<1> HIDE DEF order
<1>7. Distinct(order) /\ order \in Seq(S)
  <2>1. Distinct(order) /\ order \in Seq(DOMAIN before)
    BY <1>5, <1>6, ArrangedDistinct
  <2> QED
    BY <1>3, <2>1
<1>8. /\ Len(order) = Cardinality(S) /\ \A i \in S : \E p \in DOMAIN order : order[p] = i
      /\ \A p, r \in DOMAIN order : p < r <=> order[p] \in before[order[r]]
  BY <1>3, <1>6 DEF Arranges
<1>9. Clean(Follow(l, order))
  BY <1>7, FollowClean DEF S
<1>10. /\ DOMAIN Follow(l, order) = DOMAIN order /\ Len(Follow(l, order)) = Len(order)
       /\ \A p \in DOMAIN order : Follow(l, order)[p] = l[order[p]] /\ order[p] \in S
  BY <1>1, <1>7, FollowShape DEF S
<1>11. Elements(Follow(l, order)) = Elements(l)
  <2>1. \A p \in DOMAIN order : Follow(l, order)[p] \in Elements(l)
    BY <1>10 DEF Elements, S
  <2>2. \A i \in S : l[i] \in Elements(Follow(l, order))
    BY <1>8, <1>10 DEF Elements
  <2> QED
    BY <1>10, <2>1, <2>2 DEF Elements, S
<1>12. ASSUME NEW i \in S, NEW j \in S, Precedes(l, i, j)
       PROVE  RankIn(Follow(l, order), l[i].id) < RankIn(Follow(l, order), l[j].id)
  <2>1. PICK p \in DOMAIN order : order[p] = i
    BY <1>8
  <2>2. PICK r \in DOMAIN order : order[r] = j
    BY <1>8
  <2>3. i \in before[j]
    BY <1>3, <1>12
  <2>4. p < r
    BY <1>8, <2>1, <2>2, <2>3
  <2>5. p \in DOMAIN Follow(l, order) /\ Follow(l, order)[p] = l[i]
    BY <1>10, <2>1
  <2>6. r \in DOMAIN Follow(l, order) /\ Follow(l, order)[r] = l[j]
    BY <1>10, <2>2
  <2>7. RankIn(Follow(l, order), l[i].id) = p /\ RankIn(Follow(l, order), l[j].id) = r
    BY <1>9, <2>5, <2>6, RankOf
  <2> QED
    BY <2>4, <2>7
<1> QED
  BY <1>2, <1>4, <1>8, <1>9, <1>10, <1>11, <1>12 DEF S

LEMMA CleanShape ==
  ASSUME NEW l, Clean(l)
  PROVE  /\ l \in Seq(Result) /\ Len(l) \in Nat /\ DOMAIN l = 1..Len(l)
         /\ \A i \in DOMAIN l : l[i] \in Result
<1>1. l \in Seq(Result)
  BY DEF Clean
<1> QED
  BY <1>1

(* The first n of a list.                                                  *)
LEMMA CutShape ==
  ASSUME NEW l, Clean(l), NEW n \in Nat
  PROVE  /\ Clean(Cut(l, n)) /\ Len(Cut(l, n)) = Atop(n, Len(l)) /\ IdsOf(Cut(l, n)) \subseteq IdsOf(l)
         /\ DOMAIN Cut(l, n) = {i \in DOMAIN l : i <= n}
         /\ \A i \in DOMAIN Cut(l, n) : Cut(l, n)[i] = l[i]
<1> DEFINE len == Len(l)
           m == Atop(n, len)
           cut == Cut(l, n)
<1>1. len \in Nat /\ DOMAIN l = 1..len /\ \A i \in DOMAIN l : l[i] \in Result
  BY CleanShape
<1>2. cut = SubSeq(l, 1, m)
  BY DEF Cut
<1> HIDE DEF len
<1>3. m \in Nat /\ m <= len /\ 1..m = {i \in 1..len : i <= n}
  BY <1>1 DEF Atop
<1> HIDE DEF m, cut
<1>4. cut \in Seq(Result) /\ Len(cut) = m /\ \A i \in 1..m : cut[i] = l[i]
  <2>1. 1 \in Int /\ m \in Int
    BY <1>3
  <2>2. \A i \in 1..m : l[i] \in Result
    BY <1>1, <1>3, Zenon
  <2>3. /\ SubSeq(l, 1, m) \in Seq(Result)
        /\ Len(SubSeq(l, 1, m)) = IF 1 <= m THEN m - 1 + 1 ELSE 0
        /\ \A i \in 1..(m - 1 + 1) : SubSeq(l, 1, m)[i] = l[1 + i - 1]
    BY <2>1, <2>2, SubSeqProperties
  <2>4. (IF 1 <= m THEN m - 1 + 1 ELSE 0) = m /\ m - 1 + 1 = m /\ \A i \in 1..m : 1 + i - 1 = i
    BY <1>3
  <2> QED
    BY <1>2, <2>3, <2>4
<1>5. DOMAIN cut = 1..m
  BY <1>4
<1>6. DOMAIN cut = {i \in DOMAIN l : i <= n}
  BY <1>1, <1>3, <1>5, Zenon
<1>7. \A i \in DOMAIN cut : cut[i] = l[i] /\ i \in DOMAIN l
  BY <1>4, <1>5, <1>6, Zenon
<1>8. Clean(cut) /\ IdsOf(cut) \subseteq IdsOf(l)
  BY <1>4, <1>7 DEF Clean, IdsOf
<1> QED
  BY <1>4, <1>6, <1>7, <1>8 DEF m, cut, len

(* What comes after them.                                                  *)
LEMMA RestShape ==
  ASSUME NEW l, Clean(l), NEW n \in Nat
  PROVE  /\ Clean(SubSeq(l, n + 1, Len(l))) /\ IdsOf(SubSeq(l, n + 1, Len(l))) \subseteq IdsOf(l)
         /\ IdsOf(SubSeq(l, n + 1, Len(l))) \cap IdsOf(Cut(l, n)) = {}
<1> DEFINE len == Len(l)
           rest == SubSeq(l, n + 1, len)
           count == Len(rest)
<1>1. len \in Nat /\ DOMAIN l = 1..len /\ \A i \in DOMAIN l : l[i] \in Result
  BY CleanShape
<1> HIDE DEF len
<1>2. n + 1 \in Int /\ len \in Int /\ \A i \in (n + 1)..len : i \in 1..len
  BY <1>1
<1>3. /\ rest \in Seq(Result) /\ count = IF n + 1 <= len THEN len - (n + 1) + 1 ELSE 0
      /\ \A i \in 1..(len - (n + 1) + 1) : rest[i] = l[n + 1 + i - 1]
  BY <1>1, <1>2, SubSeqProperties
<1>4. DOMAIN rest = 1..count
  BY <1>3
<1> HIDE DEF rest, count
<1>5. \A i \in 1..count : /\ i \in Int /\ n + i \in 1..len /\ n + i > n /\ n + 1 + i - 1 = n + i
                         /\ i \in 1..(len - (n + 1) + 1)
  BY <1>1, <1>3
<1>6. \A i \in DOMAIN rest : n + i \in DOMAIN l /\ n + i > n /\ rest[i] = l[n + i] /\ i \in Int
  <2> SUFFICES ASSUME NEW i \in DOMAIN rest
               PROVE  n + i \in DOMAIN l /\ n + i > n /\ rest[i] = l[n + i] /\ i \in Int
    OBVIOUS
  <2>1. /\ i \in Int /\ n + i \in 1..len /\ n + i > n /\ n + 1 + i - 1 = n + i
        /\ i \in 1..(len - (n + 1) + 1)
    BY <1>4, <1>5, Zenon
  <2>2. rest[i] = l[n + 1 + i - 1]
    BY <1>3, <2>1, Zenon
  <2> QED
    BY <1>1, <2>1, <2>2, Zenon
<1>7. Clean(rest)
  <2>0. \A x, y \in Int : n + x = n + y => x = y
    OBVIOUS
  <2> SUFFICES ASSUME NEW i \in DOMAIN rest, NEW j \in DOMAIN rest, rest[i].id = rest[j].id PROVE i = j
    BY <1>3 DEF Clean
  <2>1. n + i = n + j
    BY <1>6 DEF Clean
  <2>2. i \in Int /\ j \in Int
    BY <1>6
  <2> QED
    BY <2>0, <2>1, <2>2, Zenon
<1>8. IdsOf(rest) \subseteq IdsOf(l)
  BY <1>6 DEF IdsOf
<1>9. ASSUME NEW i \in DOMAIN rest, NEW j \in DOMAIN Cut(l, n), rest[i].id = Cut(l, n)[j].id PROVE FALSE
  <2>1. j \in DOMAIN l /\ j <= n /\ Cut(l, n)[j] = l[j]
    BY CutShape
  <2>2. n + i = j
    BY <1>6, <1>9, <2>1 DEF Clean
  <2>3. j > n /\ j \in Int
    BY <1>6, <2>2
  <2> QED
    BY <2>1, <2>3
<1>10. IdsOf(rest) \cap IdsOf(Cut(l, n)) = {}
  BY <1>9 DEF IdsOf
<1> QED
  BY <1>7, <1>8, <1>10 DEF rest, len

LEMMA JoinedClean ==
  ASSUME NEW a, NEW b, Clean(a), Clean(b), IdsOf(a) \cap IdsOf(b) = {}
  PROVE  Clean(a \o b) /\ IdsOf(a \o b) = IdsOf(a) \cup IdsOf(b)
<1>1. /\ a \in Seq(Result) /\ Len(a) \in Nat /\ DOMAIN a = 1..Len(a)
      /\ b \in Seq(Result) /\ Len(b) \in Nat /\ DOMAIN b = 1..Len(b)
  <2>1. a \in Seq(Result) /\ b \in Seq(Result)
    BY DEF Clean
  <2> QED
    BY <2>1
<1> DEFINE ab == a \o b
<1>2. /\ ab \in Seq(Result) /\ Len(ab) = Len(a) + Len(b)
      /\ \A i \in 1..Len(a) + Len(b) : ab[i] = IF i <= Len(a) THEN a[i] ELSE b[i - Len(a)]
  BY <1>1, ConcatProperties
<1> HIDE DEF ab
<1>3. DOMAIN ab = 1..(Len(a) + Len(b))
  BY <1>2
<1>4. ASSUME NEW i \in DOMAIN ab
      PROVE  \/ i <= Len(a) /\ i \in DOMAIN a /\ ab[i] = a[i]
             \/ i > Len(a) /\ i - Len(a) \in DOMAIN b /\ ab[i] = b[i - Len(a)]
  BY <1>1, <1>2, <1>3
<1>5. \A i \in DOMAIN a : i \in DOMAIN ab /\ ab[i] = a[i]
  BY <1>1, <1>2, <1>3
<1>6. ASSUME NEW i \in DOMAIN b PROVE Len(a) + i \in DOMAIN ab /\ ab[Len(a) + i] = b[i]
  <2>1. Len(a) + i \in 1..(Len(a) + Len(b)) /\ ~(Len(a) + i <= Len(a)) /\ Len(a) + i - Len(a) = i
    BY <1>1
  <2> QED
    BY <1>2, <1>3, <2>1
<1>7. IdsOf(ab) = IdsOf(a) \cup IdsOf(b)
  <2>1. IdsOf(ab) \subseteq IdsOf(a) \cup IdsOf(b)
    BY <1>4 DEF IdsOf
  <2>2. IdsOf(a) \subseteq IdsOf(ab)
    BY <1>5 DEF IdsOf
  <2>3. IdsOf(b) \subseteq IdsOf(ab)
    BY <1>6 DEF IdsOf
  <2> QED
    BY <2>1, <2>2, <2>3
<1>8. ASSUME NEW i \in DOMAIN ab, NEW j \in DOMAIN ab, ab[i].id = ab[j].id PROVE i = j
  <2>1. \A m \in DOMAIN a : a[m].id \in IdsOf(a)
    BY DEF IdsOf
  <2>2. \A m \in DOMAIN b : b[m].id \in IdsOf(b)
    BY DEF IdsOf
  <2>3. (i <= Len(a)) <=> (j <= Len(a))
    BY <1>1, <1>3, <1>4, <1>8, <2>1, <2>2
  <2>4. CASE i <= Len(a)
    <3>1. i \in DOMAIN a /\ j \in DOMAIN a /\ a[i].id = a[j].id
      BY <1>1, <1>3, <1>4, <1>8, <2>3, <2>4
    <3> QED
      BY <3>1 DEF Clean
  <2>5. CASE ~(i <= Len(a))
    <3>1. i - Len(a) \in DOMAIN b /\ j - Len(a) \in DOMAIN b /\ b[i - Len(a)].id = b[j - Len(a)].id
      BY <1>1, <1>3, <1>4, <1>8, <2>3, <2>5
    <3>2. i - Len(a) = j - Len(a)
      BY <3>1 DEF Clean
    <3> QED
      BY <1>1, <1>3, <3>2
  <2> QED
    BY <2>4, <2>5
<1>9. Clean(ab)
  BY <1>2, <1>8 DEF Clean
<1> QED
  BY <1>7, <1>9 DEF ab

-----------------------------------------------------------------------------
(* What the store and the vector search return *)

LEMMA RankedListsClean ==
  ASSUME NEW S \in SUBSET Ids, NEW scores \in SUBSET Int, NEW n \in Nat, NEW l \in RankedLists(S, scores, n)
  PROVE  Clean(l) /\ IdsOf(l) \subseteq S /\ Len(l) <= n
<1>1. IsFiniteSet(S) /\ Cardinality(S) \in Nat
  <2>1. IsFiniteSet(S)
    BY IdsAssumption, FS_Subset DEF Ids
  <2> QED
    BY <2>1, FS_CardinalityType
<1>2. PICK m \in 0..Atop(n, Cardinality(S)) :
        /\ l \in [1..m -> [id : S, score : scores]]
        /\ \A i, j \in 1..m : i < j => l[i].id # l[j].id
  BY DEF RankedLists
<1>3. m \in Nat /\ m <= n
  BY <1>1, <1>2 DEF Atop
<1>4. [id : S, score : scores] \subseteq Result
  BY DEF Result
<1>5. l \in Seq(Result) /\ Len(l) = m /\ DOMAIN l = 1..m
  BY <1>2, <1>3, <1>4
<1>6. Clean(l)
  <2> SUFFICES ASSUME NEW i \in 1..m, NEW j \in 1..m, l[i].id = l[j].id PROVE i = j
    BY <1>5 DEF Clean
  <2> QED
    BY <1>2, <1>3
<1>7. IdsOf(l) \subseteq S
  BY <1>2, <1>5 DEF IdsOf
<1> QED
  BY <1>3, <1>5, <1>6, <1>7

LEMMA BestClean ==
  ASSUME NEW table, DOMAIN table \subseteq Ids, \A s \in DOMAIN table : table[s] \in Nat,
         NEW n \in Nat, NEW greater \in BOOLEAN
  PROVE  /\ Clean(Best(table, n, greater)) /\ IdsOf(Best(table, n, greater)) \subseteq DOMAIN table
         /\ Len(Best(table, n, greater)) <= n
<1> DEFINE ids == {s \in DOMAIN table : table[s] > 0}
           Ahead0(a, b) == \/ table[a] > table[b]
                           \/ table[a] = table[b] /\ (IF greater THEN a > b ELSE a < b)
           before == [a \in ids |-> {b \in ids : \/ table[b] > table[a]
                                                 \/ table[b] = table[a] /\ (IF greater THEN b > a ELSE b < a)}]
           order == InOrder(before)
           all == [i \in DOMAIN order |-> [id |-> order[i], score |-> table[order[i]]]]
<1>1. IsFiniteSet(ids)
  BY IdsAssumption, FS_Subset DEF Ids
<1>2. \A a \in ids : a \in Int /\ table[a] \in Int /\ a \in Ids /\ a \in DOMAIN table
  BY IdsAssumption DEF Ids
<1>3. DOMAIN before = ids /\ \A a \in ids : before[a] = {b \in ids : Ahead0(b, a)}
  OBVIOUS
<1>4. Best(table, n, greater) = Cut(all, n)
  BY DEF Best
<1>5. /\ \A a \in ids : ~Ahead0(a, a)
      /\ \A a, b, c \in ids : Ahead0(a, b) /\ Ahead0(b, c) => Ahead0(a, c)
      /\ \A a, b \in ids : a = b \/ Ahead0(a, b) \/ Ahead0(b, a)
  BY <1>2
<1> HIDE DEF before, Ahead0, ids
<1>6. StrictOrder(before)
  <2>1. \A i \in ids : before[i] \subseteq ids /\ i \notin before[i]
    BY <1>3, <1>5
  <2>2. \A i, j \in ids : i = j \/ i \in before[j] \/ j \in before[i]
    BY <1>3, <1>5
  <2>3. ASSUME NEW i \in ids, NEW j \in ids, i \in before[j], NEW k \in before[i] PROVE k \in before[j]
    <3>1. k \in ids /\ Ahead0(k, i) /\ Ahead0(i, j)
      BY <1>3, <2>3
    <3>2. Ahead0(k, j)
      BY <1>5, <3>1
    <3> QED
      BY <1>3, <3>1, <3>2
  <2>4. \A i, j \in ids : i \in before[j] => before[i] \subseteq before[j]
    BY <2>3
  <2> QED
    BY <1>1, <1>3, <2>1, <2>2, <2>4 DEF StrictOrder
<1>7. Arranges(order, before)
  BY <1>6, InOrderArranges
<1> HIDE DEF order
<1>8. Distinct(order) /\ order \in Seq(ids)
  <2>1. Distinct(order) /\ order \in Seq(DOMAIN before)
    BY <1>6, <1>7, ArrangedDistinct
  <2> QED
    BY <1>3, <2>1
<1>9. \A i \in DOMAIN order : order[i] \in ids
  BY <1>8
<1>10. DOMAIN order = 1..Len(order) /\ Len(order) \in Nat
  BY <1>8
<1>11. DOMAIN all = DOMAIN order /\ \A i \in DOMAIN order : all[i].id = order[i] /\ all[i] \in Result
  BY <1>2, <1>9 DEF Result
<1> HIDE DEF all
<1>12. all \in Seq(Result)
  <2>1. all \in [1..Len(order) -> Result]
    BY <1>10, <1>11 DEF all
  <2> QED
    BY <1>10, <2>1
<1>13. Clean(all)
  BY <1>8, <1>11, <1>12 DEF Clean, Distinct
<1>14. IdsOf(all) \subseteq DOMAIN table
  BY <1>2, <1>9, <1>11 DEF IdsOf
<1>15. Clean(Cut(all, n)) /\ Len(Cut(all, n)) = Atop(n, Len(all)) /\ IdsOf(Cut(all, n)) \subseteq IdsOf(all)
  BY <1>13, CutShape
<1>16. Len(all) \in Nat /\ Atop(n, Len(all)) <= n
  BY <1>12 DEF Atop
<1> QED
  BY <1>4, <1>14, <1>15, <1>16

-----------------------------------------------------------------------------
(* The lists that are read for a query: no id twice in a list, symbols     *)
(* from the structure and chunks from the other two, as many as were asked *)
(* for.                                                                    *)
ListsInv ==
  /\ DOMAIN lists = Lists
  /\ \A n \in Lists : Clean(lists[n]) /\ Len(lists[n]) <= Depth
  /\ IdsOf(lists["structure"]) \subseteq Symbols
  /\ IdsOf(lists["keyword"]) \subseteq Chunks /\ IdsOf(lists["semantic"]) \subseteq Chunks

LEMMA JoinedElements ==
  ASSUME NEW S, NEW a \in Seq(S), NEW b \in Seq(S)
  PROVE  a \o b \in Seq(S) /\ Elements(a \o b) = Elements(a) \cup Elements(b)
<1> DEFINE ab == a \o b
           m == Len(a)
           n == Len(b)
<1>1. m \in Nat /\ DOMAIN a = 1..m /\ n \in Nat /\ DOMAIN b = 1..n
  OBVIOUS
<1>2. /\ ab \in Seq(S) /\ Len(ab) = m + n
      /\ \A i \in 1..m + n : ab[i] = IF i <= m THEN a[i] ELSE b[i - m]
  BY ConcatProperties
<1>3. DOMAIN ab = 1..(m + n)
  BY <1>2
<1> HIDE DEF ab, m, n
<1>4. \A i \in DOMAIN ab : ab[i] \in Elements(a) \cup Elements(b)
  <2> SUFFICES ASSUME NEW i \in DOMAIN ab PROVE ab[i] \in Elements(a) \cup Elements(b)
    OBVIOUS
  <2>1. (i <= m /\ i \in 1..m) \/ (~(i <= m) /\ i - m \in 1..n)
    BY <1>1, <1>3
  <2>2. ab[i] = IF i <= m THEN a[i] ELSE b[i - m]
    BY <1>2, <1>3
  <2> QED
    BY <1>1, <2>1, <2>2 DEF Elements
<1>5. \A i \in DOMAIN a : a[i] \in Elements(ab)
  <2> SUFFICES ASSUME NEW i \in 1..m PROVE a[i] \in Elements(ab)
    BY <1>1
  <2>1. i \in 1..(m + n) /\ i <= m
    BY <1>1
  <2>2. ab[i] = a[i] /\ i \in DOMAIN ab
    BY <1>2, <1>3, <2>1
  <2> QED
    BY <2>2 DEF Elements
<1>6. \A i \in DOMAIN b : b[i] \in Elements(ab)
  <2> SUFFICES ASSUME NEW i \in 1..n PROVE b[i] \in Elements(ab)
    BY <1>1
  <2>1. PICK j \in 1..(m + n) : j = m + i
    BY <1>1
  <2>2. ~(j <= m) /\ j - m = i
    BY <1>1, <2>1
  <2>3. ab[j] = IF j <= m THEN a[j] ELSE b[j - m]
    BY <1>2
  <2>4. ab[j] = b[i] /\ j \in DOMAIN ab
    BY <1>3, <2>2, <2>3
  <2> QED
    BY <2>4 DEF Elements
<1>7. Elements(ab) = Elements(a) \cup Elements(b)
  BY <1>4, <1>5, <1>6 DEF Elements
<1> QED
  BY <1>2, <1>7 DEF ab

LEMMA AllIdsShape ==
  ASSUME ListsInv
  PROVE  AllIds \in Seq(Ids) /\ Elements(AllIds) = Found
<1>1. ASSUME NEW n \in Lists PROVE IdsIn(n) \in Seq(Ids) /\ Elements(IdsIn(n)) = IdsOf(lists[n])
  <2>1. Clean(lists[n])
    BY DEF ListsInv
  <2>2. /\ Len(lists[n]) \in Nat /\ DOMAIN lists[n] = 1..Len(lists[n])
        /\ \A i \in DOMAIN lists[n] : lists[n][i] \in Result
    BY <2>1, CleanShape
  <2>3. \A i \in DOMAIN lists[n] : lists[n][i].id \in Ids
    BY <2>2 DEF Result
  <2>4. DOMAIN IdsIn(n) = DOMAIN lists[n] /\ \A i \in DOMAIN lists[n] : IdsIn(n)[i] = lists[n][i].id
    BY DEF IdsIn
  <2>5. IdsIn(n) \in [1..Len(lists[n]) -> Ids]
    BY <2>2, <2>3 DEF IdsIn
  <2>6. Elements(IdsIn(n)) = IdsOf(lists[n])
    BY <2>4 DEF Elements, IdsOf
  <2> QED
    BY <2>2, <2>5, <2>6
<1>2. "structure" \in Lists /\ "keyword" \in Lists /\ "semantic" \in Lists
  BY DEF Lists
<1> DEFINE two == IdsIn("structure") \o IdsIn("keyword")
<1>3. two \in Seq(Ids) /\ Elements(two) = IdsOf(lists["structure"]) \cup IdsOf(lists["keyword"])
  BY <1>1, <1>2, JoinedElements
<1> HIDE DEF two
<1>4. /\ two \o IdsIn("semantic") \in Seq(Ids)
      /\ Elements(two \o IdsIn("semantic")) = Elements(two) \cup Elements(IdsIn("semantic"))
  BY <1>1, <1>2, <1>3, JoinedElements
<1>5. AllIds = two \o IdsIn("semantic")
  BY DEF AllIds, two
<1>6. Found = IdsOf(lists["structure"]) \cup IdsOf(lists["keyword"]) \cup IdsOf(lists["semantic"])
  BY DEF Found, Lists
<1> QED
  BY <1>1, <1>2, <1>3, <1>4, <1>5, <1>6

(* Every id of the lists is met, and once.                                 *)
LEMMA MetShape ==
  ASSUME ListsInv
  PROVE  Met \in Seq(Ids) /\ Distinct(Met) /\ Elements(Met) = Found
<1> DEFINE all == AllIds
           len == Len(all)
           places == {i \in DOMAIN all : \A j \in 1..i - 1 : all[j] # all[i]}
<1>1. all \in Seq(Ids) /\ Elements(all) = Found
  BY AllIdsShape
<1>2. len \in Nat /\ DOMAIN all = 1..len
  BY <1>1
<1>3. Met = Picked(all, places)
  BY DEF Met
<1> HIDE DEF all, len
<1>4. places \in SUBSET DOMAIN all
  OBVIOUS
<1>5. ASSUME NEW i \in places, NEW j \in places, all[i] = all[j] PROVE i = j
  <2>1. i \in 1..len /\ j \in 1..len
    BY <1>2
  <2>2. ~(i < j) /\ ~(j < i)
    <3>1. i < j => i \in 1..j - 1
      BY <2>1
    <3>2. j < i => j \in 1..i - 1
      BY <2>1
    <3> QED
      BY <1>5, <3>1, <3>2
  <2> HIDE DEF places
  <2> QED
    BY <2>1, <2>2
<1>6. ASSUME NEW k \in DOMAIN all PROVE \E i \in places : all[i] = all[k]
  <2> DEFINE same == {i \in 1..len : all[i] = all[k]}
  <2>1. same \in SUBSET (1..len) /\ same # {}
    BY <1>2
  <2>2. PICK i \in same : \A j \in same : i <= j
    BY <1>2, <2>1, Least
  <2>3. i \in DOMAIN all /\ all[i] = all[k]
    BY <1>2
  <2>4. ASSUME NEW j \in 1..i - 1 PROVE all[j] # all[i]
    <3>1. j \in 1..len /\ ~(i <= j)
      BY <1>2, <2>3
    <3> QED
      BY <2>2, <2>3, <3>1
  <2> QED
    BY <2>3, <2>4
<1> HIDE DEF places
<1>7. PICK order : /\ order \in Seq(places) /\ Distinct(order)
                   /\ \A i \in places : \E p \in DOMAIN order : order[p] = i
                   /\ Picked(all, places) = Follow(all, order)
  BY <1>1, <1>4, PickedOrder
<1>8. order \in Seq(DOMAIN all) /\ \A p \in DOMAIN order : order[p] \in places
  BY <1>4, <1>7
<1>9. /\ Follow(all, order) \in Seq(Ids) /\ DOMAIN Follow(all, order) = DOMAIN order
      /\ \A p \in DOMAIN order : Follow(all, order)[p] = all[order[p]]
  BY <1>1, <1>8, FollowShape
<1>10. Distinct(Follow(all, order))
  BY <1>5, <1>7, <1>8, <1>9 DEF Distinct
<1>11. Elements(Follow(all, order)) = Elements(all)
  <2>1. \A p \in DOMAIN order : all[order[p]] \in Elements(all)
    BY <1>4, <1>8 DEF Elements
  <2>2. ASSUME NEW k \in DOMAIN all PROVE all[k] \in Elements(Follow(all, order))
    <3>1. PICK i \in places : all[i] = all[k]
      BY <1>6
    <3>2. PICK p \in DOMAIN order : order[p] = i
      BY <1>7
    <3> QED
      BY <1>9, <3>1, <3>2 DEF Elements
  <2> QED
    BY <1>9, <2>1, <2>2 DEF Elements
<1> QED
  BY <1>1, <1>3, <1>7, <1>9, <1>10, <1>11

(* A fusion has every id of the lists once, by the score it gives to it.   *)
LEMMA FusedShape ==
  ASSUME ListsInv, NEW score \in [Found -> Int]
  PROVE  /\ Clean(Fused(score)) /\ IdsOf(Fused(score)) = Found
         /\ \A id \in Found : ScoreIn(Fused(score), id) = score[id]
         /\ \A a, b \in Found : score[a] > score[b] => RankIn(Fused(score), a) < RankIn(Fused(score), b)
<1> DEFINE met == Met
           l == [i \in DOMAIN met |-> [id |-> met[i], score |-> score[met[i]]]]
           fused == Fused(score)
<1>1. met \in Seq(Ids) /\ Distinct(met) /\ Elements(met) = Found
  BY MetShape
<1>2. fused = Sorted(l)
  BY DEF Fused
<1> HIDE DEF met
<1>3. Len(met) \in Nat /\ DOMAIN met = 1..Len(met) /\ \A i \in DOMAIN met : met[i] \in Ids /\ met[i] \in Found
  BY <1>1 DEF Elements
<1>4. /\ DOMAIN l = DOMAIN met
      /\ \A i \in DOMAIN met : l[i] \in Result /\ l[i].id = met[i] /\ l[i].score = score[met[i]]
  BY <1>3 DEF Result
<1>5. l \in Seq(Result)
  <2>1. l \in [1..Len(met) -> Result]
    BY <1>3, <1>4
  <2> QED
    BY <1>3, <2>1
<1> HIDE DEF l, fused
<1>6. Clean(l)
  BY <1>1, <1>4, <1>5 DEF Clean, Distinct
<1>7. /\ Clean(fused) /\ Elements(fused) = Elements(l)
      /\ \A i, j \in DOMAIN l : Precedes(l, i, j) => RankIn(fused, l[i].id) < RankIn(fused, l[j].id)
  BY <1>2, <1>6, SortedShape
<1>8. \A id \in Found : \E i \in DOMAIN l : l[i].id = id
  BY <1>1, <1>4 DEF Elements
<1>9. ASSUME NEW k \in DOMAIN fused PROVE fused[k].id \in Found /\ fused[k].score = score[fused[k].id]
  <2>1. fused[k] \in Elements(l)
    BY <1>7 DEF Elements
  <2>2. PICK i \in DOMAIN l : l[i] = fused[k]
    BY <2>1 DEF Elements
  <2> QED
    BY <1>3, <1>4, <2>2
<1>10. IdsOf(fused) = Found
  <2>1. IdsOf(fused) \subseteq Found
    BY <1>9 DEF IdsOf
  <2>2. ASSUME NEW id \in Found PROVE id \in IdsOf(fused)
    <3>1. PICK i \in DOMAIN l : l[i].id = id
      BY <1>8
    <3>2. l[i] \in Elements(fused)
      BY <1>7 DEF Elements
    <3> QED
      BY <3>1, <3>2 DEF Elements, IdsOf
  <2> QED
    BY <2>1, <2>2
<1>11. ASSUME NEW id \in Found PROVE ScoreIn(fused, id) = score[id]
  <2>1. RankIn(fused, id) \in DOMAIN fused /\ fused[RankIn(fused, id)].id = id
        /\ ScoreIn(fused, id) = fused[RankIn(fused, id)].score
    BY <1>7, <1>10, IdHasRank
  <2> QED
    BY <1>9, <2>1
<1>12. ASSUME NEW a \in Found, NEW b \in Found, score[a] > score[b]
       PROVE  RankIn(fused, a) < RankIn(fused, b)
  <2>1. PICK i \in DOMAIN l : l[i].id = a
    BY <1>8
  <2>2. PICK j \in DOMAIN l : l[j].id = b
    BY <1>8
  <2>3. l[i].score = score[a] /\ l[j].score = score[b]
    BY <1>4, <2>1, <2>2
  <2>4. Precedes(l, i, j)
    BY <1>12, <2>3 DEF Precedes
  <2> QED
    BY <1>7, <2>1, <2>2, <2>4
<1> QED
  BY <1>7, <1>10, <1>11, <1>12 DEF fused

-----------------------------------------------------------------------------
(* Agreement of the lists *)

LEMMA ScoreIsNumber ==
  ASSUME NEW l, Clean(l), NEW id
  PROVE  ScoreIn(l, id) \in Int
<1>1. CASE id \in IdsOf(l)
  <2>1. RankIn(l, id) \in DOMAIN l /\ ScoreIn(l, id) = l[RankIn(l, id)].score
    BY <1>1, IdHasRank
  <2> QED
    BY <2>1, CleanShape DEF Result
<1>2. CASE id \notin IdsOf(l)
  BY <1>2 DEF ScoreIn
<1> QED
  BY <1>1, <1>2

(* The one that the lists say more for is before the other.                *)
Honours(l) ==
  \A a, b \in Found : Ahead(a, b) => RankIn(l, a) < RankIn(l, b) /\ ScoreIn(l, a) > ScoreIn(l, b)

LEMMA FusedHonours ==
  ASSUME ListsInv, NEW score \in [Found -> Int],
         \A a, b \in Found : Ahead(a, b) => score[a] > score[b]
  PROVE  Clean(Fused(score)) /\ IdsOf(Fused(score)) = Found /\ Honours(Fused(score))
<1>1. /\ Clean(Fused(score)) /\ IdsOf(Fused(score)) = Found
      /\ \A id \in Found : ScoreIn(Fused(score), id) = score[id]
      /\ \A a, b \in Found : score[a] > score[b] => RankIn(Fused(score), a) < RankIn(Fused(score), b)
  BY FusedShape
<1>2. Honours(Fused(score))
  BY <1>1 DEF Honours
<1> QED
  BY <1>1, <1>2

LEMMA LinearShape ==
  ASSUME ListsInv
  PROVE  Clean(Linear) /\ IdsOf(Linear) = Found /\ (q.strategy # "rrf" => Honours(Linear))
<1> DEFINE in(n, id) == ScoreIn(lists[n], id)
           score == [id \in Found |-> 5 * ScoreIn(lists["structure"], id) + 2 * ScoreIn(lists["keyword"], id)
                                      + 3 * ScoreIn(lists["semantic"], id)]
<1>1. \A n \in Lists : \A id \in Found : in(n, id) \in Int
  BY ScoreIsNumber DEF ListsInv
<1>2. "structure" \in Lists /\ "keyword" \in Lists /\ "semantic" \in Lists
  BY DEF Lists
<1>3. Linear = Fused(score)
  BY DEF Linear
<1>4. \A id \in Found : score[id] = 5 * in("structure", id) + 2 * in("keyword", id) + 3 * in("semantic", id)
  OBVIOUS
<1>5. DOMAIN score = Found /\ score = [id \in Found |-> score[id]]
  OBVIOUS
<1> HIDE DEF in, score
<1>6. \A id \in Found : /\ in("structure", id) \in Int /\ in("keyword", id) \in Int /\ in("semantic", id) \in Int
                       /\ score[id] \in Int
  BY <1>1, <1>2, <1>4
<1>7. score \in [Found -> Int]
  BY <1>5, <1>6
<1>8. Clean(Linear) /\ IdsOf(Linear) = Found
  BY <1>3, <1>7, FusedShape
<1>9. ASSUME q.strategy # "rrf" PROVE Honours(Linear)
  <2>1. ASSUME NEW a \in Found, NEW b \in Found, Ahead(a, b) PROVE score[a] > score[b]
    <3>1. /\ \A n \in Lists : in(n, a) >= in(n, b)
          /\ \E n \in Lists : in(n, a) > in(n, b)
      BY <1>9, <2>1 DEF Ahead, Standing, in
    <3>2. /\ in("structure", a) >= in("structure", b) /\ in("keyword", a) >= in("keyword", b)
          /\ in("semantic", a) >= in("semantic", b)
          /\ \/ in("structure", a) > in("structure", b) \/ in("keyword", a) > in("keyword", b)
             \/ in("semantic", a) > in("semantic", b)
      BY <3>1 DEF Lists
    <3> QED
      BY <1>4, <1>6, <3>2
  <2> QED
    BY <1>3, <1>7, <2>1, FusedHonours
<1> QED
  BY <1>8, <1>9

(* A share is greater the sooner a list has the result, and there is one.  *)
LEMMA ShareFollowsStanding ==
  ASSUME ListsInv, q.strategy = "rrf", q.k \in TopKs, NEW n \in Lists, NEW a, NEW b
  PROVE  /\ Share(lists[n], a) \in Nat
         /\ Standing(n, a) >= Standing(n, b) => Share(lists[n], a) >= Share(lists[n], b)
         /\ Standing(n, a) > Standing(n, b) => Share(lists[n], a) > Share(lists[n], b)
<1> DEFINE l == lists[n]
           in(id) == id \in IdsOf(l)
           rank(id) == RankIn(l, id)
           share(r) == Shares[r]
<1>1. Depth = q.k /\ q.k \in Nat /\ q.k <= Len(Shares)
  BY TopKsAssumption, SharesAssumption DEF Depth
<1>2. Clean(l) /\ Len(l) <= q.k /\ Len(l) \in Nat /\ DOMAIN l = 1..Len(l)
  BY <1>1, CleanShape DEF ListsInv
<1>3. \A r \in 1..q.k : r \in DOMAIN Shares /\ Shares[r] \in Nat /\ Shares[r] > 0
  BY <1>1, SharesAssumption
<1>4. \A id : in(id) => rank(id) \in DOMAIN l
  BY <1>2, IdHasRank
<1>5. \A id : in(id) => rank(id) \in 1..q.k
  BY <1>1, <1>2, <1>4
<1>6. \A id : Share(l, id) = IF in(id) THEN share(rank(id)) ELSE 0
  BY DEF Share
<1>7. \A id : Standing(n, id) = IF in(id) THEN q.k + 1 - rank(id) ELSE 0
  BY <1>1 DEF Standing, ScoreIn
<1>8. \A r, s \in 1..q.k : share(r) \in Nat /\ share(r) > 0 /\ (r < s => share(r) > share(s))
  BY <1>3, SharesAssumption
<1> HIDE DEF l, in, rank, share
<1>9. CASE in(a) /\ in(b)
  <2>1. rank(a) \in 1..q.k /\ rank(b) \in 1..q.k
    BY <1>5, <1>9
  <2>2. Share(l, a) = share(rank(a)) /\ Share(l, b) = share(rank(b))
    BY <1>6, <1>9
  <2>3. Standing(n, a) = q.k + 1 - rank(a) /\ Standing(n, b) = q.k + 1 - rank(b)
    BY <1>7, <1>9
  <2> QED
    BY <1>1, <1>8, <2>1, <2>2, <2>3 DEF l
<1>10. CASE in(a) /\ ~in(b)
  <2>1. rank(a) \in 1..q.k
    BY <1>5, <1>10
  <2>2. Share(l, a) = share(rank(a)) /\ Share(l, b) = 0
    BY <1>6, <1>10
  <2> QED
    BY <1>8, <2>1, <2>2 DEF l
<1>11. CASE ~in(a) /\ in(b)
  <2>1. rank(b) \in 1..q.k
    BY <1>5, <1>11
  <2>2. Share(l, a) = 0
    BY <1>6, <1>11
  <2>3. Standing(n, a) = 0 /\ Standing(n, b) = q.k + 1 - rank(b)
    BY <1>7, <1>11
  <2>4. ~(Standing(n, a) >= Standing(n, b)) /\ ~(Standing(n, a) > Standing(n, b))
    BY <1>1, <2>1, <2>3
  <2> QED
    BY <2>2, <2>4 DEF l
<1>12. CASE ~in(a) /\ ~in(b)
  <2>1. Share(l, a) = 0 /\ Share(l, b) = 0
    BY <1>6, <1>12
  <2>2. Standing(n, a) = 0 /\ Standing(n, b) = 0
    BY <1>7, <1>12
  <2> QED
    BY <2>1, <2>2 DEF l
<1> QED
  BY <1>9, <1>10, <1>11, <1>12

LEMMA RrfShape ==
  ASSUME ListsInv, q.strategy = "rrf", q.k \in TopKs
  PROVE  Clean(Rrf) /\ IdsOf(Rrf) = Found /\ Honours(Rrf)
<1> DEFINE in(n, id) == Share(lists[n], id)
           score == [id \in Found |-> Share(lists["structure"], id) + Share(lists["keyword"], id)
                                      + Share(lists["semantic"], id)]
<1>1. /\ \A n \in Lists : \A id \in Found : in(n, id) \in Nat
      /\ \A n \in Lists : \A a, b \in Found :
           /\ Standing(n, a) >= Standing(n, b) => in(n, a) >= in(n, b)
           /\ Standing(n, a) > Standing(n, b) => in(n, a) > in(n, b)
  BY ShareFollowsStanding
<1>2. "structure" \in Lists /\ "keyword" \in Lists /\ "semantic" \in Lists
  BY DEF Lists
<1>3. Rrf = Fused(score)
  BY DEF Rrf
<1>4. \A id \in Found : score[id] = in("structure", id) + in("keyword", id) + in("semantic", id)
  OBVIOUS
<1>5. DOMAIN score = Found /\ score = [id \in Found |-> score[id]]
  OBVIOUS
<1> HIDE DEF in, score
<1>6. \A id \in Found : /\ in("structure", id) \in Int /\ in("keyword", id) \in Int /\ in("semantic", id) \in Int
                       /\ score[id] \in Int
  BY <1>1, <1>2, <1>4
<1>7. score \in [Found -> Int]
  BY <1>5, <1>6
<1>8. ASSUME NEW a \in Found, NEW b \in Found, Ahead(a, b) PROVE score[a] > score[b]
  <2>1. /\ \A n \in Lists : in(n, a) >= in(n, b)
        /\ \E n \in Lists : in(n, a) > in(n, b)
    BY <1>1, <1>8 DEF Ahead
  <2>2. /\ in("structure", a) >= in("structure", b) /\ in("keyword", a) >= in("keyword", b)
        /\ in("semantic", a) >= in("semantic", b)
        /\ \/ in("structure", a) > in("structure", b) \/ in("keyword", a) > in("keyword", b)
           \/ in("semantic", a) > in("semantic", b)
    BY <2>1 DEF Lists
  <2> QED
    BY <1>4, <1>6, <2>2
<1> QED
  BY <1>3, <1>7, <1>8, FusedHonours

-----------------------------------------------------------------------------
(* The fusion around the vector hits *)

(* The results of a list with other scores.                                *)
LEMMA RescoredClean ==
  ASSUME NEW l, Clean(l), NEW m, m = [i \in DOMAIN l |-> m[i]],
         \A i \in DOMAIN l : m[i] \in Result /\ m[i].id = l[i].id
  PROVE  Clean(m) /\ IdsOf(m) = IdsOf(l) /\ Len(m) = Len(l) /\ DOMAIN m = DOMAIN l
<1>1. Len(l) \in Nat /\ DOMAIN l = 1..Len(l)
  BY CleanShape
<1>2. DOMAIN m = DOMAIN l
  BY Zenon
<1>3. m \in [1..Len(l) -> Result]
  BY <1>1
<1>4. m \in Seq(Result) /\ Len(m) = Len(l)
  BY <1>1, <1>3
<1>5. Clean(m)
  BY <1>2, <1>4 DEF Clean
<1>6. IdsOf(m) = IdsOf(l)
  BY <1>2 DEF IdsOf
<1> QED
  BY <1>2, <1>4, <1>5, <1>6

LEMMA QuotientIsNumber ==
  ASSUME NEW x \in Int, NEW d \in Nat \ {0}
  PROVE  x \div d \in Int
OBVIOUS

LEMMA BackboneShape ==
  ASSUME ListsInv
  PROVE  Clean(Backbone) /\ IdsOf(Backbone) = IdsOf(lists["semantic"])
<1> DEFINE l == lists["semantic"]
           boost(i) == Boost("keyword", l[i].id, One \div 100)
                       + Boost("structure", l[i].id, (15 * One) \div 1000)
           m == [i \in DOMAIN l |-> [l[i] EXCEPT !.score = @ + Boost("keyword", l[i].id, One \div 100)
                                         + Boost("structure", l[i].id, (15 * One) \div 1000)]]
<1>1. Clean(l)
  BY DEF ListsInv, Lists
<1>2. ASSUME NEW n \in Lists, NEW id, NEW unit \in Int PROVE Boost(n, id, unit) \in Int
  <2>1. Clean(lists[n])
    BY DEF ListsInv
  <2>2. CASE id \in IdsOf(lists[n])
    <3>1. RankIn(lists[n], id) \in Nat \ {0}
      <4>1. RankIn(lists[n], id) \in DOMAIN lists[n]
        BY <2>1, <2>2, IdHasRank
      <4>2. DOMAIN lists[n] = 1..Len(lists[n]) /\ Len(lists[n]) \in Nat
        BY <2>1, CleanShape
      <4> QED
        BY <4>1, <4>2
    <3>2. unit \div RankIn(lists[n], id) \in Int
      BY <3>1, QuotientIsNumber
    <3> QED
      BY <2>2, <3>2 DEF Boost
  <2>3. CASE id \notin IdsOf(lists[n])
    BY <2>3 DEF Boost
  <2> QED
    BY <2>2, <2>3
<1>3. One \div 100 \in Int /\ (15 * One) \div 1000 \in Int
  BY ScoresAssumption, QuotientIsNumber
<1>4. "keyword" \in Lists /\ "structure" \in Lists
  BY DEF Lists
<1>5. \A i \in DOMAIN l : boost(i) \in Int
  <2> SUFFICES ASSUME NEW i \in DOMAIN l PROVE boost(i) \in Int
    OBVIOUS
  <2>1. Boost("keyword", l[i].id, One \div 100) \in Int
    BY <1>2, <1>3, <1>4
  <2>2. Boost("structure", l[i].id, (15 * One) \div 1000) \in Int
    BY <1>2, <1>3, <1>4
  <2> QED
    BY <2>1, <2>2
<1>6. Backbone = m
  BY DEF Backbone
<1>7. \A i \in DOMAIN l : l[i] \in Result
  BY <1>1, CleanShape
<1>8. \A i \in DOMAIN l : m[i] \in Result /\ m[i].id = l[i].id
  <2> SUFFICES ASSUME NEW i \in DOMAIN l PROVE m[i] \in Result /\ m[i].id = l[i].id
    OBVIOUS
  <2>1. Boost("keyword", l[i].id, One \div 100) \in Int
    BY <1>2, <1>3, <1>4
  <2>2. Boost("structure", l[i].id, (15 * One) \div 1000) \in Int
    BY <1>2, <1>3, <1>4
  <2>3. m[i] = [l[i] EXCEPT !.score = @ + Boost("keyword", l[i].id, One \div 100)
                                         + Boost("structure", l[i].id, (15 * One) \div 1000)]
    OBVIOUS
  <2> HIDE DEF m
  <2> QED
    BY <1>7, <2>1, <2>2, <2>3 DEF Result
<1>9. m = [i \in DOMAIN l |-> m[i]]
  OBVIOUS
<1> HIDE DEF m
<1> QED
  BY <1>1, <1>6, <1>8, <1>9, RescoredClean

(* A few of the best of a list, with the scores of inserts.                *)
LEMMA FreshShape ==
  ASSUME ListsInv, NEW n \in Lists, NEW cap \in Nat, NEW unit \in Int, NEW m,
         m = LET l == Cut(lists[n], cap) IN [i \in DOMAIN l |-> [id |-> l[i].id, score |-> unit \div i]]
  PROVE  Clean(m) /\ IdsOf(m) \subseteq IdsOf(lists[n])
<1> DEFINE l == Cut(lists[n], cap)
<1>1. Clean(lists[n])
  BY DEF ListsInv
<1>2. Clean(l) /\ IdsOf(l) \subseteq IdsOf(lists[n])
  BY <1>1, CutShape
<1>3. m = [i \in DOMAIN l |-> [id |-> l[i].id, score |-> unit \div i]]
  OBVIOUS
<1> HIDE DEF l
<1>4. \A i \in DOMAIN l : i \in Nat \ {0} /\ l[i].id \in Ids
  <2>1. Len(l) \in Nat /\ DOMAIN l = 1..Len(l) /\ \A i \in DOMAIN l : l[i] \in Result
    BY <1>2, CleanShape
  <2> QED
    BY <2>1 DEF Result
<1>5. \A i \in DOMAIN l : unit \div i \in Int
  BY <1>4, QuotientIsNumber
<1>6. \A i \in DOMAIN l : m[i] \in Result /\ m[i].id = l[i].id
  BY <1>3, <1>4, <1>5 DEF Result
<1>7. m = [i \in DOMAIN l |-> m[i]]
  <2> DEFINE at(i) == [id |-> l[i].id, score |-> unit \div i]
  <2>1. m = [i \in DOMAIN l |-> at(i)]
    BY <1>3
  <2> HIDE DEF at
  <2> QED
    BY <2>1
<1>8. Clean(m) /\ IdsOf(m) = IdsOf(l)
  <2>1. \A x : /\ x = [i \in DOMAIN l |-> x[i]]
               /\ \A i \in DOMAIN l : x[i] \in Result /\ x[i].id = l[i].id
               => Clean(x) /\ IdsOf(x) = IdsOf(l)
    BY <1>2, RescoredClean
  <2> QED
    BY <1>6, <1>7, <2>1, Zenon
<1> QED
  BY <1>2, <1>8

LEMMA InsertsShape ==
  ASSUME ListsInv, q.k \in Nat
  PROVE  /\ Clean(Inserts) /\ IdsOf(Inserts) \cap IdsOf(Backbone) = {}
         /\ IdsOf(Inserts) \subseteq IdsOf(lists["structure"]) \cup IdsOf(lists["keyword"])
<1> DEFINE dense == IdsOf(Backbone)
           files == {FileOf[Backbone[i].id] : i \in 1..Atop(q.k, Len(Backbone))}
           fresh(n, cap, unit) ==
             LET l == Cut(lists[n], cap)
             IN  [i \in DOMAIN l |-> [id |-> l[i].id, score |-> unit \div i]]
           few == IF q.k < 6 THEN 1 ELSE Atop(3, q.k \div 3)
           symbols == fresh("structure", 2, One \div 50)
           chunks == fresh("keyword", few, One \div 100)
           fromSymbols == {i \in DOMAIN symbols : symbols[i].id \notin dense}
           fromChunks == {i \in DOMAIN chunks : /\ chunks[i].id \notin dense
                                                /\ FileOf[chunks[i].id] \notin files}
           structure == Picked(symbols, fromSymbols)
           keyword == Picked(chunks, fromChunks)
           most == Atop(2, q.k \div InsertEvery)
<1>1. Inserts = Cut(structure \o keyword, most)
  BY DEF Inserts
<1>2. "structure" \in Lists /\ "keyword" \in Lists
  BY DEF Lists
<1>3. One \div 50 \in Int /\ One \div 100 \in Int
  BY ScoresAssumption, QuotientIsNumber
<1>4. few \in Nat /\ most \in Nat
  BY TopKsAssumption DEF Atop
<1>5. Clean(symbols) /\ IdsOf(symbols) \subseteq IdsOf(lists["structure"])
  BY <1>2, <1>3, FreshShape
<1> HIDE DEF few, most, files, dense
<1>6. Clean(chunks) /\ IdsOf(chunks) \subseteq IdsOf(lists["keyword"])
  BY <1>2, <1>3, <1>4, FreshShape
<1> HIDE DEF symbols, chunks
<1>7. /\ Clean(structure) /\ IdsOf(structure) \subseteq IdsOf(symbols) /\ IdsOf(structure) \cap dense = {}
  <2>1. fromSymbols \in SUBSET DOMAIN symbols
    OBVIOUS
  <2>2. Clean(structure) /\ IdsOf(structure) = {symbols[i].id : i \in fromSymbols}
    BY <1>5, <2>1, PickedClean
  <2> HIDE DEF structure
  <2> QED
    BY <2>2 DEF IdsOf
<1>8. /\ Clean(keyword) /\ IdsOf(keyword) \subseteq IdsOf(chunks) /\ IdsOf(keyword) \cap dense = {}
  <2>1. fromChunks \in SUBSET DOMAIN chunks
    OBVIOUS
  <2>2. Clean(keyword) /\ IdsOf(keyword) = {chunks[i].id : i \in fromChunks}
    BY <1>6, <2>1, PickedClean
  <2> HIDE DEF keyword
  <2> QED
    BY <2>2 DEF IdsOf
<1> HIDE DEF structure, keyword
<1>9. IdsOf(structure) \subseteq Symbols /\ IdsOf(keyword) \subseteq Chunks
  BY <1>5, <1>6, <1>7, <1>8 DEF ListsInv
<1>10. IdsOf(structure) \cap IdsOf(keyword) = {}
  BY <1>9, IdsAssumption
<1>11. Clean(structure \o keyword) /\ IdsOf(structure \o keyword) = IdsOf(structure) \cup IdsOf(keyword)
  BY <1>7, <1>8, <1>10, JoinedClean
<1>12. Clean(Inserts) /\ IdsOf(Inserts) \subseteq IdsOf(structure) \cup IdsOf(keyword)
  BY <1>1, <1>4, <1>11, CutShape
<1> QED
  BY <1>5, <1>6, <1>7, <1>8, <1>12 DEF dense

LEMMA DenseShape ==
  ASSUME ListsInv, q.k \in Nat
  PROVE  Clean(DenseGuarded) /\ IdsOf(DenseGuarded) \subseteq Found
<1>1. Clean(Linear) /\ IdsOf(Linear) = Found
  BY LinearShape
<1>2. Clean(Backbone) /\ IdsOf(Backbone) = IdsOf(lists["semantic"])
  BY BackboneShape
<1>3. /\ Clean(Inserts) /\ IdsOf(Inserts) \cap IdsOf(Backbone) = {}
      /\ IdsOf(Inserts) \subseteq IdsOf(lists["structure"]) \cup IdsOf(lists["keyword"])
  BY InsertsShape
<1> DEFINE head == Cut(Backbone, Kept)
           rest == SubSeq(Backbone, Kept + 1, Len(Backbone))
<1>4. Kept \in Nat
  <2>1. Len(Inserts) \in Nat
    BY <1>3, CleanShape
  <2> QED
    BY <2>1 DEF Kept
<1>5. Clean(head) /\ IdsOf(head) \subseteq IdsOf(Backbone)
  BY <1>2, <1>4, CutShape
<1>6. /\ Clean(rest) /\ IdsOf(rest) \subseteq IdsOf(Backbone)
      /\ IdsOf(rest) \cap IdsOf(head) = {}
  BY <1>2, <1>4, RestShape
<1>7. Found = IdsOf(lists["structure"]) \cup IdsOf(lists["keyword"]) \cup IdsOf(lists["semantic"])
  BY DEF Found, Lists
<1>8. DenseGuarded = IF lists["semantic"] = <<>> THEN Linear ELSE (head \o Inserts) \o rest
  BY DEF DenseGuarded
<1> HIDE DEF head, rest
<1>9. Clean(head \o Inserts) /\ IdsOf(head \o Inserts) = IdsOf(head) \cup IdsOf(Inserts)
  BY <1>3, <1>5, JoinedClean
<1>10. /\ Clean((head \o Inserts) \o rest)
       /\ IdsOf((head \o Inserts) \o rest) = IdsOf(head \o Inserts) \cup IdsOf(rest)
  BY <1>3, <1>5, <1>6, <1>9, JoinedClean
<1> QED
  BY <1>1, <1>2, <1>3, <1>5, <1>6, <1>7, <1>8, <1>9, <1>10

-----------------------------------------------------------------------------
(* Demotion *)

LEMMA ScaledUp ==
  ASSUME NEW x \in Int, NEW y \in Int, NEW c \in Nat, x <= y
  PROVE  x * c <= y * c /\ x * c \in Int /\ y * c \in Int
OBVIOUS

(* More of a factor is less of a negative number.                          *)
LEMMA ScaledBy ==
  ASSUME NEW x \in Int, NEW c \in Nat, NEW d \in Nat, c <= d
  PROVE  (x >= 0 => x * c <= x * d) /\ (x <= 0 => x * d <= x * c)
<1>1. PICK e \in Nat : d = c + e
  BY d - c \in Nat
<1>2. x * d = x * c + x * e
  BY <1>1
<1>3. (x >= 0 => x * e >= 0) /\ (x <= 0 => x * e <= 0) /\ x * e \in Int /\ x * c \in Int
  OBVIOUS
<1> QED
  BY <1>2, <1>3

(* A demoted result is never moved before one that was not below it.       *)
LEMMA DemotedScores ==
  ASSUME NEW r \in Result, NEW s \in Result
  PROVE  /\ Demoted(r) \in Result /\ Demoted(r).id = r.id
         /\ s.score <= r.score /\ (r.id \in TestCode => s.id \in TestCode) => Demoted(s).score <= Demoted(r).score
<1> DEFINE U == Unit
           N == FactorNum
           D == FactorDen
           x == r.score
           y == s.score
<1>1. U \in Nat /\ N \in Nat /\ D \in Nat /\ N <= D /\ U <= D
  BY ScoresAssumption DEF Unit
<1>2. r.id \in Ids /\ x \in Int /\ y \in Int
  BY DEF Result
<1>3. ASSUME NEW e \in Result
      PROVE  Demoted(e) = [e EXCEPT !.score = IF e.id \notin TestCode THEN e.score * U * D
                                              ELSE IF e.score >= 0 THEN e.score * U * N ELSE e.score * D * D]
  BY DEF Demoted
<1>4. ASSUME NEW e \in Result
      PROVE  /\ Demoted(e).id = e.id
             /\ Demoted(e).score = IF e.id \notin TestCode THEN e.score * U * D
                                   ELSE IF e.score >= 0 THEN e.score * U * N ELSE e.score * D * D
  BY <1>3 DEF Result
<1>5. Demoted(r) \in Result
  <2>1. x * U * D \in Int /\ x * U * N \in Int /\ x * D * D \in Int
    BY <1>1, <1>2
  <2> QED
    BY <1>2, <1>3, <2>1 DEF Result
<1> DEFINE plain(e) == e.score * U * D
           lowered(e) == e.score * U * N
           raised(e) == e.score * D * D
<1>6. ASSUME y <= x, r.id \in TestCode => s.id \in TestCode PROVE Demoted(s).score <= Demoted(r).score
  <2>1. /\ plain(r) \in Int /\ plain(s) \in Int /\ lowered(r) \in Int /\ lowered(s) \in Int
        /\ raised(r) \in Int /\ raised(s) \in Int
    BY <1>1, <1>2 DEF Result
  <2>2. x * U \in Int /\ y * U \in Int /\ x * D \in Int /\ y * D \in Int
    BY <1>1, <1>2
  <2>3. y * U <= x * U /\ y * D <= x * D
    BY <1>1, <1>2, <1>6, ScaledUp
  <2>4. plain(s) <= plain(r) /\ lowered(s) <= lowered(r) /\ raised(s) <= raised(r)
    BY <1>1, <2>2, <2>3, ScaledUp
  <2>5. y >= 0 => lowered(s) <= plain(s)
    <3>1. y >= 0 => y * U >= 0
      BY <1>1, <1>2
    <3>2. y * U >= 0 => (y * U) * N <= (y * U) * D
      BY <1>1, <2>2, ScaledBy
    <3> QED
      BY <3>1, <3>2
  <2>6. y <= 0 => raised(s) <= plain(s)
    <3>1. y <= 0 => y * D <= y * U
      BY <1>1, <1>2, ScaledBy
    <3>2. y * D <= y * U => (y * D) * D <= (y * U) * D
      BY <1>1, <2>2, ScaledUp
    <3> QED
      BY <3>1, <3>2
  <2>7. x >= 0 => lowered(r) >= 0
    <3>1. x >= 0 => x * U >= 0
      BY <1>1, <1>2
    <3>2. x * U >= 0 => (x * U) * N >= 0
      BY <1>1, <2>2
    <3> QED
      BY <3>1, <3>2
  <2>8. y <= 0 => raised(s) <= 0
    <3>1. y <= 0 => y * D <= 0
      BY <1>1, <1>2
    <3>2. y * D <= 0 => (y * D) * D <= 0
      BY <1>1, <2>2
    <3> QED
      BY <3>1, <3>2
  <2>9. /\ Demoted(r).score = IF r.id \notin TestCode THEN plain(r) ELSE IF x >= 0 THEN lowered(r) ELSE raised(r)
        /\ Demoted(s).score = IF s.id \notin TestCode THEN plain(s) ELSE IF y >= 0 THEN lowered(s) ELSE raised(s)
    BY <1>4
  <2> HIDE DEF plain, lowered, raised, x, y
  <2> QED
    BY <1>2, <1>6, <2>1, <2>4, <2>5, <2>6, <2>7, <2>8, <2>9
<1> QED
  BY <1>4, <1>5, <1>6

(* A result stays before another that it was before and scored above,      *)
(* unless only the first is in test code.                                  *)
LEMMA RerankedShape ==
  ASSUME NEW l, Clean(l)
  PROVE  /\ Clean(Reranked(l)) /\ IdsOf(Reranked(l)) = IdsOf(l) /\ Len(Reranked(l)) = Len(l)
         /\ \A a, b \in IdsOf(l) :
              /\ RankIn(l, a) < RankIn(l, b) /\ ScoreIn(l, a) > ScoreIn(l, b)
              /\ Demotes /\ a \in TestCode => b \in TestCode
              => RankIn(Reranked(l), a) < RankIn(Reranked(l), b)
<1> DEFINE m == [i \in DOMAIN l |-> Demoted(l[i])]
<1>1. CASE ~Demotes
  BY <1>1 DEF Reranked
<1>2. CASE Demotes
  <2>1. Reranked(l) = Sorted(m)
    BY <1>2 DEF Reranked
  <2>2. Len(l) \in Nat /\ DOMAIN l = 1..Len(l) /\ \A i \in DOMAIN l : l[i] \in Result
    BY CleanShape
  <2>3. \A i \in DOMAIN l : m[i] \in Result /\ m[i].id = l[i].id
    BY <2>2, DemotedScores
  <2>4. m = [i \in DOMAIN l |-> m[i]]
    OBVIOUS
  <2>5. \A i, j \in DOMAIN l :
          l[j].score <= l[i].score /\ (l[i].id \in TestCode => l[j].id \in TestCode) => m[j].score <= m[i].score
    BY <2>2, DemotedScores
  <2> HIDE DEF m
  <2>6. Clean(m) /\ IdsOf(m) = IdsOf(l) /\ Len(m) = Len(l) /\ DOMAIN m = DOMAIN l
    BY <2>3, <2>4, RescoredClean
  <2>7. /\ Clean(Sorted(m)) /\ Elements(Sorted(m)) = Elements(m) /\ Len(Sorted(m)) = Len(m)
        /\ \A i, j \in DOMAIN m : Precedes(m, i, j) => RankIn(Sorted(m), m[i].id) < RankIn(Sorted(m), m[j].id)
    BY <2>6, SortedShape
  <2>8. ASSUME NEW e, NEW f, Elements(e) = Elements(f) PROVE IdsOf(e) = IdsOf(f)
    <3>1. IdsOf(e) = {r.id : r \in Elements(e)}
      BY DEF IdsOf, Elements
    <3>2. IdsOf(f) = {r.id : r \in Elements(f)}
      BY DEF IdsOf, Elements
    <3> QED
      BY <2>8, <3>1, <3>2
  <2>9. ASSUME NEW a \in IdsOf(l), NEW b \in IdsOf(l),
               RankIn(l, a) < RankIn(l, b) /\ ScoreIn(l, a) > ScoreIn(l, b), a \in TestCode => b \in TestCode
        PROVE  RankIn(Sorted(m), a) < RankIn(Sorted(m), b)
    <3> DEFINE i == RankIn(l, a)
               j == RankIn(l, b)
    <3>1. /\ i \in DOMAIN l /\ l[i].id = a /\ ScoreIn(l, a) = l[i].score
          /\ j \in DOMAIN l /\ l[j].id = b /\ ScoreIn(l, b) = l[j].score
      BY IdHasRank
    <3>2. i < j /\ l[i].score > l[j].score
      BY <2>9, <3>1
    <3> HIDE DEF i, j
    <3>3. l[j].score <= l[i].score
      BY <2>2, <3>1, <3>2 DEF Result
    <3>4. m[j].score <= m[i].score
      BY <2>5, <2>9, <3>1, <3>3
    <3>5. m[j].score \in Int /\ m[i].score \in Int
      BY <2>3, <3>1 DEF Result
    <3>6. Precedes(m, i, j)
      BY <3>2, <3>4, <3>5 DEF Precedes
    <3>7. m[i].id = a /\ m[j].id = b
      BY <2>3, <3>1
    <3> QED
      BY <2>6, <2>7, <3>1, <3>6, <3>7
  <2> QED
    BY <1>2, <2>1, <2>6, <2>7, <2>8, <2>9
<1> QED
  BY <1>1, <1>2

LEMMA CutRanks ==
  ASSUME NEW l, Clean(l), NEW n \in Nat, NEW id \in IdsOf(l)
  PROVE  /\ id \in IdsOf(Cut(l, n)) <=> RankIn(l, id) <= n
         /\ id \in IdsOf(Cut(l, n)) => RankIn(Cut(l, n), id) = RankIn(l, id)
<1>1. /\ Clean(Cut(l, n)) /\ DOMAIN Cut(l, n) = {i \in DOMAIN l : i <= n}
      /\ \A i \in DOMAIN Cut(l, n) : Cut(l, n)[i] = l[i]
  BY CutShape
<1> DEFINE r == RankIn(l, id)
<1>2. r \in DOMAIN l /\ l[r].id = id
  BY IdHasRank
<1> HIDE DEF r
<1>3. ASSUME r <= n PROVE id \in IdsOf(Cut(l, n)) /\ RankIn(Cut(l, n), id) = r
  <2>1. r \in DOMAIN Cut(l, n) /\ Cut(l, n)[r].id = id
    BY <1>1, <1>2, <1>3
  <2> QED
    BY <1>1, <2>1, RankOf
<1>4. ASSUME id \in IdsOf(Cut(l, n)) PROVE r <= n
  <2>1. PICK i \in DOMAIN Cut(l, n) : Cut(l, n)[i].id = id
    BY <1>4 DEF IdsOf
  <2>2. i \in DOMAIN l /\ i <= n /\ l[i].id = id
    BY <1>1, <2>1
  <2>3. i = r
    BY <1>2, <2>2 DEF Clean
  <2> QED
    BY <2>2, <2>3
<1> QED
  BY <1>3, <1>4 DEF r

-----------------------------------------------------------------------------
(* The invariant: what is fused has no id twice and, after a blend, all    *)
(* ids of the lists, those that the lists say more for before the others.  *)

WholeBlend == Hybrid(q) => /\ IdsOf(results) \subseteq Found
                           /\ q.strategy # "dense_guarded" => IdsOf(results) = Found

FoundInv == stage = "found" => Clean(results) /\ WholeBlend /\ (Blended => Honours(results))

QueryInv == /\ q \in Queries /\ (stage = "read" => Hybrid(q))
            /\ ListsInv
            /\ FoundInv
            /\ AnswerIsAPage
            /\ AheadIsFirst

LEMMA QueryShape ==
  ASSUME q \in Queries
  PROVE  /\ q.k \in TopKs /\ q.k \in Nat /\ Depth \in Nat
         /\ q.strategy \in {"linear", "rrf", "dense_guarded"}
<1>1. q.k \in TopKs /\ q.strategy \in Strategies
  BY DEF Queries
<1>2. q.k \in Nat
  BY <1>1, TopKsAssumption
<1>3. q.strategy \in {"linear", "rrf", "dense_guarded"}
  BY <1>1, StrategiesAssumption, Zenon
<1>4. Depth = q.k \/ Depth = 2 * q.k
  BY DEF Depth
<1>5. 2 * q.k \in Nat
  BY <1>2
<1> QED
  BY <1>1, <1>2, <1>3, <1>4, <1>5, Zenon

LEMMA NoListsShape ==
  ASSUME q \in Queries, lists = NoLists
  PROVE  ListsInv
<1> DEFINE none == <<>>
<1>1. none \in Seq(Result) /\ Len(none) = 0 /\ DOMAIN none = {}
  OBVIOUS
<1>2. DOMAIN lists = Lists /\ \A n \in Lists : lists[n] = none
  BY DEF NoLists
<1> HIDE DEF none
<1>3. Clean(none) /\ IdsOf(none) = {}
  BY <1>1 DEF Clean, IdsOf
<1>4. Len(none) <= Depth
  BY <1>1, QueryShape
<1>5. \A n \in Lists : Clean(lists[n]) /\ Len(lists[n]) <= Depth /\ IdsOf(lists[n]) = {}
  BY <1>2, <1>3, <1>4
<1> QED
  BY <1>2, <1>5 DEF ListsInv, Lists

THEOREM QueryInit == Init => QueryInv
<1> SUFFICES ASSUME Init PROVE QueryInv
  OBVIOUS
<1>1. q \in Queries /\ stage = "idle" /\ lists = NoLists
  BY DEF Init
<1>2. ListsInv
  BY <1>1, NoListsShape
<1> QED
  BY <1>1, <1>2 DEF QueryInv, FoundInv, AnswerIsAPage, AheadIsFirst

(* The lookups of one kind: what is found has no id twice.                 *)
LEMMA LookupsKeepInv ==
  ASSUME QueryInv, ReadSymbols \/ ReadDefinitions \/ ReadReferences \/ ReadCallers \/ ReadVectors
  PROVE  QueryInv'
<1>1. q' = q /\ lists' = lists /\ stage' = "found" /\ ~Hybrid(q)
  BY DEF ReadSymbols, ReadDefinitions, ReadReferences, ReadCallers, ReadVectors, Hybrid
<1>2. Depth \in Nat
  BY QueryShape DEF QueryInv
<1>3. Symbols \in SUBSET Ids /\ Chunks \in SUBSET Ids
  BY DEF Ids
<1>4. One \in Nat /\ {One} \in SUBSET Int /\ {One, 2 * One} \in SUBSET Int
      /\ Confidences \in SUBSET Int /\ SemanticScores \in SUBSET Int
  BY ScoresAssumption
<1>5. ASSUME ReadSymbols PROVE Clean(results')
  <2>1. PICK score \in [Symbols -> NameScores] : results' = Best(score, Depth, TRUE)
    BY <1>5 DEF ReadSymbols
  <2>2. NameScores \subseteq Nat
    BY <1>4 DEF NameScores
  <2>3. DOMAIN score \subseteq Ids /\ \A s \in DOMAIN score : score[s] \in Nat
    BY <1>3, <2>2
  <2> QED
    BY <1>2, <2>1, <2>3, BestClean
<1>6. ASSUME ReadDefinitions PROVE Clean(results')
  BY <1>2, <1>3, <1>4, <1>6, RankedListsClean DEF ReadDefinitions
<1>7. ASSUME ReadReferences PROVE Clean(results')
  BY <1>2, <1>3, <1>4, <1>7, RankedListsClean DEF ReadReferences
<1>8. ASSUME ReadCallers PROVE Clean(results')
  BY <1>2, <1>3, <1>4, <1>8, RankedListsClean DEF ReadCallers
<1>9. ASSUME ReadVectors PROVE Clean(results')
  BY <1>2, <1>3, <1>4, <1>9, RankedListsClean DEF ReadVectors
<1>10. Clean(results')
  BY <1>5, <1>6, <1>7, <1>8, <1>9
<1>11. Hybrid(q') = Hybrid(q)
  BY <1>1
<1>12. FoundInv'
  BY <1>1, <1>10, <1>11 DEF FoundInv, WholeBlend, Blended
<1>13. ListsInv'
  BY <1>1 DEF QueryInv, ListsInv, Depth
<1> QED
  BY <1>1, <1>12, <1>13 DEF QueryInv, AnswerIsAPage, AheadIsFirst

LEMMA ReadListsKeepsInv ==
  ASSUME QueryInv, ReadLists
  PROVE  QueryInv'
<1>1. q' = q /\ stage' = "read" /\ Hybrid(q)
  BY DEF ReadLists
<1>2. Depth \in Nat /\ Depth' = Depth
  BY <1>1, QueryShape DEF QueryInv, Depth
<1>3. Symbols \in SUBSET Ids /\ Chunks \in SUBSET Ids
  BY DEF Ids
<1>4. One \in Nat /\ KeywordScores \in SUBSET Int /\ SemanticScores \in SUBSET Int
  BY ScoresAssumption
<1>5. PICK score \in [Symbols -> IF q.known THEN NameScores ELSE {0}],
           keyword \in RankedLists(Chunks, KeywordScores, Depth),
           semantic \in RankedLists(Chunks, SemanticScores, Depth) :
        lists' = [structure |-> Best(score, Depth, TRUE), keyword |-> keyword, semantic |-> semantic]
  BY DEF ReadLists
<1>6. NameScores \subseteq Nat /\ {0} \subseteq Nat
  BY <1>4 DEF NameScores
<1>7. DOMAIN score = Symbols /\ \A s \in DOMAIN score : score[s] \in Nat
  BY <1>6
<1> DEFINE structure == Best(score, Depth, TRUE)
<1>8. Clean(structure) /\ IdsOf(structure) \subseteq Symbols /\ Len(structure) <= Depth
  BY <1>2, <1>3, <1>7, BestClean
<1>9. Clean(keyword) /\ IdsOf(keyword) \subseteq Chunks /\ Len(keyword) <= Depth
  BY <1>2, <1>3, <1>4, RankedListsClean
<1>10. Clean(semantic) /\ IdsOf(semantic) \subseteq Chunks /\ Len(semantic) <= Depth
  BY <1>2, <1>3, <1>4, RankedListsClean
<1> HIDE DEF structure
<1>11. /\ DOMAIN lists' = {"structure", "keyword", "semantic"}
       /\ lists'["structure"] = structure /\ lists'["keyword"] = keyword /\ lists'["semantic"] = semantic
  BY <1>5 DEF structure
<1>12. ListsInv'
  BY <1>2, <1>8, <1>9, <1>10, <1>11 DEF ListsInv, Lists
<1> QED
  BY <1>1, <1>12 DEF QueryInv, FoundInv, AnswerIsAPage, AheadIsFirst, Hybrid

LEMMA FuseKeepsInv ==
  ASSUME QueryInv, Fuse
  PROVE  QueryInv'
<1>1. q' = q /\ lists' = lists /\ stage = "read" /\ stage' = "found"
  BY DEF Fuse
<1>2. ListsInv /\ q.k \in TopKs /\ q.k \in Nat /\ q.strategy \in {"linear", "rrf", "dense_guarded"} /\ Hybrid(q)
  BY <1>1, QueryShape DEF QueryInv
<1> DEFINE Good(l) == /\ Clean(l) /\ IdsOf(l) \subseteq Found
                      /\ q.strategy # "dense_guarded" => IdsOf(l) = Found /\ Honours(l)
<1>3. ASSUME q.strategy = "linear" PROVE Good(results')
  <2>1. results' = Linear
    BY <1>3 DEF Fuse
  <2> QED
    BY <1>2, <1>3, <2>1, LinearShape
<1>4. ASSUME q.strategy = "rrf" PROVE Good(results')
  <2>1. results' = Rrf
    BY <1>4 DEF Fuse
  <2> QED
    BY <1>2, <1>4, <2>1, RrfShape
<1>5. ASSUME q.strategy = "dense_guarded" PROVE Good(results')
  <2>1. results' = DenseGuarded
    BY <1>5 DEF Fuse
  <2> QED
    BY <1>2, <1>5, <2>1, DenseShape
<1>6. Good(results')
  BY <1>2, <1>3, <1>4, <1>5
<1>7. Found' = Found /\ Depth' = Depth
  BY <1>1 DEF Found, Depth
<1>8. \A a, b : Ahead(a, b)' = Ahead(a, b)
  BY <1>1, <1>7 DEF Ahead, Standing
<1>9. q.strategy # "dense_guarded" => Honours(results)'
  BY <1>6, <1>7, <1>8 DEF Honours
<1>10. WholeBlend'
  BY <1>1, <1>6, <1>7 DEF WholeBlend
<1>11. Blended' => q.strategy # "dense_guarded"
  BY <1>1 DEF Blended
<1>12. FoundInv'
  BY <1>6, <1>9, <1>10, <1>11 DEF FoundInv
<1>13. ListsInv'
  BY <1>1, <1>2, <1>7 DEF ListsInv
<1> QED
  BY <1>1, <1>12, <1>13 DEF QueryInv, AnswerIsAPage, AheadIsFirst

LEMMA AnswerKeepsInv ==
  ASSUME QueryInv, Answer
  PROVE  QueryInv'
<1>1. q' = q /\ lists' = lists /\ stage = "found" /\ stage' = "answered" /\ results' = Cut(Reranked(results), q.k)
  BY DEF Answer
<1>2. ListsInv /\ q.k \in Nat /\ Clean(results) /\ WholeBlend /\ (Blended => Honours(results))
  BY <1>1, QueryShape DEF QueryInv, FoundInv
<1> DEFINE reranked == Reranked(results)
<1>3. /\ Clean(reranked) /\ IdsOf(reranked) = IdsOf(results) /\ Len(reranked) = Len(results)
      /\ \A a, b \in IdsOf(results) :
           /\ RankIn(results, a) < RankIn(results, b) /\ ScoreIn(results, a) > ScoreIn(results, b)
           /\ Demotes /\ a \in TestCode => b \in TestCode
           => RankIn(reranked, a) < RankIn(reranked, b)
  BY <1>2, RerankedShape
<1> HIDE DEF reranked
<1>4. /\ Clean(results') /\ Len(results') = Atop(q.k, Len(reranked)) /\ IdsOf(results') \subseteq IdsOf(reranked)
  BY <1>1, <1>2, <1>3, CutShape DEF reranked
<1>5. Found' = Found /\ Depth' = Depth
  BY <1>1 DEF Found, Depth
<1>6. \A a, b : Ahead(a, b)' = Ahead(a, b)
  BY <1>1, <1>5 DEF Ahead, Standing
<1>7. Cardinality(IdsOf(results')) = Len(results') /\ Cardinality(IdsOf(reranked)) = Len(reranked)
      /\ Len(reranked) \in Nat
  BY <1>3, <1>4, CleanIds
<1>8. AnswerIsAPage'
  <2>1. Len(results') <= q'.k
    BY <1>1, <1>2, <1>4, <1>7 DEF Atop
  <2>2. ASSUME Hybrid(q') PROVE IdsOf(results') \subseteq Found'
    BY <1>1, <1>2, <1>3, <1>4, <1>5, <2>2 DEF WholeBlend
  <2>3. ASSUME Hybrid(q'), q'.strategy # "dense_guarded" PROVE Len(results') = Atop(q'.k, Cardinality(Found'))
    BY <1>1, <1>2, <1>3, <1>4, <1>5, <1>7, <2>3 DEF WholeBlend
  <2> QED
    BY <1>7, <2>1, <2>2, <2>3 DEF AnswerIsAPage
<1>9. AheadIsFirst'
  <2> SUFFICES ASSUME Blended', NEW b \in IdsOf(results'), NEW a \in Found', Ahead(a, b)',
                      Demotes' /\ a \in TestCode => b \in TestCode
               PROVE  a \in IdsOf(results') /\ RankIn(results', a) < RankIn(results', b)
    BY DEF AheadIsFirst, PlaceOf
  <2>1. Blended /\ Hybrid(q) /\ q.strategy # "dense_guarded" /\ Demotes' = Demotes
    BY <1>1 DEF Blended, Demotes
  <2>2. IdsOf(results) = Found /\ IdsOf(reranked) = Found /\ Honours(results)
    BY <1>2, <1>3, <2>1 DEF WholeBlend
  <2>3. a \in Found /\ b \in Found /\ Ahead(a, b)
    BY <1>4, <1>5, <1>6, <2>2
  <2>4. RankIn(results, a) < RankIn(results, b) /\ ScoreIn(results, a) > ScoreIn(results, b)
    BY <2>2, <2>3 DEF Honours
  <2>5. RankIn(reranked, a) < RankIn(reranked, b)
    BY <1>3, <2>1, <2>2, <2>3, <2>4
  <2>6. results' = Cut(reranked, q.k)
    BY <1>1 DEF reranked
  <2>7. RankIn(reranked, b) <= q.k /\ RankIn(results', b) = RankIn(reranked, b)
    BY <1>2, <1>3, <2>2, <2>3, <2>6, CutRanks
  <2>8. RankIn(reranked, a) \in Int /\ RankIn(reranked, b) \in Int
    <3>1. RankIn(reranked, a) \in DOMAIN reranked /\ RankIn(reranked, b) \in DOMAIN reranked
      BY <1>3, <2>2, <2>3, IdHasRank
    <3> QED
      BY <1>3, <3>1, CleanShape
  <2>9. RankIn(reranked, a) <= q.k
    BY <1>2, <2>5, <2>7, <2>8
  <2>10. a \in IdsOf(results') /\ RankIn(results', a) = RankIn(reranked, a)
    BY <1>2, <1>3, <2>2, <2>3, <2>6, <2>9, CutRanks
  <2> QED
    BY <2>5, <2>7, <2>10
<1>10. ListsInv'
  BY <1>1, <1>2, <1>5 DEF ListsInv
<1> QED
  BY <1>1, <1>8, <1>9, <1>10 DEF QueryInv, FoundInv

THEOREM QueryNext == QueryInv /\ [Next]_vars => QueryInv'
<1> SUFFICES ASSUME QueryInv, [Next]_vars PROVE QueryInv'
  OBVIOUS
<1>1. CASE Refuse
  <2>1. q' = q /\ lists' = lists /\ results' = results /\ stage' = "refused"
    BY <1>1 DEF Refuse
  <2> QED
    BY <2>1 DEF QueryInv, ListsInv, Depth, FoundInv, AnswerIsAPage, AheadIsFirst
<1>2. CASE ReadSymbols \/ ReadDefinitions \/ ReadReferences \/ ReadCallers \/ ReadVectors
  BY <1>2, LookupsKeepInv
<1>3. CASE ReadLists
  BY <1>3, ReadListsKeepsInv
<1>4. CASE Fuse
  BY <1>4, FuseKeepsInv
<1>5. CASE Answer
  BY <1>5, AnswerKeepsInv
<1>6. CASE UNCHANGED vars
  <2>1. q' = q /\ lists' = lists /\ results' = results /\ stage' = stage
    BY <1>6 DEF vars
  <2>2. Found' = Found /\ Depth' = Depth /\ Demotes' = Demotes /\ Blended' = Blended
    BY <2>1 DEF Found, Depth, Demotes, Blended
  <2>3. \A a, b : Ahead(a, b)' = Ahead(a, b)
    BY <2>1, <2>2 DEF Ahead, Standing
  <2>4. ListsInv'
    BY <2>1, <2>2 DEF QueryInv, ListsInv
  <2>5. FoundInv'
    BY <2>1, <2>2, <2>3 DEF QueryInv, FoundInv, WholeBlend, Honours
  <2>6. AnswerIsAPage'
    BY <2>1, <2>2 DEF QueryInv, AnswerIsAPage
  <2>7. AheadIsFirst'
    BY <2>1, <2>2, <2>3 DEF QueryInv, AheadIsFirst, PlaceOf
  <2> QED
    BY <2>1, <2>4, <2>5, <2>6, <2>7 DEF QueryInv
<1> QED
  BY <1>1, <1>2, <1>3, <1>4, <1>5, <1>6 DEF Next

THEOREM QueryAlways == Spec => []QueryInv
<1>1. Init => QueryInv
  BY QueryInit
<1>2. QueryInv /\ [Next]_vars => QueryInv'
  BY QueryNext
<1> QED
  BY <1>1, <1>2, PTL DEF Spec

(* Of query: a page is at most as long as was asked for, has no result     *)
(* twice and, after a blend, is as full as the lists allow, whatever the   *)
(* lists, scores, pages and strategies are.                                *)
THEOREM AnswersArePages == Spec => []AnswerIsAPage
<1>1. QueryInv => AnswerIsAPage
  BY DEF QueryInv
<1> QED
  BY <1>1, QueryAlways, PTL

(* Of the blends and the demotion of test code: what every list says as    *)
(* much for, and one list more, is on the page before the other.           *)
THEOREM AheadComesFirst == Spec => []AheadIsFirst
<1>1. QueryInv => AheadIsFirst
  BY DEF QueryInv
<1> QED
  BY <1>1, QueryAlways, PTL
-----------------------------------------------------------------------------
(* The code graph: where its edges come from.                              *)

LEMMA LeastOf ==
  ASSUME NEW S \in SUBSET Nat, S # {}
  PROVE  \E x \in S : \A y \in S : x <= y
<1> DEFINE Less == {ss \in Nat \X Nat : ss[1] < ss[2]}
<1>1. IsWellFoundedOn(Less, Nat)
  BY NatLessThanWellFounded DEF OpToRel
<1>2. PICK x \in S : \A y \in S : <<y, x>> \notin Less
  <2> HIDE DEF Less
  <2> QED
    BY <1>1, WFMin
<1>3. x \in Nat /\ \A y \in S : y \in Nat /\ ~(y < x)
  BY <1>2
<1>4. \A y \in S : x <= y
  BY <1>3
<1> QED
  BY <1>4

LEMMA MinOf ==
  ASSUME NEW S \in SUBSET Nat, S # {}
  PROVE  Min(S) \in S /\ \A y \in S : Min(S) <= y
BY LeastOf DEF Min

LEMMA MaxOf ==
  ASSUME NEW S, NEW m \in Nat, S \subseteq 0..m, S # {}
  PROVE  Max(S) \in S /\ \A y \in S : y <= Max(S)
<1> DEFINE T == {m - x : x \in S}
<1>1. T \in SUBSET Nat /\ T # {}
  <2>1. \A x \in S : m - x \in Nat
    OBVIOUS
  <2> QED
    BY <2>1
<1>2. PICK t \in T : \A u \in T : t <= u
  <2> HIDE DEF T
  <2> QED
    BY <1>1, LeastOf
<1>3. PICK x \in S : t = m - x
  OBVIOUS
<1>4. x \in Int /\ \A y \in S : y \in Int /\ m - x <= m - y
  BY <1>2, <1>3
<1>5. \A y \in S : x >= y
  BY <1>4
<1>6. Max(S) \in S /\ \A y \in S : Max(S) >= y
  BY <1>5 DEF Max
<1> QED
  BY <1>4, <1>6

-----------------------------------------------------------------------------
(* What RowsAssumption says of a definition.                               *)
LEMMA Defines ==
  ASSUME NEW r \in Rows, NEW s \in Defined(r)
  PROVE  /\ s \in Names /\ s # NoOwner
         /\ r.at[s].line \in 0..LastLine /\ r.at[s].first \in Int /\ r.at[s].last \in Int
         /\ r.at[s].first > 0 => HasRange(r.at[s])
         /\ \A t \in Defined(r) : t # s => r.at[s].line # r.at[t].line
         /\ \A t \in Defined(r) : t # s /\ HasRange(r.at[s]) /\ HasRange(r.at[t]) => Nest(r.at[s], r.at[t])
<1>1. /\ Defined(r) \subseteq Names /\ NoOwner \notin Names
      /\ LET d == r.at[s] IN
            /\ d.line \in 0..LastLine /\ d.first \in Int /\ d.last \in Int /\ (d.first > 0 => HasRange(d))
            /\ \A t \in Defined(r) \ {s} : LET e == r.at[t] IN
                 d.line # e.line /\ (HasRange(d) /\ HasRange(e) => Nest(d, e))
  BY RowsAssumption
<1> QED
  BY <1>1

Likes(r, kinds) == {s \in Typed(r) : KindOf[s] \in kinds}
Around(r, kinds, line) == {s \in Likes(r, kinds) : line \in Span(r, Likes(r, kinds), s)}
Smallest(r, kinds, line) ==
  {s \in Around(r, kinds, line) : \A t \in Around(r, kinds, line) :
     Size(r, Likes(r, kinds), s) <= Size(r, Likes(r, kinds), t)}

LEMMA SpanIsInterval ==
  ASSUME NEW r \in Rows, NEW likes \in SUBSET Defined(r), NEW s \in likes
  PROVE  /\ \E a, b \in Int : Span(r, likes, s) = a..b
         /\ Size(r, likes, s) \in Nat
<1> DEFINE d == r.at[s]
           start(t) == IF HasRange(r.at[t]) THEN r.at[t].first ELSE r.at[t].line
           after == {u \in likes : start(u) > d.line}
           later == {start(t) : t \in after}
           next == IF later = {} THEN LastLine ELSE Min(later) - 1
<1>1. d.line \in Nat /\ d.first \in Int /\ d.last \in Int /\ LastLine \in Nat
  BY Defines, RowsAssumption
<1>2. \A t \in likes : start(t) \in Int
  BY Defines
<1>3. later \in SUBSET Nat
  <2> HIDE DEF start, d
  <2>1. \A t \in after : start(t) \in Nat
    BY <1>1, <1>2
  <2> HIDE DEF after
  <2> QED
    BY <2>1
<1>4. next \in Int
  <2> HIDE DEF later
  <2>1. ASSUME later # {} PROVE Min(later) \in Nat
    <3>1. Min(later) \in later
      BY <1>3, <2>1, MinOf
    <3> QED
      BY <1>3, <3>1
  <2>2. LastLine \in Int
    BY <1>1
  <2>3. CASE later = {}
    BY <2>2, <2>3
  <2>4. CASE later # {}
    <3> DEFINE m == Min(later)
    <3>1. m \in Int /\ next = m - 1
      BY <2>1, <2>4
    <3> QED
      BY <3>1
  <2> QED
    BY <2>3, <2>4
<1>5. Span(r, likes, s) = IF HasRange(d) THEN d.first..d.last ELSE d.line..(IF next > d.line THEN next ELSE d.line)
  BY DEF Span
<1> HIDE DEF d, next
<1>6. \E a, b \in Int : Span(r, likes, s) = a..b
  <2>1. CASE HasRange(d)
    BY <1>1, <1>5, <2>1
  <2>2. CASE ~HasRange(d) /\ next > d.line
    BY <1>1, <1>4, <1>5, <2>2
  <2>3. CASE ~HasRange(d) /\ ~(next > d.line)
    BY <1>1, <1>5, <2>3
  <2> QED
    BY <2>1, <2>2, <2>3
<1>7. Cardinality(Span(r, likes, s)) \in Nat
  BY <1>6, FS_Interval, FS_CardinalityType
<1>8. Size(r, likes, s) \in Nat
  BY <1>7 DEF Size
<1> QED
  BY <1>6, <1>8

(* Some definition is smallest around a line as soon as any is around it.  *)
LEMMA OwnerIsSmallest ==
  ASSUME NEW r \in Rows, NEW kinds, NEW line
  PROVE  /\ Around(r, kinds, line) = {} => OwnerAt(r, kinds, line) = NoOwner
         /\ Around(r, kinds, line) # {} => OwnerAt(r, kinds, line) \in Smallest(r, kinds, line)
<1> DEFINE L == Likes(r, kinds)
           A == Around(r, kinds, line)
           S == Smallest(r, kinds, line)
           size(s) == Size(r, L, s)
<1>1. L \subseteq Defined(r) /\ A \subseteq L
  BY DEF Likes, Typed, Around
<1>2. OwnerAt(r, kinds, line) =
        IF A = {} THEN NoOwner ELSE CHOOSE s \in S : \A t \in S : r.at[s].line <= r.at[t].line
  BY DEF OwnerAt, Around, Smallest, Likes
<1>3. ASSUME A # {} PROVE \E s \in S : \A t \in S : r.at[s].line <= r.at[t].line
  <2>1. \A s \in A : size(s) \in Nat
    BY <1>1, SpanIsInterval
  <2>2. \E s \in A : \A t \in A : size(s) <= size(t)
    <3> DEFINE sizes == {size(s) : s \in A}
    <3> HIDE DEF size, A
    <3>1. sizes \in SUBSET Nat /\ sizes # {}
      BY <1>3, <2>1
    <3>2. PICK n \in sizes : \A k \in sizes : n <= k
      <4> HIDE DEF sizes
      <4> QED
        BY <3>1, LeastOf
    <3> QED
      BY <3>2
  <2>3. S # {} /\ S \subseteq A
    BY <2>2 DEF Smallest
  <2>4. \A s \in S : r.at[s].line \in Nat
    BY <1>1, <2>3, Defines, RowsAssumption
  <2> DEFINE lines == {r.at[s].line : s \in S}
  <2> HIDE DEF S
  <2>5. lines \in SUBSET Nat /\ lines # {}
    BY <2>3, <2>4
  <2>6. PICK n \in lines : \A k \in lines : n <= k
    <3> HIDE DEF lines
    <3> QED
      BY <2>5, LeastOf
  <2> QED
    BY <2>6
<1> HIDE DEF A, S
<1> QED
  BY <1>2, <1>3 DEF A, S

-----------------------------------------------------------------------------
(* With ranges everywhere, who is smallest around a line is innermost, and *)
(* nobody else.                                                            *)
LEMMA SmallestIsInnermost ==
  ASSUME NEW r \in Rows, AllRanged(r), NEW line \in Int, NEW a \in Methods(r)
  PROVE  Innermost(r, line, a) <=> OwnerAt(r, {"method"}, line) = a
<1> DEFINE M == Methods(r)
           A == Around(r, {"method"}, line)
           size(s) == Size(r, M, s)
<1>1. M \subseteq Defined(r) /\ M = Likes(r, {"method"})
  BY DEF Methods, Likes, Typed
<1>2. \A s \in M : /\ HasRange(r.at[s]) /\ r.at[s].first \in Int /\ r.at[s].last \in Int
                   /\ r.at[s].first <= r.at[s].last
                   /\ \A t \in M : t # s => Nest(r.at[s], r.at[t])
  BY <1>1, Defines DEF AllRanged, HasRange
<1>3. \A s \in M : Span(r, M, s) = r.at[s].first..r.at[s].last
  BY <1>2 DEF Span
<1>4. \A s \in M : size(s) = r.at[s].last - r.at[s].first + 1
  <2> SUFFICES ASSUME NEW s \in M PROVE size(s) = r.at[s].last - r.at[s].first + 1
    OBVIOUS
  <2> DEFINE f == r.at[s].first
             l == r.at[s].last
  <2>1. f \in Int /\ l \in Int /\ f <= l /\ HasRange(r.at[s]) /\ Span(r, M, s) = f..l
    BY <1>2, <1>3
  <2>2. size(s) = Cardinality(f..l) + 0
    BY <2>1 DEF Size
  <2> HIDE DEF f, l, size
  <2>3. Cardinality(f..l) = l - f + 1
    BY <2>1, FS_Interval
  <2>4. size(s) = l - f + 1
    BY <2>1, <2>2, <2>3
  <2> QED
    BY <2>4 DEF f, l
<1>5. A = {s \in M : r.at[s].first <= line /\ line <= r.at[s].last}
  BY <1>1, <1>2, <1>3 DEF Around
<1>6. ASSUME NEW s \in A, NEW t \in A, r.at[t].first > r.at[s].first PROVE ~(size(s) <= size(t))
  <2> DEFINE sf == r.at[s].first
             sl == r.at[s].last
             tf == r.at[t].first
             tl == r.at[t].last
  <2>1. s \in M /\ t \in M /\ sf <= line /\ line <= sl /\ tf <= line /\ line <= tl /\ tf > sf
    BY <1>5, <1>6
  <2>2. sf \in Int /\ sl \in Int /\ tf \in Int /\ tl \in Int
    BY <1>2, <2>1
  <2>3. s # t
    BY <2>1, <2>2
  <2>4. \/ sl < tf \/ tl < sf
        \/ sf < tf /\ tl <= sl
        \/ tf < sf /\ sl <= tl
    BY <1>2, <2>1, <2>3 DEF Nest
  <2>5. size(s) = sl - sf + 1 /\ size(t) = tl - tf + 1
    BY <1>4, <2>1
  <2> HIDE DEF sf, sl, tf, tl, size, A, M
  <2> QED
    BY <2>1, <2>2, <2>4, <2>5
<1>7. ASSUME NEW s \in A, NEW t \in A, s # t PROVE r.at[s].first # r.at[t].first
  <2> DEFINE sf == r.at[s].first
             sl == r.at[s].last
             tf == r.at[t].first
             tl == r.at[t].last
  <2>1. s \in M /\ t \in M /\ sf <= line /\ line <= sl /\ tf <= line /\ line <= tl
    BY <1>5
  <2>2. sf \in Int /\ sl \in Int /\ tf \in Int /\ tl \in Int
    BY <1>2, <2>1
  <2>4. \/ sl < tf \/ tl < sf
        \/ sf < tf /\ tl <= sl
        \/ tf < sf /\ sl <= tl
    BY <1>2, <1>7, <2>1 DEF Nest
  <2> HIDE DEF sf, sl, tf, tl, A, M
  <2>5. sf # tf
    BY <2>1, <2>2, <2>4
  <2> QED
    BY <2>5 DEF sf, tf
<1>8. Innermost(r, line, a) <=> a \in A /\ \A t \in A : ~(r.at[t].first > r.at[a].first)
  <2>1. \A s \in M : line \in r.at[s].first..r.at[s].last <=> s \in A
    BY <1>2, <1>5
  <2> QED
    BY <2>1, <1>5 DEF Innermost
<1>9. Smallest(r, {"method"}, line) = {s \in A : \A t \in A : size(s) <= size(t)}
  BY <1>1 DEF Smallest
<1>10. a # NoOwner
  BY <1>1, Defines
<1>11. \A s \in A : r.at[s].first \in Int /\ size(s) \in Int
  BY <1>2, <1>4, <1>5
<1> DEFINE owner == OwnerAt(r, {"method"}, line)
<1>12. /\ A = {} => owner = NoOwner
       /\ A # {} => owner \in A /\ \A t \in A : size(owner) <= size(t)
  BY <1>9, OwnerIsSmallest
<1> HIDE DEF A, size, owner
<1>13. ASSUME Innermost(r, line, a) PROVE owner = a
  <2>1. a \in A /\ owner \in A /\ size(owner) <= size(a)
    BY <1>8, <1>12, <1>13
  <2>2. ~(r.at[owner].first > r.at[a].first) /\ ~(r.at[a].first > r.at[owner].first)
    BY <1>6, <1>8, <1>13, <2>1
  <2> QED
    BY <1>7, <1>11, <2>1, <2>2
<1>14. ASSUME owner = a PROVE Innermost(r, line, a)
  <2>1. a \in A /\ \A t \in A : size(a) <= size(t)
    BY <1>10, <1>12, <1>14
  <2> QED
    BY <1>6, <1>8, <2>1
<1> QED
  BY <1>13, <1>14 DEF owner

(* Without any, who is smallest around a line is the last above it.        *)
LEMMA SmallestIsLastAbove ==
  ASSUME NEW r \in Rows, NoneRanged(r), NEW line \in 0..LastLine, NEW a \in Methods(r)
  PROVE  LastAbove(r, line, a) <=> OwnerAt(r, {"method"}, line) = a
<1> DEFINE M == Methods(r)
           A == Around(r, {"method"}, line)
<1>1. M \subseteq Defined(r) /\ M = Likes(r, {"method"})
  BY DEF Methods, Likes, Typed
<1>2. \A s \in M : ~HasRange(r.at[s]) /\ r.at[s].line \in 0..LastLine /\ \A t \in M : t # s => r.at[t].line # r.at[s].line
  <2>1. \A s \in M : r.at[s].first \in Int /\ r.at[s].first < 0
    BY <1>1, Defines DEF NoneRanged
  <2>2. \A s \in M : ~HasRange(r.at[s])
    BY <2>1 DEF HasRange
  <2> QED
    BY <1>1, <2>2, Defines
<1>3. line \in Nat /\ LastLine \in Nat /\ line <= LastLine
  BY RowsAssumption
<1>4. ASSUME NEW s \in M PROVE line \in Span(r, M, s) <=> LastAbove(r, line, s)
  <2> DEFINE n == r.at[s].line
             start(t) == IF HasRange(r.at[t]) THEN r.at[t].first ELSE r.at[t].line
             after == {t \in M : r.at[t].line > n}
             later == {r.at[t].line : t \in after}
             next == IF later = {} THEN LastLine ELSE Min(later) - 1
             end == IF next > n THEN next ELSE n
  <2>1. n \in Nat /\ \A t \in M : r.at[t].line \in Nat
    BY <1>2, <1>3
  <2>2. \A t \in M : start(t) = r.at[t].line
    BY <1>2
  <2>3. {start(t) : t \in {u \in M : start(u) > n}} = later
    <3> HIDE DEF start, n, M
    <3>1. {u \in M : start(u) > n} = after
      BY <2>2
    <3>2. after \subseteq M
      OBVIOUS
    <3> HIDE DEF after
    <3> QED
      BY <2>2, <3>1, <3>2
  <2>4. Span(r, M, s) = n..end
    <3>1. ~HasRange(r.at[s])
      BY <1>2
    <3> HIDE DEF later
    <3> QED
      BY <2>3, <3>1 DEF Span
  <2>5. later \in SUBSET Nat
    BY <2>1
  <2>6. LastAbove(r, line, s) <=> n <= line /\ \A k \in later : ~(k <= line)
    BY DEF LastAbove
  <2>7. \A k \in later : k > n
    OBVIOUS
  <2> HIDE DEF later, n
  <2>8. CASE later = {}
    <3>1. line \in n..end <=> n <= line
      BY <1>3, <2>1, <2>8
    <3> QED
      BY <2>4, <2>6, <2>8, <3>1
  <2>9. CASE later # {}
    <3> DEFINE m == Min(later)
    <3>1. m \in later /\ \A k \in later : m <= k
      BY <2>5, <2>9, MinOf
    <3>2. m \in Nat /\ m > n /\ next = m - 1
      BY <2>5, <2>7, <2>9, <3>1
    <3> HIDE DEF m, next
    <3>3. (\A k \in later : ~(k <= line)) <=> line <= m - 1
      <4>1. \A k \in later : k \in Nat /\ m <= k
        BY <2>5, <3>1
      <4> QED
        BY <1>3, <3>1, <3>2, <4>1
    <3>4. end = m - 1
      BY <2>1, <3>2
    <3> HIDE DEF end
    <3>5. line \in n..end <=> n <= line /\ line <= m - 1
      BY <1>3, <2>1, <3>2, <3>4
    <3> QED
      BY <2>4, <2>6, <3>3, <3>5
  <2> QED
    BY <2>8, <2>9
<1>5. A = {s \in M : LastAbove(r, line, s)}
  BY <1>1, <1>4 DEF Around
<1>6. \A s, t \in A : s = t
  <2> SUFFICES ASSUME NEW s \in A, NEW t \in A, s # t PROVE FALSE
    OBVIOUS
  <2> DEFINE n == r.at[s].line
             m == r.at[t].line
  <2>1. s \in M /\ t \in M /\ LastAbove(r, line, s) /\ LastAbove(r, line, t)
    BY <1>5
  <2>2. n \in Nat /\ m \in Nat /\ n # m
    BY <1>2, <1>3, <2>1
  <2>3. n <= line /\ m <= line /\ ~(n < m /\ m <= line) /\ ~(m < n /\ n <= line)
    BY <2>1 DEF LastAbove
  <2> QED
    BY <2>2, <2>3
<1>7. a # NoOwner
  BY <1>1, Defines
<1> DEFINE owner == OwnerAt(r, {"method"}, line)
<1>8. /\ A = {} => owner = NoOwner
      /\ A # {} => owner \in A
  BY OwnerIsSmallest DEF Smallest
<1>9. LastAbove(r, line, a) <=> a \in A
  BY <1>5
<1> HIDE DEF A, owner
<1> QED
  BY <1>6, <1>7, <1>8, <1>9 DEF owner

LEMMA OwnerIsTyped ==
  ASSUME NEW r \in Rows, NEW kinds, NEW line, OwnerAt(r, kinds, line) # NoOwner
  PROVE  OwnerAt(r, kinds, line) \in Typed(r)
<1>1. OwnerAt(r, kinds, line) \in Smallest(r, kinds, line)
  BY OwnerIsSmallest
<1> QED
  BY <1>1 DEF Smallest, Around, Likes

LEMMA SourceIsTyped ==
  ASSUME NEW r \in Rows, NEW ref, Source(r, ref) # NoOwner
  PROVE  Source(r, ref) \in Typed(r)
BY OwnerIsTyped DEF Source

(* Edges of owners never are calls; those of relations are what related    *)
(* definitions have, with the greatest confidence; those of occurrences    *)
(* lead from the source of a reference to what it refers to.               *)
LEMMA OwnerEdgesSay ==
  ASSUME NEW r \in Rows, NEW e \in OwnerEdges(r)
  PROVE  e.src \in NodesOf(r) /\ e.dst \in NodesOf(r) /\ e.type = "belongs_to"
<1>1. PICK s \in {t \in Typed(r) : t \in TopTypes(r) \/ r.owner[t] \in NodesOf(r)} :
        e = [src |-> s, dst |-> IF s \in TopTypes(r) THEN r.package[s] ELSE r.owner[s],
             type |-> "belongs_to", confidence |-> 100, source |-> "owner"]
  BY DEF OwnerEdges
<1>2. e.src = s /\ e.dst = (IF s \in TopTypes(r) THEN r.package[s] ELSE r.owner[s]) /\ e.type = "belongs_to"
  BY <1>1
<1> QED
  BY <1>1, <1>2 DEF NodesOf

Joined(r) == {rel \in r.relations : {rel.from, rel.to} \subseteq NodesOf(r)}
Strongest(r) == {rel \in Joined(r) : \A o \in Joined(r) :
              <<o.from, o.to, o.type>> = <<rel.from, rel.to, rel.type>> => o.confidence <= rel.confidence}
EdgeOf(rel) == [src |-> rel.from, dst |-> rel.to, type |-> EdgeType(rel), confidence |-> rel.confidence, source |-> "relations"]

LEMMA EdgeTypes ==
  ASSUME NEW rel
  PROVE  EdgeType(rel) = "calls" <=> rel.type = "calls"
BY DEF EdgeType

LEMMA RelationEdgesSay ==
  ASSUME NEW r \in Rows
  PROVE  /\ \A e \in RelationEdges(r) : \E rel \in Strongest(r) : e = EdgeOf(rel)
         /\ \A rel \in Strongest(r) : rel.type = "calls" => EdgeOf(rel) \in RelationEdges(r)
<1> DEFINE of(implements) == {EdgeOf(rel) : rel \in {b \in Strongest(r) : (b.type = "implements") = implements}}
<1>1. RelationEdges(r) = Replace(of(FALSE), of(TRUE))
  BY DEF RelationEdges, Joined, Strongest, EdgeOf
<1>2. RelationEdges(r) \subseteq of(FALSE) \cup of(TRUE)
  BY <1>1 DEF Replace
<1>3. ASSUME NEW rel \in Strongest(r), rel.type = "calls" PROVE EdgeOf(rel) \in RelationEdges(r)
  <2>1. EdgeOf(rel) \in of(FALSE)
    BY <1>3
  <2>2. \A n \in of(TRUE) : n.type # "calls"
    <3>1. ASSUME NEW n \in of(TRUE) PROVE n.type # "calls"
      <4>1. PICK b \in Strongest(r) : b.type = "implements" /\ n = EdgeOf(b)
        OBVIOUS
      <4>2. n.type = EdgeType(b)
        BY <4>1 DEF EdgeOf
      <4> QED
        BY <4>1, <4>2, EdgeTypes
    <3> QED
      BY <3>1
  <2>3. EdgeOf(rel).type = "calls"
    BY <1>3, EdgeTypes DEF EdgeOf
  <2> QED
    BY <1>1, <2>1, <2>2, <2>3 DEF Replace, Key
<1>4. \A e \in of(FALSE) \cup of(TRUE) : \E rel \in Strongest(r) : e = EdgeOf(rel)
  OBVIOUS
<1> HIDE DEF of
<1> QED
  BY <1>2, <1>3, <1>4

Used(r) ==
  {ref \in r.refs : /\ ref.to \in NodesOf(r) /\ KindOf[ref.to] \in {"method", "field"}
                    /\ Source(r, ref) \notin {NoOwner, ref.to}}

LEMMA OccurrenceEdgesSay ==
  ASSUME NEW r \in Rows
  PROVE  /\ \A e \in OccurrenceEdges(r) : \E ref \in Used(r) :
              /\ e.src = Source(r, ref) /\ e.dst = ref.to
              /\ e.type = IF KindOf[ref.to] = "method" THEN "calls" ELSE "field_refs"
         /\ \A ref \in Used(r) : \E e \in OccurrenceEdges(r) :
              /\ e.src = Source(r, ref) /\ e.dst = ref.to
              /\ e.type = IF KindOf[ref.to] = "method" THEN "calls" ELSE "field_refs"
<1> DEFINE count(src, dst) == Cardinality({ref \in Used(r) : Source(r, ref) = src /\ ref.to = dst})
           n(ref) == 35 + 10 * count(Source(r, ref), ref.to)
           edge(ref) == [src |-> Source(r, ref), dst |-> ref.to,
                         type |-> IF KindOf[ref.to] = "method" THEN "calls" ELSE "field_refs",
                         confidence |-> IF n(ref) < 95 THEN n(ref) ELSE 95, source |-> "occurrences"]
<1>1. OccurrenceEdges(r) = {edge(ref) : ref \in Used(r)}
  BY DEF OccurrenceEdges, Used
<1>2. \A ref : /\ edge(ref).src = Source(r, ref) /\ edge(ref).dst = ref.to
               /\ edge(ref).type = IF KindOf[ref.to] = "method" THEN "calls" ELSE "field_refs"
  <2> HIDE DEF n
  <2> QED
    OBVIOUS
<1> HIDE DEF edge
<1> QED
  BY <1>1, <1>2

LEMMA EdgesAre ==
  ASSUME NEW r \in Rows
  PROVE  LET direct == Replace(OwnerEdges(r), RelationEdges(r)) IN
         /\ direct \subseteq OwnerEdges(r) \cup RelationEdges(r) /\ RelationEdges(r) \subseteq direct
         /\ EdgesOf({}, r) = IF r.calls THEN Ignore(direct, OccurrenceEdges(r)) ELSE direct
<1>1. Replace({}, OwnerEdges(r)) = OwnerEdges(r)
  BY DEF Replace
<1>2. /\ Replace(OwnerEdges(r), RelationEdges(r)) \subseteq OwnerEdges(r) \cup RelationEdges(r)
      /\ RelationEdges(r) \subseteq Replace(OwnerEdges(r), RelationEdges(r))
  BY DEF Replace
<1> QED
  BY <1>1, <1>2 DEF EdgesOf

(* No edge of a graph dangles.                                             *)
LEMMA EdgesJoinNodes ==
  ASSUME NEW r \in Rows, NEW e \in EdgesOf({}, r)
  PROVE  e.src \in NodesOf(r) /\ e.dst \in NodesOf(r)
<1>1. e \in OwnerEdges(r) \/ e \in RelationEdges(r) \/ e \in OccurrenceEdges(r)
  BY EdgesAre DEF Ignore
<1>2. CASE e \in OwnerEdges(r)
  BY <1>2, OwnerEdgesSay
<1>3. CASE e \in RelationEdges(r)
  <2>1. PICK rel \in Strongest(r) : e = EdgeOf(rel)
    BY <1>3, RelationEdgesSay
  <2>2. e.src = rel.from /\ e.dst = rel.to
    BY <2>1 DEF EdgeOf
  <2>3. rel.from \in NodesOf(r) /\ rel.to \in NodesOf(r)
    BY DEF Strongest, Joined
  <2> QED
    BY <2>2, <2>3
<1>4. CASE e \in OccurrenceEdges(r)
  <2>1. PICK ref \in Used(r) : e.src = Source(r, ref) /\ e.dst = ref.to
    BY <1>4, OccurrenceEdgesSay
  <2>2. ref.to \in NodesOf(r) /\ Source(r, ref) # NoOwner
    BY DEF Used
  <2>3. Source(r, ref) \in Typed(r)
    BY <2>2, SourceIsTyped
  <2> QED
    BY <2>1, <2>2, <2>3 DEF NodesOf
<1> QED
  BY <1>1, <1>2, <1>3, <1>4

(* A relation gives its edge the greatest confidence, and no inferred edge *)
(* comes in its way.                                                       *)
LEMMA RelatedAreStrongest ==
  ASSUME NEW r \in Rows, NEW a \in Methods(r), NEW b \in Methods(r), Related(r, a, b) # {}
  PROVE  {e.confidence : e \in {f \in EdgesOf({}, r) : Key(f) = <<a, b, "calls">>}} = {Max(Related(r, a, b))}
<1> DEFINE S == Related(r, a, b)
           E == EdgesOf({}, r)
           F == {f \in E : Key(f) = <<a, b, "calls">>}
           Rel == {y \in r.relations : y.from = a /\ y.to = b /\ y.type = "calls"}
<1>1. \A y \in r.relations : y.confidence \in 0..100
  BY RowsAssumption
<1>2. S = {y.confidence : y \in Rel}
  BY DEF Related
<1>3. S \subseteq 0..100
  BY <1>1, <1>2
<1>4. Max(S) \in S /\ \A y \in S : y <= Max(S)
  <2>1. S # {}
    OBVIOUS
  <2>2. 100 \in Nat
    OBVIOUS
  <2> HIDE DEF S
  <2> QED
    BY <1>3, <2>1, <2>2, MaxOf
<1>5. Rel \subseteq Joined(r)
  BY DEF Joined, NodesOf, Methods
<1>6. \A y \in Joined(r) : y \in Rel <=> <<y.from, y.to, y.type>> = <<a, b, "calls">>
  BY DEF Joined
<1>7. \A y \in Strongest(r) : y \in Rel => y.confidence = Max(S)
  <2> SUFFICES ASSUME NEW y \in Strongest(r), y \in Rel PROVE y.confidence = Max(S)
    OBVIOUS
  <2>1. PICK o \in Rel : o.confidence = Max(S)
    BY <1>2, <1>4
  <2>2. o \in Joined(r) /\ y \in Joined(r) /\ <<o.from, o.to, o.type>> = <<y.from, y.to, y.type>>
    BY <1>5, <1>6
  <2>3. o.confidence <= y.confidence
    BY <2>2 DEF Strongest
  <2>4. y.confidence \in S /\ y.confidence <= Max(S)
    BY <1>2, <1>4
  <2>5. y.confidence \in Int /\ o.confidence \in Int
    BY <1>3, <1>2, <2>4, <2>1
  <2> QED
    BY <2>1, <2>3, <2>4, <2>5
<1>8. PICK top \in Rel : top \in Strongest(r)
  <2>1. PICK o \in Rel : o.confidence = Max(S)
    BY <1>2, <1>4
  <2>2. \A y \in Joined(r) : <<y.from, y.to, y.type>> = <<o.from, o.to, o.type>> => y.confidence <= o.confidence
    <3> SUFFICES ASSUME NEW y \in Joined(r), <<y.from, y.to, y.type>> = <<o.from, o.to, o.type>>
                 PROVE  y.confidence <= o.confidence
      OBVIOUS
    <3>1. y \in Rel
      BY <1>6
    <3> QED
      BY <1>2, <1>4, <2>1, <3>1
  <2>3. o \in Strongest(r)
    BY <1>5, <2>2 DEF Strongest
  <2> QED
    BY <2>3
<1>9. EdgeOf(top) \in RelationEdges(r) /\ Key(EdgeOf(top)) = <<a, b, "calls">> /\ EdgeOf(top).confidence = Max(S)
  <2>1. EdgeOf(top) \in RelationEdges(r)
    BY <1>8, RelationEdgesSay
  <2>2. Key(EdgeOf(top)) = <<a, b, "calls">>
    BY <1>8, EdgeTypes DEF Key, EdgeOf
  <2>3. EdgeOf(top).confidence = top.confidence
    BY DEF EdgeOf
  <2> QED
    BY <1>7, <1>8, <2>1, <2>2, <2>3
<1>10. EdgeOf(top) \in E
  BY <1>9, EdgesAre DEF Ignore
<1>11. ASSUME NEW f \in F PROVE f.confidence = Max(S)
  <2>1. f.src = a /\ f.dst = b /\ f.type = "calls" /\ Key(f) = <<a, b, "calls">> /\ f \in E
    BY DEF Key
  <2>2. f \in OwnerEdges(r) \cup RelationEdges(r)
    <3>1. EdgeOf(top) \in Replace(OwnerEdges(r), RelationEdges(r)) /\ Key(EdgeOf(top)) = Key(f)
      BY <1>9, <2>1, EdgesAre
    <3> QED
      BY <2>1, <3>1, EdgesAre DEF Ignore
  <2>3. f \in RelationEdges(r)
    BY <2>1, <2>2, OwnerEdgesSay
  <2>4. PICK rel \in Strongest(r) : f = EdgeOf(rel)
    BY <2>3, RelationEdgesSay
  <2>5. f.src = rel.from /\ f.dst = rel.to /\ f.type = EdgeType(rel) /\ f.confidence = rel.confidence
    BY <2>4 DEF EdgeOf
  <2>6. rel \in Rel
    BY <2>1, <2>5, EdgeTypes DEF Strongest, Joined
  <2> QED
    BY <1>7, <2>5, <2>6
<1>12. EdgeOf(top) \in F
  BY <1>9, <1>10
<1> HIDE DEF S, E, F, Rel
<1>13. {e.confidence : e \in F} = {Max(S)}
  BY <1>9, <1>11, <1>12
<1> QED
  BY <1>13 DEF S, E, F

(* Where no relation is, an edge is a reference inside the caller.         *)
LEMMA FoundAreReferred ==
  ASSUME NEW r \in Rows, NEW a \in Methods(r), NEW b \in Methods(r), Related(r, a, b) = {},
         AllRanged(r) \/ NoneRanged(r)
  PROVE  {f \in EdgesOf({}, r) : Key(f) = <<a, b, "calls">>} # {} <=> Referred(r, a, b)
<1> DEFINE direct == Replace(OwnerEdges(r), RelationEdges(r))
           F == {f \in EdgesOf({}, r) : Key(f) = <<a, b, "calls">>}
<1>1. \A f \in direct : Key(f) # <<a, b, "calls">>
  <2> SUFFICES ASSUME NEW f \in direct, Key(f) = <<a, b, "calls">> PROVE FALSE
    OBVIOUS
  <2>1. f.src = a /\ f.dst = b /\ f.type = "calls"
    BY DEF Key
  <2>2. f \in RelationEdges(r)
    BY <2>1, EdgesAre, OwnerEdgesSay
  <2>3. PICK rel \in Strongest(r) : f = EdgeOf(rel)
    BY <2>2, RelationEdgesSay
  <2>4. rel.from = a /\ rel.to = b /\ rel.type = "calls"
    BY <2>1, <2>3, EdgeTypes DEF EdgeOf
  <2>5. rel \in r.relations
    BY DEF Strongest, Joined
  <2> QED
    BY <2>4, <2>5 DEF Related
<1>2. a \in NodesOf(r) /\ b \in NodesOf(r) /\ KindOf[b] = "method" /\ a # NoOwner
  BY Defines DEF NodesOf, Methods, Typed
<1>3. ASSUME NEW ref \in r.refs, ref.to = b
      PROVE  Source(r, ref) = OwnerAt(r, {"method"}, ref.line) /\ (Source(r, ref) = a <=> Inside(r, ref.line, a))
  <2>1. Source(r, ref) = OwnerAt(r, {"method"}, ref.line)
    BY <1>2, <1>3 DEF Source
  <2>2. ref.line \in 0..LastLine /\ LastLine \in Nat
    BY RowsAssumption
  <2>3. ref.line \in Int
    BY <2>2
  <2>4. CASE AllRanged(r)
    BY <2>1, <2>3, <2>4, SmallestIsInnermost DEF Inside
  <2>5. CASE ~AllRanged(r)
    <3>1. NoneRanged(r)
      BY <2>5
    <3> QED
      BY <2>1, <2>2, <2>5, <3>1, SmallestIsLastAbove DEF Inside
  <2> QED
    BY <2>1, <2>4, <2>5
<1>4. ASSUME NEW f \in F PROVE Referred(r, a, b)
  <2>1. f.src = a /\ f.dst = b /\ f.type = "calls" /\ f \in EdgesOf({}, r)
    BY DEF Key
  <2>2. r.calls /\ f \in OccurrenceEdges(r)
    BY <1>1, <2>1, EdgesAre DEF Ignore
  <2>3. PICK ref \in Used(r) : f.src = Source(r, ref) /\ f.dst = ref.to
    BY <2>2, OccurrenceEdgesSay
  <2>4. ref \in r.refs /\ ref.to = b /\ Source(r, ref) = a /\ a # b
    BY <2>1, <2>3 DEF Used
  <2>5. Inside(r, ref.line, a)
    BY <1>3, <2>4
  <2> QED
    BY <2>2, <2>4, <2>5 DEF Referred
<1>5. ASSUME Referred(r, a, b) PROVE F # {}
  <2>1. r.calls /\ a # b
    BY <1>5 DEF Referred
  <2>2. PICK ref \in r.refs : ref.to = b /\ Inside(r, ref.line, a)
    BY <1>5 DEF Referred
  <2>3. Source(r, ref) = a
    BY <1>3, <2>2
  <2>4. ref \in Used(r)
    BY <1>2, <2>1, <2>2, <2>3 DEF Used
  <2>5. PICK f \in OccurrenceEdges(r) : f.src = a /\ f.dst = b /\ f.type = "calls"
    BY <1>2, <2>2, <2>3, <2>4, OccurrenceEdgesSay
  <2>6. Key(f) = <<a, b, "calls">>
    BY <2>5 DEF Key
  <2>7. f \in EdgesOf({}, r)
    BY <1>1, <2>1, <2>5, <2>6, EdgesAre DEF Ignore
  <2> QED
    BY <2>6, <2>7
<1> HIDE DEF F
<1>6. F # {} <=> Referred(r, a, b)
  BY <1>4, <1>5
<1> QED
  BY <1>6 DEF F

-----------------------------------------------------------------------------
GraphInv ==
  /\ rows \in Rows
  /\ built = <<>> => nodes = {} /\ edges = {}
  /\ \A e \in edges : e.src \in nodes /\ e.dst \in nodes
  /\ EdgesAreExplained

LEMMA GraphInvInit == GraphInit => GraphInv
BY DEF GraphInit, GraphInv, EdgesAreExplained

LEMMA GraphInvNext == GraphInv /\ [GraphNext]_graphVars => GraphInv'
<1> SUFFICES ASSUME GraphInv, [GraphNext]_graphVars PROVE GraphInv'
  OBVIOUS
<1>1. Cleared = {}
  BY DEF GraphInv, Cleared
<1>2. ASSUME UNCHANGED <<nodes, edges, built>>, rows' \in Rows PROVE GraphInv'
  <2>1. EdgesAreExplained'
    BY <1>2 DEF GraphInv, EdgesAreExplained, Shown
  <2> QED
    BY <1>2, <2>1 DEF GraphInv
<1>3. CASE Ingest
  BY <1>2, <1>3 DEF Ingest
<1>4. CASE BuildRaises
  BY <1>2, <1>4 DEF BuildRaises, GraphInv
<1>5. CASE UNCHANGED graphVars
  BY <1>2, <1>5 DEF graphVars, GraphInv
<1>6. CASE BuildDocumentMode
  <2>1. rows' = rows /\ rows.mode = "document" /\ nodes' = {} /\ edges' = {} /\ built' = <<rows>>
    BY <1>1, <1>6 DEF BuildDocumentMode
  <2>2. built'[1] = rows /\ built' # <<>>
    BY <2>1
  <2>3. EdgesAreExplained'
    BY <2>1, <2>2 DEF EdgesAreExplained
  <2> QED
    BY <2>1, <2>2, <2>3 DEF GraphInv
<1>7. CASE Build
  <2>1. rows \in Rows /\ rows' = rows /\ nodes' = NodesOf(rows) /\ edges' = EdgesOf({}, rows) /\ built' = <<rows>>
        /\ rows.mode # "document"
    BY <1>1, <1>7 DEF Build, GraphInv
  <2>2. built'[1] = rows /\ built' # <<>>
    BY <2>1
  <2>3. \A e \in edges' : e.src \in nodes' /\ e.dst \in nodes'
    BY <2>1, EdgesJoinNodes
  <2>4. \A a, b \in Methods(rows) : Shown(a, b)' = {e.confidence : e \in {f \in EdgesOf({}, rows) : Key(f) = <<a, b, "calls">>}}
    BY <2>1 DEF Shown
  <2>5. \A a, b \in Methods(rows) :
          /\ Related(rows, a, b) # {} => Shown(a, b)' = {Max(Related(rows, a, b))}
          /\ Related(rows, a, b) = {} /\ (AllRanged(rows) \/ NoneRanged(rows)) => (Shown(a, b)' # {} <=> Referred(rows, a, b))
    <3> SUFFICES ASSUME NEW a \in Methods(rows), NEW b \in Methods(rows)
                 PROVE  /\ Related(rows, a, b) # {} => Shown(a, b)' = {Max(Related(rows, a, b))}
                        /\ Related(rows, a, b) = {} /\ (AllRanged(rows) \/ NoneRanged(rows))
                             => (Shown(a, b)' # {} <=> Referred(rows, a, b))
      OBVIOUS
    <3> DEFINE F == {f \in EdgesOf({}, rows) : Key(f) = <<a, b, "calls">>}
    <3>1. Shown(a, b)' = {e.confidence : e \in F}
      BY <2>4
    <3>2. Related(rows, a, b) # {} => {e.confidence : e \in F} = {Max(Related(rows, a, b))}
      BY <2>1, RelatedAreStrongest
    <3>3. Related(rows, a, b) = {} /\ (AllRanged(rows) \/ NoneRanged(rows)) => (F # {} <=> Referred(rows, a, b))
      BY <2>1, FoundAreReferred
    <3> HIDE DEF F
    <3>4. {e.confidence : e \in F} # {} <=> F # {}
      OBVIOUS
    <3> QED
      BY <3>1, <3>2, <3>3, <3>4
  <2>6. EdgesAreExplained'
    BY <2>1, <2>2, <2>3, <2>5 DEF EdgesAreExplained
  <2> QED
    BY <2>1, <2>2, <2>3, <2>6 DEF GraphInv
<1> QED
  BY <1>3, <1>4, <1>5, <1>6, <1>7 DEF GraphNext

(* EdgesAreExplained, for any tables that ingestions may leave: whatever   *)
(* graph was there before, the edges that CodeGraphBuilder commits are the *)
(* relations of the tables it read, with their greatest confidence, and    *)
(* references inside the caller where there is no relation; none dangles.  *)
THEOREM EdgesAlwaysExplained == GraphSpec => []EdgesAreExplained
<1>1. GraphInv => EdgesAreExplained
  BY DEF GraphInv
<1> QED
  BY <1>1, GraphInvInit, GraphInvNext, PTL DEF GraphSpec

-----------------------------------------------------------------------------
(* A walk of a given length, without its recursion.                        *)
LEMMA WalkIsRounds ==
  ASSUME NEW seeds, NEW type
  PROVE  LET start == [visited |-> seeds, frontier |-> seeds, seen |-> {}] IN
         /\ Walk(seeds, 1, type) = Round(start, type)
         /\ Walk(seeds, 2, type) = Round(Round(start, type), type)
<1> DEFINE start == [visited |-> seeds, frontier |-> seeds, seen |-> {}]
           once == Round(start, type)
           twice == Round(once, type)
           Is(after, hops) == after = [n \in 0..hops |-> IF n = 0 THEN start ELSE Round(after[n - 1], type)]
<1> HIDE DEF start, once, twice
<1>1. ASSUME NEW hops \in {1, 2} PROVE Walk(seeds, hops, type) = (CHOOSE after : Is(after, hops))[hops]
  BY DEF Walk, start
<1>2. \E after : Is(after, 1)
  <2> DEFINE w == [n \in 0..1 |-> IF n = 0 THEN start ELSE once]
  <2>1. w[0] = start
    OBVIOUS
  <2>2. \A n \in 0..1 : n # 0 => n - 1 = 0
    OBVIOUS
  <2>3. \A n \in 0..1 : w[n] = IF n = 0 THEN start ELSE Round(w[n - 1], type)
    BY <2>1, <2>2 DEF once
  <2> HIDE DEF start, once
  <2>4. Is(w, 1)
    BY <2>3
  <2> QED
    BY <2>4
<1>3. \E after : Is(after, 2)
  <2> DEFINE w == [n \in 0..2 |-> IF n = 0 THEN start ELSE IF n = 1 THEN once ELSE twice]
  <2>1. w[0] = start /\ w[1] = once /\ w[2] = twice
    OBVIOUS
  <2>2. \A n \in 0..2 : n = 0 \/ n - 1 = 0 \/ n - 1 = 1
    OBVIOUS
  <2>3. \A n \in 0..2 : n # 0 => (n - 1 = 0 <=> n = 1)
    OBVIOUS
  <2>4. \A n \in 0..2 : w[n] = IF n = 0 THEN start ELSE Round(w[n - 1], type)
    BY <2>1, <2>2, <2>3 DEF once, twice
  <2> HIDE DEF start, once, twice
  <2>5. Is(w, 2)
    BY <2>4
  <2> QED
    BY <2>5
<1>4. ASSUME NEW after, NEW hops \in {1, 2}, Is(after, hops)
      PROVE  after[1] = once /\ (hops = 2 => after[2] = twice)
  <2>1. \A n \in 0..hops : after[n] = IF n = 0 THEN start ELSE Round(after[n - 1], type)
    BY <1>4
  <2>2. 0 \in 0..hops /\ 1 \in 0..hops /\ 1 - 1 = 0 /\ 2 - 1 = 1 /\ (hops = 2 => 2 \in 0..hops)
    OBVIOUS
  <2>3. after[0] = start
    BY <2>1, <2>2
  <2>4. after[1] = once
    BY <2>1, <2>2, <2>3 DEF once
  <2> QED
    BY <2>1, <2>2, <2>4 DEF twice
<1> DEFINE one == CHOOSE after : Is(after, 1)
           two == CHOOSE after : Is(after, 2)
<1> HIDE DEF Is
<1>5. Is(one, 1) /\ Is(two, 2)
  BY <1>2, <1>3
<1> HIDE DEF one, two
<1>6. one[1] = once /\ two[2] = twice
  BY <1>4, <1>5
<1>7. Walk(seeds, 1, type) = once /\ Walk(seeds, 2, type) = twice
  BY <1>1, <1>6 DEF one, two
<1> QED
  BY <1>7 DEF once, twice, start

(* SubgraphIsBall in any graph whose edges join nodes.                     *)
LEMMA WalksAreBalls ==
  ASSUME \A e \in edges : e.src \in nodes /\ e.dst \in nodes
  PROVE  SubgraphIsBall
<1> SUFFICES ASSUME NEW seeds \in SUBSET nodes, NEW hops \in 0..2
             PROVE  LET calls == {e \in edges : e.type = "calls"}
                        joined(a, b) == a = b \/ \E e \in calls : {e.src, e.dst} = {a, b}
                        one == {n \in nodes : \E s \in seeds : joined(s, n)}
                        two == {n \in nodes : \E s \in seeds, x \in nodes : joined(s, x) /\ joined(x, n)}
                        at(S) == {e \in calls : e.src \in S \/ e.dst \in S}
                        got == CodeSubgraph(seeds, hops, "calls")
                    IN  IF hops = 2 THEN got = [nodes |-> two, edges |-> at(one)]
                                    ELSE got = [nodes |-> one, edges |-> at(seeds)]
  BY DEF SubgraphIsBall
<1> DEFINE calls == {e \in edges : e.type = "calls"}
           joined(a, b) == a = b \/ \E e \in calls : {e.src, e.dst} = {a, b}
           one == {n \in nodes : \E s \in seeds : joined(s, n)}
           two == {n \in nodes : \E s \in seeds, x \in nodes : joined(s, x) /\ joined(x, n)}
           at(S) == {e \in calls : e.src \in S \/ e.dst \in S}
           ends(S) == {e.src : e \in at(S)} \cup {e.dst : e \in at(S)}
           start == [visited |-> seeds, frontier |-> seeds, seen |-> {}]
           once == Round(start, "calls")
           twice == Round(once, "calls")
<1>1. ASSUME NEW walk
      PROVE  /\ Round(walk, "calls").visited = walk.visited \cup ends(walk.frontier)
             /\ Round(walk, "calls").frontier = ends(walk.frontier) \ walk.visited
             /\ Round(walk, "calls").seen = walk.seen \cup at(walk.frontier)
  <2>1. Touching(walk.frontier, "calls") = at(walk.frontier)
    BY DEF Touching
  <2> HIDE DEF at
  <2> QED
    BY <2>1 DEF Round
<1>2. once.visited = seeds \cup ends(seeds) /\ once.frontier = ends(seeds) \ seeds /\ once.seen = at(seeds)
  <2>1. start.visited = seeds /\ start.frontier = seeds /\ start.seen = {}
    OBVIOUS
  <2> HIDE DEF start, ends, at
  <2> QED
    BY <1>1, <2>1, ZenonT(30)
<1>3. /\ twice.visited = seeds \cup ends(seeds) \cup ends(ends(seeds) \ seeds)
      /\ twice.seen = at(seeds) \cup at(ends(seeds) \ seeds)
  <2> HIDE DEF once, ends, at
  <2> QED
    BY <1>1, <1>2
<1>4. \A S \in SUBSET nodes : ends(S) \subseteq nodes /\ S \cup ends(S) = {n \in nodes : \E s \in S : joined(s, n)}
  OBVIOUS
<1>5. one = seeds \cup ends(seeds)
  BY <1>4
<1>6. two = {n \in nodes : \E x \in one : joined(x, n)}
  OBVIOUS
<1>7. two = one \cup ends(one)
  BY <1>4, <1>5, <1>6
<1>8. \A S, T \in SUBSET nodes : at(S \cup T) = at(S) \cup at(T) /\ ends(S \cup T) = ends(S) \cup ends(T)
  OBVIOUS
<1>9. one = seeds \cup (ends(seeds) \ seeds) /\ ends(seeds) \ seeds \in SUBSET nodes
  BY <1>4, <1>5
<1> HIDE DEF ends, at, one, two, joined, calls
<1>10. at(one) = at(seeds) \cup at(ends(seeds) \ seeds) /\ ends(one) = ends(seeds) \cup ends(ends(seeds) \ seeds)
  BY <1>8, <1>9
<1>11. once.visited = one /\ once.seen = at(seeds) /\ twice.visited = two /\ twice.seen = at(one)
  BY <1>2, <1>3, <1>5, <1>7, <1>10
<1>12. one \cap nodes = one /\ two \cap nodes = two
  BY DEF one, two
<1>13. CASE hops = 2
  <2>1. Walk(seeds, 2, "calls") = twice
    BY WalkIsRounds
  <2> HIDE DEF twice, once
  <2>3. (IF hops > 1 THEN hops ELSE 1) = 2
    BY <1>13
  <2>4. CodeSubgraph(seeds, hops, "calls") = [nodes |-> twice.visited \cap nodes, edges |-> twice.seen]
    BY <2>1, <2>3 DEF CodeSubgraph
  <2>2. CodeSubgraph(seeds, hops, "calls") = [nodes |-> two, edges |-> at(one)]
    BY <1>11, <1>12, <2>4
  <2> QED
    BY <1>13, <2>2 DEF two, one, at, joined, calls
<1>14. CASE hops # 2
  <2>1. Walk(seeds, 1, "calls") = once /\ ~(hops > 1)
    BY <1>14, WalkIsRounds
  <2> HIDE DEF twice, once
  <2>2. CodeSubgraph(seeds, hops, "calls") = [nodes |-> one, edges |-> at(seeds)]
    BY <1>11, <1>12, <2>1 DEF CodeSubgraph
  <2> QED
    BY <1>14, <2>2 DEF one, at, joined, calls
<1> QED
  BY <1>13, <1>14

(* SubgraphIsBall, for every graph that is ever built: a walk of one hop   *)
(* or two finds what paths of that many edges reach, in either direction.  *)
THEOREM SubgraphsAreBalls == GraphSpec => []SubgraphIsBall
<1>1. GraphInv => SubgraphIsBall
  BY WalksAreBalls DEF GraphInv
<1> QED
  BY <1>1, GraphInvInit, GraphInvNext, PTL DEF GraphSpec
-----------------------------------------------------------------------------
(* Who calls whom: lists of hits.                                          *)

Hit == [id : Names, score : 0..100]
HitIds(hits) == {h.id : h \in hits}
Unique(hits) == \A g, h \in hits : g.id = h.id => g = h

(* The first k of a finite set in order.                                   *)
LEMMA FirstOnes ==
  ASSUME NEW before, StrictOrder(before), NEW k \in Nat
  PROVE  LET first == Cut(InOrder(before), k) IN
         /\ Elements(first) \subseteq DOMAIN before /\ IsFiniteSet(Elements(first))
         /\ Len(first) = Atop(k, Cardinality(DOMAIN before))
         /\ Cardinality(Elements(first)) = Len(first)
         /\ \A h \in Elements(first) : before[h] \subseteq Elements(first)
<1> DEFINE S == DOMAIN before
           order == InOrder(before)
           m == Atop(k, Len(order))
           first == Cut(order, k)
<1>1. Arranges(order, before)
  BY InOrderArranges
<1>2. Distinct(order) /\ order \in Seq(S)
  BY <1>1, ArrangedDistinct
<1>3. Len(order) = Cardinality(S) /\ Len(order) \in Nat /\ DOMAIN order = 1..Len(order)
  BY <1>1, <1>2 DEF Arranges
<1>4. m \in Nat /\ m <= Len(order)
  BY <1>3 DEF Atop
<1>5. first = SubSeq(order, 1, m)
  BY DEF Cut
<1> HIDE DEF m, order, S
<1>6. first \in Seq(S) /\ Len(first) = m /\ \A p \in 1..m : first[p] = order[p]
  <2>1. 1 \in Int /\ m \in Int
    BY <1>4
  <2>2. \A p \in 1..m : order[p] \in S
    BY <1>2, <1>3, <1>4
  <2>3. /\ SubSeq(order, 1, m) \in Seq(S)
        /\ Len(SubSeq(order, 1, m)) = IF 1 <= m THEN m - 1 + 1 ELSE 0
        /\ \A p \in 1..(m - 1 + 1) : SubSeq(order, 1, m)[p] = order[1 + p - 1]
    BY <2>1, <2>2, SubSeqProperties
  <2>4. (IF 1 <= m THEN m - 1 + 1 ELSE 0) = m /\ m - 1 + 1 = m /\ \A p \in 1..m : 1 + p - 1 = p
    BY <1>4
  <2> HIDE DEF first
  <2> QED
    BY <1>5, <2>3, <2>4
<1> HIDE DEF first
<1>7. DOMAIN first = 1..m /\ first \in [1..m -> S]
  BY <1>4, <1>6
<1>8. \A p, r \in 1..m : first[p] = first[r] => p = r
  BY <1>2, <1>3, <1>4, <1>6 DEF Distinct
<1>9. Elements(first) \subseteq S
  BY <1>7 DEF Elements
<1>10. IsFiniteSet(Elements(first)) /\ Cardinality(Elements(first)) = m
  <2>1. first \in Surjection(1..m, Elements(first))
    BY <1>7 DEF Surjection, Elements
  <2>2. first \in Injection(1..m, Elements(first))
    <3>1. first \in [1..m -> Elements(first)]
      BY <1>7 DEF Elements
    <3>2. IsInjective(first)
      BY <1>7, <1>8 DEF IsInjective
    <3> QED
      BY <3>1, <3>2 DEF Injection
  <2>3. 1 \in Int /\ m \in Int
    BY <1>4
  <2>4. IsFiniteSet(1..m) /\ Cardinality(1..m) = IF 1 > m THEN 0 ELSE m - 1 + 1
    BY <2>3, FS_Interval, Zenon
  <2>5. Cardinality(1..m) = m
    BY <1>4, <2>4
  <2>6. IsFiniteSet(Elements(first)) /\ Cardinality(Elements(first)) = Cardinality(1..m)
    BY <2>1, <2>2, <2>4, FS_Surjection
  <2> QED
    BY <2>5, <2>6
<1>11. ASSUME NEW h \in Elements(first) PROVE before[h] \subseteq Elements(first)
  <2>1. PICK p \in 1..m : h = first[p]
    BY <1>7 DEF Elements
  <2> SUFFICES ASSUME NEW i \in before[h] PROVE i \in Elements(first)
    OBVIOUS
  <2>2. h \in S /\ i \in S
    BY <1>9 DEF S, StrictOrder
  <2>3. PICK r \in DOMAIN order : order[r] = i
    BY <1>1, <2>2 DEF Arranges, S
  <2>4. r < p
    BY <1>1, <1>3, <1>4, <1>6, <2>1, <2>3 DEF Arranges
  <2>5. r \in 1..m
    BY <1>3, <1>4, <2>1, <2>3, <2>4
  <2> QED
    BY <1>6, <1>7, <2>3, <2>5 DEF Elements
<1> QED
  BY <1>3, <1>6, <1>9, <1>10, <1>11 DEF first, order, m, S

LEMMA HitsFinite ==
  ASSUME NEW hits \in SUBSET Hit
  PROVE  IsFiniteSet(hits)
<1> DEFINE pairs == Names \X (0..100)
           f == [p \in pairs |-> [id |-> p[1], score |-> p[2]]]
<1>1. IsFiniteSet(Names)
  BY RowsAssumption
<1>2. IsFiniteSet(0..100)
  <2>1. 0 \in Int /\ 100 \in Int
    OBVIOUS
  <2> QED
    BY <2>1, FS_Interval, Zenon
<1>3. IsFiniteSet(pairs)
  BY <1>1, <1>2, FS_Product
<1>4. f \in Surjection(pairs, Hit)
  <2>1. f \in [pairs -> Hit]
    BY DEF Hit
  <2>2. ASSUME NEW h \in Hit PROVE \E p \in pairs : f[p] = h
    <3>1. h.id \in Names /\ h.score \in 0..100 /\ h = [id |-> h.id, score |-> h.score]
      BY DEF Hit
    <3>2. <<h.id, h.score>> \in pairs
      BY <3>1
    <3>3. f[<<h.id, h.score>>] = h
      BY <3>1, <3>2
    <3> QED
      BY <3>2, <3>3
  <2> QED
    BY <2>1, <2>2 DEF Surjection
<1>5. IsFiniteSet(Hit)
  BY <1>3, <1>4, FS_Surjection
<1> QED
  BY <1>5, FS_Subset

LEMMA UniqueCount ==
  ASSUME NEW hits \in SUBSET Hit, Unique(hits)
  PROVE  /\ IsFiniteSet(hits) /\ IsFiniteSet(HitIds(hits)) /\ Cardinality(HitIds(hits)) = Cardinality(hits)
         /\ Cardinality(hits) \in Nat
<1> DEFINE f == [h \in hits |-> h.id]
<1>1. IsFiniteSet(hits)
  BY HitsFinite
<1>2. f \in Surjection(hits, HitIds(hits))
  BY DEF Surjection, HitIds
<1>3. f \in Injection(hits, HitIds(hits))
  <2>1. f \in [hits -> HitIds(hits)]
    BY DEF HitIds
  <2>2. IsInjective(f)
    BY DEF IsInjective, Unique
  <2> HIDE DEF f
  <2> QED
    BY <2>1, <2>2 DEF Injection
<1> HIDE DEF f
<1> QED
  BY <1>1, <1>2, <1>3, FS_Surjection, FS_CardinalityType

LEMMA GreatestIs ==
  ASSUME NEW S \in SUBSET (0..100), NEW x \in S, \A y \in S : y <= x
  PROVE  Max(S) = x
<1> DEFINE m == Max(S)
<1>1. m \in S /\ \A y \in S : y <= m
  <2>1. 100 \in Nat /\ S \subseteq 0..100 /\ S # {}
    OBVIOUS
  <2> QED
    BY <2>1, MaxOf
<1> HIDE DEF m
<1>2. m <= x /\ x <= m /\ m \in 0..100 /\ x \in 0..100
  BY <1>1
<1>3. m = x
  BY <1>2
<1> QED
  BY <1>3 DEF m

(* Of every id the hit with the greatest score.                            *)
LEMMA GroupedShape ==
  ASSUME NEW hits \in SUBSET Hit
  PROVE  /\ Grouped(hits) \in SUBSET hits /\ Unique(Grouped(hits)) /\ HitIds(Grouped(hits)) = HitIds(hits)
         /\ \A h \in hits : \E g \in Grouped(hits) : g.id = h.id /\ h.score <= g.score
<1>1. \A h \in hits : h.id \in Names /\ h.score \in 0..100 /\ h = [id |-> h.id, score |-> h.score]
  BY DEF Hit
<1>2. Unique(Grouped(hits))
  <2> SUFFICES ASSUME NEW g \in Grouped(hits), NEW h \in Grouped(hits), g.id = h.id PROVE g = h
    BY DEF Unique
  <2>1. g \in hits /\ h \in hits /\ g.score <= h.score /\ h.score <= g.score
    BY DEF Grouped
  <2>2. g.score = h.score
    BY <1>1, <2>1
  <2> QED
    BY <1>1, <2>1, <2>2
<1>3. ASSUME NEW h \in hits PROVE \E g \in Grouped(hits) : g.id = h.id /\ h.score <= g.score
  <2> DEFINE like == {o \in hits : o.id = h.id}
             scores == {o.score : o \in like}
  <2>1. scores \subseteq 0..100 /\ scores # {} /\ h.score \in scores
    BY <1>1
  <2>2. Max(scores) \in scores /\ \A y \in scores : y <= Max(scores)
    <3> HIDE DEF scores
    <3> QED
      BY <2>1, MaxOf
  <2>3. PICK g \in like : g.score = Max(scores)
    BY <2>2
  <2>4. \A o \in like : o.score <= g.score
    BY <2>2, <2>3
  <2>5. g \in Grouped(hits)
    BY <2>3, <2>4 DEF Grouped
  <2> QED
    BY <2>3, <2>4, <2>5
<1>4. Grouped(hits) \in SUBSET hits
  BY DEF Grouped
<1> QED
  BY <1>2, <1>3, <1>4 DEF HitIds

Selecting(hits) == [h \in Grouped(hits) |-> {o \in Grouped(hits) : Selects(o, h)}]
Sorting(hits) == [h \in Grouped(hits) |-> {o \in Grouped(hits) : Sorts(o, h)}]

(* Both orders are strict: different hits of Grouped have different ids,   *)
(* and different ids have different places.                                *)
LEMMA OrdersAreStrict ==
  ASSUME NEW hits \in SUBSET Hit
  PROVE  StrictOrder(Selecting(hits)) /\ StrictOrder(Sorting(hits))
<1> DEFINE G == Grouped(hits)
<1>1. G \in SUBSET Hit /\ Unique(G) /\ IsFiniteSet(G)
  BY GroupedShape, HitsFinite
<1> HIDE DEF G
<1>2. \A g \in G : g.score \in Int /\ g.id \in Names /\ Place[g.id] \in Int
  BY <1>1, PlaceAssumption DEF Hit
<1>3. \A g, h \in G : Place[g.id] = Place[h.id] => g = h
  BY <1>1, <1>2, PlaceAssumption DEF Unique
<1>4. /\ DOMAIN Selecting(hits) = G /\ \A h \in G : Selecting(hits)[h] = {o \in G : Selects(o, h)}
      /\ DOMAIN Sorting(hits) = G /\ \A h \in G : Sorting(hits)[h] = {o \in G : Sorts(o, h)}
  BY DEF Selecting, Sorting, G
<1>5. /\ \A g \in G : ~Selects(g, g)
      /\ \A f, g, h \in G : Selects(f, g) /\ Selects(g, h) => Selects(f, h)
      /\ \A g, h \in G : g = h \/ Selects(g, h) \/ Selects(h, g)
  <2>1. \A g \in G : ~Selects(g, g)
    BY <1>2 DEF Selects
  <2>2. \A f, g, h \in G : Selects(f, g) /\ Selects(g, h) => Selects(f, h)
    BY <1>2 DEF Selects
  <2>3. \A g, h \in G : g = h \/ Selects(g, h) \/ Selects(h, g)
    BY <1>2, <1>3 DEF Selects
  <2> QED
    BY <2>1, <2>2, <2>3
<1>6. /\ \A g \in G : ~Sorts(g, g)
      /\ \A f, g, h \in G : Sorts(f, g) /\ Sorts(g, h) => Sorts(f, h)
      /\ \A g, h \in G : g = h \/ Sorts(g, h) \/ Sorts(h, g)
  <2>1. \A g \in G : ~Sorts(g, g)
    BY <1>2 DEF Sorts
  <2>2. \A f, g, h \in G : Sorts(f, g) /\ Sorts(g, h) => Sorts(f, h)
    BY <1>2 DEF Sorts
  <2>3. \A g, h \in G : g = h \/ Sorts(g, h) \/ Sorts(h, g)
    BY <1>2, <1>3 DEF Sorts
  <2> QED
    BY <2>1, <2>2, <2>3
<1>7. StrictOrder(Selecting(hits))
  <2> DEFINE before == Selecting(hits)
  <2> HIDE DEF before
  <2>1. DOMAIN before = G /\ \A h \in G : before[h] = {o \in G : Selects(o, h)}
    BY <1>4 DEF before
  <2>2. StrictOrder(before)
    BY <1>1, <1>5, <2>1 DEF StrictOrder
  <2> QED
    BY <2>2 DEF before
<1>8. StrictOrder(Sorting(hits))
  <2> DEFINE before == Sorting(hits)
  <2> HIDE DEF before
  <2>1. DOMAIN before = G /\ \A h \in G : before[h] = {o \in G : Sorts(o, h)}
    BY <1>4 DEF before
  <2>2. StrictOrder(before)
    BY <1>1, <1>6, <2>1 DEF StrictOrder
  <2> QED
    BY <2>2 DEF before
<1> QED
  BY <1>7, <1>8

(* What a list that is cut to k leaves out is no stronger than what is in. *)
LEMMA SelectedShape ==
  ASSUME NEW hits \in SUBSET Hit, NEW k \in Nat
  PROVE  LET kept == Elements(Selected(hits, k)) IN
         /\ kept \in SUBSET Grouped(hits)
         /\ kept # Grouped(hits) => Cardinality(kept) = k
         /\ \A h \in kept, g \in Grouped(hits) \ kept : g.score <= h.score
<1> DEFINE G == Grouped(hits)
           kept == Elements(Selected(hits, k))
<1>1. Selected(hits, k) = Cut(InOrder(Selecting(hits)), k)
  BY DEF Selected, Selecting
<1>2. DOMAIN Selecting(hits) = G /\ \A h \in G : Selecting(hits)[h] = {o \in G : Selects(o, h)}
  BY DEF Selecting
<1>3. /\ kept \subseteq G /\ Cardinality(kept) = Atop(k, Cardinality(G))
      /\ \A h \in kept : Selecting(hits)[h] \subseteq kept
  BY <1>1, <1>2, OrdersAreStrict, FirstOnes
<1>4. G \in SUBSET Hit /\ IsFiniteSet(G)
  BY GroupedShape, HitsFinite
<1> HIDE DEF G, kept
<1>5. ASSUME kept # G PROVE Cardinality(kept) = k
  <2>1. Cardinality(kept) # Cardinality(G)
    BY <1>3, <1>4, <1>5, FS_Subset
  <2> QED
    BY <1>3, <2>1 DEF Atop
<1>6. ASSUME NEW h \in kept, NEW g \in G \ kept PROVE g.score <= h.score
  <2>1. g.score \in Int /\ h.score \in Int
    BY <1>3, <1>4 DEF Hit
  <2>2. ~Selects(g, h)
    BY <1>2, <1>3
  <2> QED
    BY <2>1, <2>2 DEF Selects
<1> QED
  BY <1>3, <1>5, <1>6 DEF G, kept

LEMMA MergedShape ==
  ASSUME NEW hits \in SUBSET Hit, NEW k \in Nat
  PROVE  LET kept == Elements(Merged(hits, k)) IN
         /\ kept \in SUBSET Grouped(hits)
         /\ Len(Merged(hits, k)) = Atop(k, Cardinality(Grouped(hits))) /\ Cardinality(kept) = Len(Merged(hits, k))
         /\ \A h \in kept, g \in Grouped(hits) : g.score > h.score => g \in kept
<1> DEFINE G == Grouped(hits)
           kept == Elements(Merged(hits, k))
<1>1. Merged(hits, k) = Cut(InOrder(Sorting(hits)), k)
  BY DEF Merged, Sorting
<1>2. DOMAIN Sorting(hits) = G /\ \A h \in G : Sorting(hits)[h] = {o \in G : Sorts(o, h)}
  BY DEF Sorting
<1>3. /\ kept \subseteq G /\ Len(Merged(hits, k)) = Atop(k, Cardinality(G)) /\ Cardinality(kept) = Len(Merged(hits, k))
      /\ \A h \in kept : Sorting(hits)[h] \subseteq kept
  BY <1>1, <1>2, OrdersAreStrict, FirstOnes
<1> HIDE DEF G, kept
<1>4. ASSUME NEW h \in kept, NEW g \in G, g.score > h.score PROVE g \in kept
  <2>1. Sorts(g, h)
    BY <1>4 DEF Sorts
  <2> QED
    BY <1>2, <1>3, <2>1
<1> QED
  BY <1>3, <1>4 DEF G, kept

(* A hit that its table has is in the merged table, with that score or a   *)
(* greater one, or else k others are at least as strong.                   *)
LEMMA KeptOrBeaten ==
  ASSUME NEW hits \in SUBSET Hit, NEW k \in Nat, NEW all \in SUBSET Hit,
         Elements(Selected(hits, k)) \subseteq all, NEW o \in hits
  PROVE  \/ \E n \in Grouped(all) : n.id = o.id /\ o.score <= n.score
         \/ \E K \in SUBSET Grouped(all) : Cardinality(K) = k /\ \A n \in K : o.score <= n.score
<1> DEFINE N == Grouped(all)
           kept == Elements(Selected(hits, k))
<1>1. /\ kept \in SUBSET Grouped(hits) /\ (kept # Grouped(hits) => Cardinality(kept) = k)
      /\ \A h \in kept, g \in Grouped(hits) \ kept : g.score <= h.score
  BY SelectedShape
<1>2. Grouped(hits) \in SUBSET Hit /\ Unique(Grouped(hits))
  BY GroupedShape
<1>3. N \in SUBSET Hit /\ Unique(N) /\ \A h \in all : \E n \in N : n.id = h.id /\ h.score <= n.score
  BY GroupedShape
<1>4. PICK g \in Grouped(hits) : g.id = o.id /\ o.score <= g.score
  BY GroupedShape
<1> HIDE DEF N, kept
<1>5. kept \subseteq all
  BY DEF kept
<1>6. \A h \in Hit : h.score \in Int
  BY DEF Hit
<1>7. CASE g \in kept
  <2>1. PICK n \in N : n.id = g.id /\ g.score <= n.score
    BY <1>3, <1>5, <1>7
  <2>2. n.score \in Int /\ g.score \in Int /\ o.score \in Int
    BY <1>2, <1>3, <1>6
  <2>3. n.id = o.id /\ o.score <= n.score
    BY <1>4, <2>1, <2>2
  <2> QED
    BY <2>3 DEF N
<1>8. CASE g \notin kept
  <2> DEFINE K == {n \in N : n.id \in HitIds(kept)}
  <2>1. Cardinality(kept) = k
    BY <1>1, <1>8
  <2>2. kept \in SUBSET Hit /\ Unique(kept)
    BY <1>1, <1>2 DEF Unique
  <2>3. K \in SUBSET Hit /\ Unique(K)
    BY <1>3 DEF Unique
  <2>4. HitIds(K) = HitIds(kept)
    <3>1. ASSUME NEW h \in kept PROVE h.id \in HitIds(K)
      <4>1. PICK n \in N : n.id = h.id
        BY <1>3, <1>5
      <4>2. n \in K
        BY <4>1 DEF HitIds
      <4> QED
        BY <4>1, <4>2 DEF HitIds
    <3>2. HitIds(K) \subseteq HitIds(kept)
      BY DEF HitIds
    <3> QED
      BY <3>1, <3>2 DEF HitIds
  <2>5. ASSUME NEW n \in K PROVE o.score <= n.score
    <3>1. PICK h \in kept : h.id = n.id
      BY DEF HitIds
    <3>2. PICK m \in N : m.id = h.id /\ h.score <= m.score
      BY <1>3, <1>5
    <3>3. m = n
      BY <1>3, <3>1, <3>2 DEF Unique
    <3>4. g.score <= h.score
      BY <1>1, <1>4, <1>8
    <3>5. n.score \in Int /\ g.score \in Int /\ o.score \in Int /\ h.score \in Int
      BY <1>2, <1>3, <1>6, <2>2
    <3> QED
      BY <1>4, <3>2, <3>3, <3>4, <3>5
  <2> HIDE DEF K
  <2>6. Cardinality(K) = k
    BY <2>1, <2>2, <2>3, <2>4, UniqueCount
  <2>7. K \in SUBSET N
    BY DEF K
  <2> QED
    BY <2>5, <2>6, <2>7 DEF N
<1> QED
  BY <1>7, <1>8

(* Two tables cut to k and merged to k, in opposite orders of ties.        *)
LEMMA MergeShape ==
  ASSUME NEW first \in SUBSET Hit, NEW second \in SUBSET Hit, NEW k \in Nat \ {0}
  PROVE  LET merged == MergeRanked(Selected(first, k), Selected(second, k), k)
             got == Elements(merged)
             all == first \cup second
         IN /\ got \in SUBSET all /\ Unique(got)
            /\ Len(merged) = Atop(k, Cardinality(HitIds(all))) /\ Cardinality(HitIds(got)) = Len(merged)
            /\ \A h \in got, o \in all : o.id = h.id \/ o.id \notin HitIds(got) => o.score <= h.score
<1> DEFINE in == Elements(Selected(first, k)) \cup Elements(Selected(second, k))
           N == Grouped(in)
           merged == Merged(in, k)
           got == Elements(merged)
           all == first \cup second
<1>1. MergeRanked(Selected(first, k), Selected(second, k), k) = merged
  BY DEF MergeRanked
<1>2. in \in SUBSET all /\ all \in SUBSET Hit
  BY SelectedShape, GroupedShape
<1>3. \A o \in all : \/ \E n \in N : n.id = o.id /\ o.score <= n.score
                     \/ \E K \in SUBSET N : Cardinality(K) = k /\ \A n \in K : o.score <= n.score
  <2>1. in \in SUBSET Hit
    BY <1>2
  <2>2. ASSUME NEW o \in first
        PROVE  \/ \E n \in N : n.id = o.id /\ o.score <= n.score
               \/ \E K \in SUBSET N : Cardinality(K) = k /\ \A n \in K : o.score <= n.score
    <3>1. Elements(Selected(first, k)) \subseteq in
      OBVIOUS
    <3> HIDE DEF in
    <3> QED
      BY <2>1, <3>1, KeptOrBeaten
  <2>3. ASSUME NEW o \in second
        PROVE  \/ \E n \in N : n.id = o.id /\ o.score <= n.score
               \/ \E K \in SUBSET N : Cardinality(K) = k /\ \A n \in K : o.score <= n.score
    <3>1. Elements(Selected(second, k)) \subseteq in
      OBVIOUS
    <3> HIDE DEF in
    <3> QED
      BY <2>1, <3>1, KeptOrBeaten
  <2> QED
    BY <2>2, <2>3
<1> HIDE DEF in
<1>4. N \in SUBSET in /\ Unique(N)
  BY <1>2, GroupedShape
<1>5. /\ got \in SUBSET N /\ Len(merged) = Atop(k, Cardinality(N)) /\ Cardinality(got) = Len(merged)
      /\ \A h \in got, g \in N : g.score > h.score => g \in got
  BY <1>2, MergedShape
<1> HIDE DEF N, merged, all, got
<1>6. /\ IsFiniteSet(N) /\ Cardinality(HitIds(N)) = Cardinality(N) /\ Cardinality(N) \in Nat
      /\ Unique(got) /\ IsFiniteSet(got) /\ Cardinality(HitIds(got)) = Cardinality(got) /\ Cardinality(got) \in Nat
  <2>1. N \in SUBSET Hit /\ got \in SUBSET Hit /\ Unique(got)
    BY <1>2, <1>4, <1>5 DEF Unique
  <2> QED
    BY <1>4, <2>1, UniqueCount
<1>7. \A h \in all : h.score \in Int
  BY <1>2 DEF Hit
<1>8. Cardinality(got) <= k
  BY <1>5, <1>6 DEF Atop
<1>9. ASSUME NEW h \in got, NEW K \in SUBSET N, Cardinality(K) = k PROVE \E n \in K : n.score <= h.score
  <2> SUFFICES ASSUME \A n \in K : n.score > h.score PROVE FALSE
    <3>1. \A n \in K : n.score \in Int /\ h.score \in Int
      BY <1>2, <1>4, <1>5, <1>7
    <3> QED
      BY <3>1
  <2>1. K \in SUBSET got
    BY <1>5
  <2>2. h \notin K
    <3>1. h.score \in Int
      BY <1>2, <1>4, <1>5, <1>7
    <3> QED
      BY <3>1
  <2>3. Cardinality(K) <= Cardinality(got) /\ Cardinality(K) # Cardinality(got)
    BY <1>6, <2>1, <2>2, FS_Subset
  <2> QED
    BY <1>6, <1>8, <1>9, <2>3
<1>10. ASSUME NEW h \in got, NEW o \in all, o.id = h.id \/ o.id \notin HitIds(got) PROVE o.score <= h.score
  <2> SUFFICES ASSUME o.score > h.score PROVE FALSE
    BY <1>2, <1>4, <1>5, <1>7
  <2>1. o.score \in Int /\ h.score \in Int /\ \A n \in N : n.score \in Int
    BY <1>2, <1>4, <1>5, <1>7
  <2>2. CASE \E n \in N : n.id = o.id /\ o.score <= n.score
    <3>1. PICK n \in N : n.id = o.id /\ o.score <= n.score
      BY <2>2
    <3>2. n.score > h.score
      BY <2>1, <3>1
    <3>3. n \in got
      BY <1>5, <3>2
    <3>4. o.id \in HitIds(got)
      BY <3>1, <3>3 DEF HitIds
    <3>5. n = h
      BY <1>6, <1>10, <3>1, <3>3, <3>4 DEF Unique
    <3> QED
      BY <2>1, <3>2, <3>5
  <2>3. CASE \E K \in SUBSET N : Cardinality(K) = k /\ \A n \in K : o.score <= n.score
    <3>1. PICK K \in SUBSET N : Cardinality(K) = k /\ \A n \in K : o.score <= n.score
      BY <2>3
    <3>2. PICK n \in K : n.score <= h.score
      BY <1>9, <3>1
    <3>3. o.score <= n.score /\ n.score \in Int
      BY <2>1, <3>1
    <3> QED
      BY <2>1, <3>2, <3>3
  <2> QED
    BY <1>3, <2>2, <2>3
<1>11. Len(merged) = Atop(k, Cardinality(HitIds(all)))
  <2>1. HitIds(N) \subseteq HitIds(all)
    BY <1>2, <1>4 DEF HitIds
  <2>2. IsFiniteSet(HitIds(all))
    <3>1. HitIds(all) \subseteq Names
      BY <1>2 DEF HitIds, Hit
    <3>2. IsFiniteSet(Names)
      BY RowsAssumption
    <3> QED
      BY <3>1, <3>2, FS_Subset
  <2>3. Cardinality(HitIds(all)) \in Nat /\ Cardinality(N) <= Cardinality(HitIds(all))
    BY <1>6, <2>1, <2>2, FS_Subset, FS_CardinalityType
  <2>4. CASE HitIds(N) = HitIds(all)
    BY <1>5, <1>6, <2>4
  <2>5. CASE HitIds(N) # HitIds(all)
    <3>1. PICK o \in all : o.id \notin HitIds(N)
      BY <2>1, <2>5 DEF HitIds
    <3>2. PICK K \in SUBSET N : Cardinality(K) = k
      BY <1>3, <3>1 DEF HitIds
    <3>3. k <= Cardinality(N)
      BY <1>6, <3>2, FS_Subset
    <3>4. Atop(k, Cardinality(N)) = k /\ Atop(k, Cardinality(HitIds(all))) = k
      BY <1>6, <2>3, <3>3 DEF Atop
    <3> QED
      BY <1>5, <3>4
  <2> QED
    BY <2>4, <2>5
<1> QED
  BY <1>1, <1>2, <1>4, <1>5, <1>6, <1>10, <1>11 DEF all, got

(* In terms of what the tables say of each symbol.                         *)
Tells(hits, told) ==
  /\ \A a \in Names : told[a] \in SUBSET (0..100)
  /\ \A a \in Names, c \in 0..100 : [id |-> a, score |-> c] \in hits <=> c \in told[a]

Answers(merged, told, k) ==
  LET got == Elements(merged)
      named == {a \in Names : told[a] # {}}
  IN /\ HitIds(got) \subseteq named
     /\ Len(merged) = Atop(k, Cardinality(named)) /\ Cardinality(HitIds(got)) = Len(merged)
     /\ \A h \in got : h.score = Max(told[h.id]) /\ \A a \in named \ HitIds(got) : Max(told[a]) <= h.score
     /\ k >= Cardinality(Names) =>
          \A a \in Names : {h.score : h \in {g \in got : g.id = a}} = IF a \in named THEN {Max(told[a])} ELSE {}

LEMMA AnswerShape ==
  ASSUME NEW first \in SUBSET Hit, NEW second \in SUBSET Hit, NEW k \in Nat \ {0},
         NEW told, Tells(first \cup second, told)
  PROVE  Answers(MergeRanked(Selected(first, k), Selected(second, k), k), told, k)
<1> DEFINE merged == MergeRanked(Selected(first, k), Selected(second, k), k)
           got == Elements(merged)
           named == {a \in Names : told[a] # {}}
           all == first \cup second
<1>1. /\ got \in SUBSET all /\ Unique(got)
      /\ Len(merged) = Atop(k, Cardinality(HitIds(all))) /\ Cardinality(HitIds(got)) = Len(merged)
      /\ \A h \in got, o \in all : o.id = h.id \/ o.id \notin HitIds(got) => o.score <= h.score
  BY MergeShape
<1> HIDE DEF merged, got
<1>2. \A h \in all : h.id \in Names /\ h.score \in 0..100 /\ h = [id |-> h.id, score |-> h.score]
  BY DEF Hit
<1> HIDE DEF all
<1>3. /\ \A a \in Names : told[a] \in SUBSET (0..100)
      /\ \A a \in Names, c \in 0..100 : [id |-> a, score |-> c] \in all <=> c \in told[a]
  BY DEF all, Tells
<1>4. \A h \in all : h.id \in named /\ h.score \in told[h.id]
  BY <1>2, <1>3
<1>5. ASSUME NEW a \in named PROVE \A c \in told[a] : [id |-> a, score |-> c] \in all
  BY <1>3
<1>6. HitIds(all) = named
  <2>1. HitIds(all) \subseteq named
    BY <1>4 DEF HitIds
  <2>2. ASSUME NEW a \in named PROVE a \in HitIds(all)
    <3>1. PICK c \in told[a] : TRUE
      OBVIOUS
    <3>2. [id |-> a, score |-> c] \in all /\ [id |-> a, score |-> c].id = a
      BY <1>5
    <3> QED
      BY <3>2 DEF HitIds
  <2> QED
    BY <2>1, <2>2
<1>7. \A a \in named : told[a] \in SUBSET (0..100) /\ Max(told[a]) \in told[a] /\ \A c \in told[a] : c <= Max(told[a])
  <2> SUFFICES ASSUME NEW a \in named
               PROVE  told[a] \in SUBSET (0..100) /\ Max(told[a]) \in told[a] /\ \A c \in told[a] : c <= Max(told[a])
    OBVIOUS
  <2>1. told[a] \in SUBSET (0..100) /\ told[a] # {} /\ 100 \in Nat
    BY <1>3
  <2> QED
    BY <2>1, MaxOf
<1>8. HitIds(got) \subseteq named
  BY <1>1, <1>6 DEF HitIds
<1>9. ASSUME NEW h \in got PROVE h.score = Max(told[h.id])
  <2>1. h \in all /\ h.id \in named /\ h.score \in told[h.id] /\ told[h.id] \in SUBSET (0..100)
    BY <1>1, <1>3, <1>4
  <2>2. \A c \in told[h.id] : c <= h.score
    <3> SUFFICES ASSUME NEW c \in told[h.id] PROVE c <= h.score
      OBVIOUS
    <3> DEFINE o == [id |-> h.id, score |-> c]
    <3>1. o \in all /\ o.id = h.id /\ o.score = c
      BY <1>5, <2>1
    <3> HIDE DEF o
    <3> QED
      BY <1>1, <3>1
  <2> QED
    BY <2>1, <2>2, GreatestIs
<1>10. ASSUME NEW h \in got, NEW a \in named \ HitIds(got) PROVE Max(told[a]) <= h.score
  <2> DEFINE o == [id |-> a, score |-> Max(told[a])]
  <2>1. o \in all /\ o.id = a /\ o.score = Max(told[a])
    BY <1>5, <1>7
  <2> HIDE DEF o
  <2> QED
    BY <1>1, <2>1
<1>11. ASSUME k >= Cardinality(Names), NEW a \in Names
       PROVE  {h.score : h \in {g \in got : g.id = a}} = IF a \in named THEN {Max(told[a])} ELSE {}
  <2>1. IsFiniteSet(Names)
    BY RowsAssumption
  <2>2. IsFiniteSet(named) /\ Cardinality(named) <= Cardinality(Names) /\ Cardinality(named) \in Nat /\ Cardinality(Names) \in Nat
    BY <2>1, FS_Subset, FS_CardinalityType
  <2> HIDE DEF named
  <2>3. Cardinality(HitIds(got)) = Cardinality(named)
    BY <1>1, <1>6, <1>11, <2>2 DEF Atop
  <2>4. HitIds(got) = named
    BY <1>8, <2>2, <2>3, FS_Subset
  <2>5. CASE a \in named
    <3>1. PICK h \in got : h.id = a
      BY <2>4, <2>5 DEF HitIds
    <3>2. \A g \in got : g.id = a <=> g = h
      BY <1>1, <3>1 DEF Unique
    <3>3. {g \in got : g.id = a} = {h} /\ h.score = Max(told[a])
      BY <1>9, <3>1, <3>2
    <3> QED
      BY <2>5, <3>3
  <2>6. CASE a \notin named
    <3>1. {g \in got : g.id = a} = {}
      BY <2>4, <2>6 DEF HitIds
    <3> QED
      BY <2>6, <3>1
  <2> QED
    BY <2>5, <2>6
<1> QED
  BY <1>1, <1>6, <1>8, <1>9, <1>10, <1>11 DEF merged, got, Answers

(* Stored calls join symbols, with confidences.                            *)
CallsFit == \A e \in edges : e.type = "calls" => e.src \in Names /\ e.dst \in Names /\ e.confidence \in 0..100

LEMMA OccurrencesFit ==
  ASSUME NEW r \in Rows, NEW e \in OccurrenceEdges(r)
  PROVE  e.src \in Names /\ e.dst \in Names /\ e.confidence \in 0..100
<1> DEFINE count(src, dst) == Cardinality({ref \in Used(r) : Source(r, ref) = src /\ ref.to = dst})
           n(ref) == 35 + 10 * count(Source(r, ref), ref.to)
           edge(ref) == [src |-> Source(r, ref), dst |-> ref.to,
                         type |-> IF KindOf[ref.to] = "method" THEN "calls" ELSE "field_refs",
                         confidence |-> IF n(ref) < 95 THEN n(ref) ELSE 95, source |-> "occurrences"]
<1>1. OccurrenceEdges(r) = {edge(ref) : ref \in Used(r)}
  BY DEF OccurrenceEdges, Used
<1> HIDE DEF edge
<1>2. PICK ref \in Used(r) : e = edge(ref)
  BY <1>1
<1>3. e.src = Source(r, ref) /\ e.dst = ref.to /\ e.confidence = IF n(ref) < 95 THEN n(ref) ELSE 95
  <2> HIDE DEF n
  <2> QED
    BY <1>2 DEF edge
<1>4. IsFiniteSet(r.refs) /\ ref.to \in Names
  BY RowsAssumption DEF Used
<1>5. count(Source(r, ref), ref.to) \in Nat
  <2> DEFINE like == {x \in Used(r) : Source(r, x) = Source(r, ref) /\ x.to = ref.to}
  <2>1. like \in SUBSET r.refs
    BY DEF Used
  <2>2. Cardinality(like) \in Nat
    <3> HIDE DEF like
    <3> QED
      BY <1>4, <2>1, FS_Subset, FS_CardinalityType
  <2> QED
    BY <2>2
<1> HIDE DEF count
<1>6. n(ref) \in Nat
  BY <1>5
<1> HIDE DEF n
<1>7. e.confidence \in 0..100
  <2>1. (IF n(ref) < 95 THEN n(ref) ELSE 95) \in 0..100
    BY <1>6
  <2> QED
    BY <1>3, <2>1
<1>8. Source(r, ref) \in Names
  <2>1. Source(r, ref) \in Typed(r)
    BY SourceIsTyped DEF Used
  <2> QED
    BY <2>1, RowsAssumption DEF Typed
<1> QED
  BY <1>3, <1>4, <1>7, <1>8

LEMMA CallsFitNext == GraphInv /\ CallsFit /\ [GraphNext]_graphVars => CallsFit'
<1> SUFFICES ASSUME GraphInv, CallsFit, [GraphNext]_graphVars PROVE CallsFit'
  OBVIOUS
<1>1. Cleared = {} /\ rows \in Rows
  BY DEF GraphInv, Cleared
<1>2. CASE Build
  <2>1. edges' = EdgesOf({}, rows)
    BY <1>1, <1>2 DEF Build
  <2> SUFFICES ASSUME NEW e \in EdgesOf({}, rows), e.type = "calls"
               PROVE  e.src \in Names /\ e.dst \in Names /\ e.confidence \in 0..100
    BY <2>1 DEF CallsFit
  <2>2. e \in OwnerEdges(rows) \/ e \in RelationEdges(rows) \/ e \in OccurrenceEdges(rows)
    BY <1>1, EdgesAre DEF Ignore
  <2>3. CASE e \in OwnerEdges(rows)
    BY <1>1, <2>3, OwnerEdgesSay
  <2>4. CASE e \in RelationEdges(rows)
    <3>1. PICK rel \in Strongest(rows) : e = EdgeOf(rel)
      BY <1>1, <2>4, RelationEdgesSay
    <3>2. e.src = rel.from /\ e.dst = rel.to /\ e.confidence = rel.confidence
      BY <3>1 DEF EdgeOf
    <3>3. rel \in rows.relations
      BY DEF Strongest, Joined
    <3> QED
      BY <1>1, <3>2, <3>3, RowsAssumption
  <2>5. CASE e \in OccurrenceEdges(rows)
    BY <1>1, <2>5, OccurrencesFit
  <2> QED
    BY <2>2, <2>3, <2>4, <2>5
<1>3. CASE BuildDocumentMode
  BY <1>1, <1>3 DEF BuildDocumentMode, CallsFit
<1>4. CASE Ingest \/ BuildRaises \/ UNCHANGED graphVars
  BY <1>4 DEF Ingest, BuildRaises, graphVars, CallsFit
<1> QED
  BY <1>2, <1>3, <1>4 DEF GraphNext

LEMMA SaidAreConfidences ==
  ASSUME GraphInv, CallsFit, NEW a, NEW b
  PROVE  Said(a, b) \in SUBSET (0..100)
<1>1. Shown(a, b) \subseteq 0..100
  BY DEF Shown, Key, CallsFit
<1>2. Related(rows, a, b) \subseteq 0..100
  BY RowsAssumption DEF Related, GraphInv
<1> QED
  BY <1>1, <1>2 DEF Said

(* What the two queries of callers_of and of callees_of find before the    *)
(* cut is what Said says.                                                  *)
LEMMA CallersSay ==
  ASSUME GraphInv, CallsFit, NEW s \in Names, NEW k \in Nat \ {0}
  PROVE  Answers(CallersOf(s, k), [a \in Names |-> Said(a, s)], k)
<1> DEFINE calls == {e \in edges : e.type = "calls" /\ {e.src, e.dst} \subseteq nodes}
           related == {r \in rows.relations : r.type = "calls"}
           first == {[id |-> e.src, score |-> e.confidence] : e \in {c \in calls : c.dst = s}}
           second == {[id |-> r.from, score |-> r.confidence] : r \in {c \in related : c.to = s}}
<1>1. CallersOf(s, k) = MergeRanked(Selected(first, k), Selected(second, k), k)
  BY DEF CallersOf, CallGraphResults, RelationCallResults
<1>2. \A e \in calls : e.src \in Names /\ e.confidence \in 0..100
  BY DEF CallsFit
<1>3. \A r \in related : r.from \in Names /\ r.confidence \in 0..100
  BY RowsAssumption DEF GraphInv
<1>4. first \in SUBSET Hit /\ second \in SUBSET Hit
  <2> HIDE DEF calls, related
  <2> QED
    BY <1>2, <1>3 DEF Hit
<1>5. ASSUME NEW a \in Names, NEW c \in 0..100
      PROVE  [id |-> a, score |-> c] \in first \cup second <=> c \in Said(a, s)
  <2>1. [id |-> a, score |-> c] \in first <=> \E e \in calls : e.dst = s /\ e.src = a /\ e.confidence = c
    <3> HIDE DEF calls
    <3> QED
      OBVIOUS
  <2>2. [id |-> a, score |-> c] \in second <=> \E r \in related : r.to = s /\ r.from = a /\ r.confidence = c
    <3> HIDE DEF related
    <3> QED
      OBVIOUS
  <2>3. c \in Shown(a, s) <=> \E e \in calls : e.dst = s /\ e.src = a /\ e.confidence = c
    BY DEF Shown, Key, GraphInv
  <2>4. c \in Related(rows, a, s) <=> \E r \in related : r.to = s /\ r.from = a /\ r.confidence = c
    BY DEF Related
  <2> HIDE DEF first, second, calls, related
  <2> QED
    BY <2>1, <2>2, <2>3, <2>4 DEF Said
<1> DEFINE told == [a \in Names |-> Said(a, s)]
<1> HIDE DEF first, second
<1>6. Tells(first \cup second, told)
  BY <1>5, SaidAreConfidences DEF Tells
<1> HIDE DEF told
<1>7. Answers(MergeRanked(Selected(first, k), Selected(second, k), k), told, k)
  BY <1>4, <1>6, AnswerShape
<1> QED
  BY <1>1, <1>7 DEF told

LEMMA CalleesSay ==
  ASSUME GraphInv, CallsFit, NEW s \in Names, NEW k \in Nat \ {0}
  PROVE  Answers(CalleesOf(s, k), [a \in Names |-> Said(s, a)], k)
<1> DEFINE calls == {e \in edges : e.type = "calls" /\ {e.src, e.dst} \subseteq nodes}
           related == {r \in rows.relations : r.type = "calls"}
           first == {[id |-> e.dst, score |-> e.confidence] : e \in {c \in calls : c.src = s}}
           second == {[id |-> r.to, score |-> r.confidence] : r \in {c \in related : c.from = s}}
<1>1. CalleesOf(s, k) = MergeRanked(Selected(first, k), Selected(second, k), k)
  BY DEF CalleesOf, CallGraphResults, RelationCallResults
<1>2. \A e \in calls : e.dst \in Names /\ e.confidence \in 0..100
  BY DEF CallsFit
<1>3. \A r \in related : r.to \in Names /\ r.confidence \in 0..100
  BY RowsAssumption DEF GraphInv
<1>4. first \in SUBSET Hit /\ second \in SUBSET Hit
  <2> HIDE DEF calls, related
  <2> QED
    BY <1>2, <1>3 DEF Hit
<1>5. ASSUME NEW a \in Names, NEW c \in 0..100
      PROVE  [id |-> a, score |-> c] \in first \cup second <=> c \in Said(s, a)
  <2>1. [id |-> a, score |-> c] \in first <=> \E e \in calls : e.src = s /\ e.dst = a /\ e.confidence = c
    <3> HIDE DEF calls
    <3> QED
      OBVIOUS
  <2>2. [id |-> a, score |-> c] \in second <=> \E r \in related : r.from = s /\ r.to = a /\ r.confidence = c
    <3> HIDE DEF related
    <3> QED
      OBVIOUS
  <2>3. c \in Shown(s, a) <=> \E e \in calls : e.src = s /\ e.dst = a /\ e.confidence = c
    BY DEF Shown, Key, GraphInv
  <2>4. c \in Related(rows, s, a) <=> \E r \in related : r.from = s /\ r.to = a /\ r.confidence = c
    BY DEF Related
  <2> HIDE DEF first, second, calls, related
  <2> QED
    BY <2>1, <2>2, <2>3, <2>4 DEF Said
<1> DEFINE told == [a \in Names |-> Said(s, a)]
<1> HIDE DEF first, second
<1>6. Tells(first \cup second, told)
  BY <1>5, SaidAreConfidences DEF Tells
<1> HIDE DEF told
<1>7. Answers(MergeRanked(Selected(first, k), Selected(second, k), k), told, k)
  BY <1>4, <1>6, AnswerShape
<1> QED
  BY <1>1, <1>7 DEF told

LEMMA CallsAreStrongest == GraphInv /\ CallsFit => StrongestCalls
<1> SUFFICES ASSUME GraphInv, CallsFit, NEW s \in Names
             PROVE  LET callers == {a \in Names : Said(a, s) # {}} IN
                    /\ \A k \in 1..Cardinality(Names) :
                         LET got == Elements(CallersOf(s, k))
                             ids == {h.id : h \in got}
                         IN /\ ids \subseteq callers
                            /\ Len(CallersOf(s, k)) = Atop(k, Cardinality(callers))
                            /\ Cardinality(ids) = Len(CallersOf(s, k))
                            /\ \A h \in got : h.score = Max(Said(h.id, s)) /\ \A a \in callers \ ids : Max(Said(a, s)) <= h.score
                    /\ \A a \in Names :
                         {h.score : h \in {g \in Elements(CalleesOf(a, Cardinality(Names))) : g.id = s}}
                           = IF a \in callers THEN {Max(Said(a, s))} ELSE {}
  BY DEF StrongestCalls
<1> DEFINE callers == {a \in Names : Said(a, s) # {}}
<1>1. Cardinality(Names) \in Nat /\ Cardinality(Names) # 0
  BY RowsAssumption, FS_CardinalityType, FS_EmptySet
<1>2. ASSUME NEW k \in 1..Cardinality(Names)
      PROVE  LET got == Elements(CallersOf(s, k))
                 ids == HitIds(got)
             IN /\ ids \subseteq callers
                /\ Len(CallersOf(s, k)) = Atop(k, Cardinality(callers)) /\ Cardinality(ids) = Len(CallersOf(s, k))
                /\ \A h \in got : h.score = Max(Said(h.id, s)) /\ \A a \in callers \ ids : Max(Said(a, s)) <= h.score
  <2> DEFINE told == [a \in Names |-> Said(a, s)]
             got == Elements(CallersOf(s, k))
             named == {a \in Names : told[a] # {}}
  <2>1. k \in Nat \ {0}
    BY <1>1
  <2>2. \A a \in Names : told[a] = Said(a, s)
    OBVIOUS
  <2>3. Answers(CallersOf(s, k), told, k)
    BY <2>1, CallersSay
  <2> HIDE DEF told
  <2>4. /\ HitIds(got) \subseteq named
        /\ Len(CallersOf(s, k)) = Atop(k, Cardinality(named)) /\ Cardinality(HitIds(got)) = Len(CallersOf(s, k))
        /\ \A h \in got : h.score = Max(told[h.id]) /\ \A a \in named \ HitIds(got) : Max(told[a]) <= h.score
    BY <2>3 DEF Answers
  <2>5. named = callers
    BY <2>2
  <2>6. \A h \in got : h.id \in Names
    BY <2>4 DEF HitIds
  <2> HIDE DEF named, callers, got
  <2>7. \A a \in callers : a \in Names
    BY DEF callers
  <2>8. \A h \in got : h.score = Max(Said(h.id, s)) /\ \A a \in callers \ HitIds(got) : Max(Said(a, s)) <= h.score
    BY <2>2, <2>4, <2>5, <2>6, <2>7
  <2> QED
    BY <2>4, <2>5, <2>8 DEF got
<1>3. ASSUME NEW a \in Names
      PROVE  {h.score : h \in {g \in Elements(CalleesOf(a, Cardinality(Names))) : g.id = s}}
               = IF a \in callers THEN {Max(Said(a, s))} ELSE {}
  <2> DEFINE k == Cardinality(Names)
             told == [b \in Names |-> Said(a, b)]
             got == Elements(CalleesOf(a, k))
  <2>1. k \in Nat \ {0} /\ k >= Cardinality(Names)
    BY <1>1
  <2>2. told[s] = Said(a, s)
    OBVIOUS
  <2> HIDE DEF k
  <2>3. Answers(CalleesOf(a, k), told, k)
    BY <2>1, CalleesSay
  <2> HIDE DEF told
  <2>4. \A b \in Names : {h.score : h \in {g \in got : g.id = b}}
                           = IF b \in {x \in Names : told[x] # {}} THEN {Max(told[b])} ELSE {}
    BY <2>1, <2>3 DEF Answers
  <2> HIDE DEF got
  <2>5. {h.score : h \in {g \in got : g.id = s}} = IF told[s] # {} THEN {Max(told[s])} ELSE {}
    BY <2>4
  <2> QED
    BY <2>2, <2>5 DEF got, k
<1> QED
  BY <1>2, <1>3 DEF HitIds

(* StrongestCalls, for any tables that ingestions may leave, any graph     *)
(* that was built from them or is older, and any order of the ids.         *)
THEOREM CallsAlwaysStrongest == GraphSpec => []StrongestCalls
<1>1. GraphInit => GraphInv /\ CallsFit
  BY GraphInvInit DEF GraphInit, CallsFit
<1>2. GraphInv /\ CallsFit /\ [GraphNext]_graphVars => (GraphInv /\ CallsFit)'
  BY GraphInvNext, CallsFitNext
<1> QED
  BY <1>1, <1>2, CallsAreStrongest, PTL DEF GraphSpec

-----------------------------------------------------------------------------
(* Entities by name *)

LEMMA CutIs ==
  ASSUME NEW S, NEW l \in Seq(S), NEW n \in Nat
  PROVE  LET cut == Cut(l, n) IN
         /\ cut \in Seq(S) /\ Len(cut) = Atop(n, Len(l)) /\ Len(cut) \in Nat
         /\ DOMAIN cut = {p \in DOMAIN l : p <= n} /\ \A p \in DOMAIN cut : cut[p] = l[p]
<1> DEFINE m == Atop(n, Len(l))
           cut == Cut(l, n)
<1>1. Len(l) \in Nat /\ DOMAIN l = 1..Len(l) /\ \A p \in DOMAIN l : l[p] \in S
  OBVIOUS
<1>2. m \in Nat /\ m <= Len(l) /\ 1..m = {p \in 1..Len(l) : p <= n}
  BY <1>1 DEF Atop
<1>3. cut = SubSeq(l, 1, m)
  BY DEF Cut
<1> HIDE DEF m, cut
<1>4. \A p \in 1..m : l[p] \in S
  BY <1>1, <1>2
<1>5. /\ SubSeq(l, 1, m) \in Seq(S)
      /\ Len(SubSeq(l, 1, m)) = IF 1 <= m THEN m - 1 + 1 ELSE 0
      /\ \A p \in 1..(m - 1 + 1) : SubSeq(l, 1, m)[p] = l[1 + p - 1]
  <2>1. 1 \in Int /\ m \in Int
    BY <1>2
  <2> QED
    BY <1>4, <2>1, SubSeqProperties
<1>6. (IF 1 <= m THEN m - 1 + 1 ELSE 0) = m /\ m - 1 + 1 = m /\ \A p \in 1..m : 1 + p - 1 = p
  BY <1>2
<1>7. cut \in Seq(S) /\ Len(cut) = m /\ \A p \in 1..m : cut[p] = l[p]
  BY <1>3, <1>5, <1>6
<1>8. DOMAIN cut = 1..m
  BY <1>7
<1> QED
  BY <1>1, <1>2, <1>7, <1>8 DEF cut, m

LEMMA DistinctCount ==
  ASSUME NEW S, NEW l \in Seq(S), Distinct(l)
  PROVE  IsFiniteSet(Elements(l)) /\ Cardinality(Elements(l)) = Len(l)
<1> DEFINE m == Len(l)
<1>1. m \in Nat /\ DOMAIN l = 1..m /\ l \in [1..m -> Elements(l)]
  BY DEF Elements
<1>2. l \in Surjection(1..m, Elements(l))
  BY <1>1 DEF Surjection, Elements
<1>3. l \in Injection(1..m, Elements(l))
  BY <1>1 DEF Injection, IsInjective, Distinct
<1> HIDE DEF m
<1>4. IsFiniteSet(1..m) /\ Cardinality(1..m) = IF 1 > m THEN 0 ELSE m - 1 + 1
  <2>1. 1 \in Int /\ m \in Int
    BY <1>1
  <2> QED
    BY <2>1, FS_Interval, Zenon
<1>5. Cardinality(1..m) = m
  BY <1>1, <1>4
<1>6. IsFiniteSet(Elements(l)) /\ Cardinality(Elements(l)) = Cardinality(1..m)
  BY <1>2, <1>3, <1>4, FS_Surjection
<1> QED
  BY <1>5, <1>6 DEF m

(* A window on a sorted table has all of it, unless the table is greater.  *)
LEMMA WindowShape ==
  ASSUME NEW before, StrictOrder(before), NEW k \in Nat
  PROVE  LET window == Cut(InOrder(before), k) IN
         /\ window \in Seq(DOMAIN before) /\ Distinct(window)
         /\ \A p, r \in DOMAIN window : p < r => window[p] \in before[window[r]]
         /\ Cardinality(DOMAIN before) <= k => Elements(window) = DOMAIN before
<1> DEFINE order == InOrder(before)
           S == DOMAIN before
           window == Cut(order, k)
<1>1. Arranges(order, before)
  BY InOrderArranges
<1>2. Distinct(order) /\ order \in Seq(S)
  BY <1>1, ArrangedDistinct
<1>3. Len(order) = Cardinality(S) /\ Len(order) \in Nat /\ DOMAIN order = 1..Len(order)
  BY <1>1, <1>2 DEF Arranges
<1>4. /\ \A p, r \in DOMAIN order : p < r => order[p] \in before[order[r]]
      /\ \A i \in S : \E p \in DOMAIN order : order[p] = i
  BY <1>1 DEF Arranges
<1> HIDE DEF order, S
<1>5. /\ window \in Seq(S) /\ DOMAIN window = {p \in DOMAIN order : p <= k}
      /\ \A p \in DOMAIN window : window[p] = order[p]
  BY <1>2, CutIs
<1> HIDE DEF window
<1>6. Distinct(window)
  BY <1>2, <1>5 DEF Distinct
<1>7. \A p, r \in DOMAIN window : p < r => window[p] \in before[window[r]]
  BY <1>4, <1>5
<1>8. ASSUME Cardinality(S) <= k PROVE Elements(window) = S
  <2>1. \A p \in DOMAIN order : p <= k
    BY <1>3, <1>8
  <2>2. DOMAIN window = DOMAIN order
    BY <1>5, <2>1
  <2>3. \A i \in S : i \in Elements(window)
    BY <1>4, <1>5, <2>2 DEF Elements
  <2>4. \A i \in Elements(window) : i \in S
    BY <1>5 DEF Elements
  <2> QED
    BY <2>3, <2>4
<1> QED
  BY <1>5, <1>6, <1>7, <1>8 DEF window, order, S

LEMMA PickedShape ==
  ASSUME NEW S, NEW l \in Seq(S), Distinct(l), NEW places \in SUBSET DOMAIN l
  PROVE  LET picked == Picked(l, places) IN
         /\ picked \in Seq(S) /\ Distinct(picked) /\ Elements(picked) = {l[i] : i \in places}
         /\ \A p, r \in DOMAIN picked : p < r => \E i, j \in places : i < j /\ picked[p] = l[i] /\ picked[r] = l[j]
<1> DEFINE picked == Picked(l, places)
<1>1. PICK order : /\ order \in Seq(places) /\ Distinct(order)
                   /\ \A i \in places : \E p \in DOMAIN order : order[p] = i
                   /\ \A p, r \in DOMAIN order : p < r => order[p] < order[r]
                   /\ picked = Follow(l, order)
  BY PickedOrder
<1> HIDE DEF picked
<1>2. Len(order) \in Nat /\ DOMAIN order = 1..Len(order) /\ \A p \in DOMAIN order : order[p] \in places
  BY <1>1
<1>3. DOMAIN picked = DOMAIN order /\ \A p \in DOMAIN order : picked[p] = l[order[p]]
  BY <1>1 DEF Follow
<1>4. \A i \in DOMAIN l : l[i] \in S
  OBVIOUS
<1>5. picked \in [1..Len(order) -> S]
  <2>1. picked = [p \in DOMAIN order |-> l[order[p]]]
    BY <1>1 DEF Follow
  <2> QED
    BY <1>2, <1>4, <2>1
<1>6. picked \in Seq(S)
  BY <1>2, <1>5
<1>7. Distinct(picked)
  BY <1>1, <1>2, <1>3 DEF Distinct
<1>8. Elements(picked) = {l[i] : i \in places}
  <2>1. \A x \in Elements(picked) : x \in {l[i] : i \in places}
    BY <1>2, <1>3 DEF Elements
  <2>2. \A i \in places : l[i] \in Elements(picked)
    BY <1>1, <1>3 DEF Elements
  <2> QED
    BY <2>1, <2>2
<1>9. \A p, r \in DOMAIN picked : p < r => \E i, j \in places : i < j /\ picked[p] = l[i] /\ picked[r] = l[j]
  BY <1>1, <1>2, <1>3
<1> QED
  BY <1>6, <1>7, <1>8, <1>9 DEF picked

SymbolRow == [id : Int, name : {"equal", "part", "other"}, word : BOOLEAN, length : Nat, rank : Int, fits : BOOLEAN]

ByLength(T) == [s \in T |-> {o \in T : Shorter(o, s)}]
ByEqual(T) == [s \in T |-> {o \in T : EqualFirst(o, s)}]
ByRank(T) == [s \in T |-> {o \in T : Ranked(o, s)}]

LEMMA SymbolsShape ==
  ASSUME NEW symbols \in Tables
  PROVE  /\ IsFiniteSet(symbols)
         /\ \A s \in symbols : s.id \in Int /\ s.length \in Nat /\ s.rank \in Int
         /\ \A a, b \in symbols : a.id = b.id \/ a.rank = b.rank => a = b
<1>1. IsFiniteSet(symbols) /\ symbols \subseteq SymbolRow /\ \A a, b \in symbols : a.id = b.id \/ a.rank = b.rank => a = b
  BY TablesAssumption, Zenon DEF SymbolRow
<1>2. \A s \in SymbolRow : s.id \in Int /\ s.length \in Nat /\ s.rank \in Int
  BY DEF SymbolRow
<1> QED
  BY <1>1, <1>2

LEMMA TablesAreOrdered ==
  ASSUME NEW symbols \in Tables, NEW T \in SUBSET symbols
  PROVE  StrictOrder(ByLength(T)) /\ StrictOrder(ByEqual(T)) /\ StrictOrder(ByRank(T))
<1>1. /\ IsFiniteSet(T) /\ \A s \in T : s.id \in Int /\ s.length \in Int /\ s.rank \in Int
      /\ \A a, b \in T : a.id = b.id \/ a.rank = b.rank => a = b
  BY SymbolsShape, FS_Subset
<1>2. StrictOrder(ByLength(T))
  <2>1. \A a \in T : ~Shorter(a, a)
    BY <1>1 DEF Shorter
  <2>2. \A a, b, c \in T : Shorter(a, b) /\ Shorter(b, c) => Shorter(a, c)
    BY <1>1 DEF Shorter
  <2>3. \A a, b \in T : a = b \/ Shorter(a, b) \/ Shorter(b, a)
    BY <1>1 DEF Shorter
  <2> DEFINE before == ByLength(T)
  <2>4. DOMAIN before = T /\ \A s \in T : before[s] = {o \in T : Shorter(o, s)}
    BY DEF ByLength
  <2> HIDE DEF before
  <2>5. StrictOrder(before)
    BY <1>1, <2>1, <2>2, <2>3, <2>4 DEF StrictOrder
  <2> QED
    BY <2>5 DEF before
<1>3. StrictOrder(ByEqual(T))
  <2>1. \A a \in T : ~EqualFirst(a, a)
    BY <1>1 DEF EqualFirst, Shorter
  <2>2. \A a, b, c \in T : EqualFirst(a, b) /\ EqualFirst(b, c) => EqualFirst(a, c)
    BY <1>1 DEF EqualFirst, Shorter
  <2>3. \A a, b \in T : a = b \/ EqualFirst(a, b) \/ EqualFirst(b, a)
    BY <1>1 DEF EqualFirst, Shorter
  <2> DEFINE before == ByEqual(T)
  <2>4. DOMAIN before = T /\ \A s \in T : before[s] = {o \in T : EqualFirst(o, s)}
    BY DEF ByEqual
  <2> HIDE DEF before
  <2>5. StrictOrder(before)
    BY <1>1, <2>1, <2>2, <2>3, <2>4 DEF StrictOrder
  <2> QED
    BY <2>5 DEF before
<1>4. StrictOrder(ByRank(T))
  <2>1. \A a \in T : ~Ranked(a, a)
    BY <1>1 DEF Ranked
  <2>2. \A a, b, c \in T : Ranked(a, b) /\ Ranked(b, c) => Ranked(a, c)
    BY <1>1 DEF Ranked
  <2>3. \A a, b \in T : a = b \/ Ranked(a, b) \/ Ranked(b, a)
    BY <1>1 DEF Ranked
  <2> DEFINE before == ByRank(T)
  <2>4. DOMAIN before = T /\ \A s \in T : before[s] = {o \in T : Ranked(o, s)}
    BY DEF ByRank
  <2> HIDE DEF before
  <2>5. StrictOrder(before)
    BY <1>1, <2>1, <2>2, <2>3, <2>4 DEF StrictOrder
  <2> QED
    BY <2>5 DEF before
<1> QED
  BY <1>2, <1>3, <1>4

(* The rows before the filter are symbols found by name or by a word, each *)
(* once; if the window has room for the symbols of that name, all of these *)
(* and ahead of the others; and by length, for an exact name.              *)
NamedRows(found, symbols, match, limit) ==
  /\ found \in Seq(symbols) /\ Distinct(found)
  /\ Elements(found) \subseteq Named(symbols, match) \cup WordOnly(symbols, match)
  /\ Cardinality(Named(symbols, match)) <= WindowOf(match, limit) =>
       /\ Named(symbols, match) \subseteq Elements(found)
       /\ \A p, r \in DOMAIN found : p < r /\ found[r] \in Named(symbols, match) => found[p] \in Named(symbols, match)
  /\ match = "exact" => \A p, r \in DOMAIN found : p < r => Shorter(found[p], found[r])

LEMMA WindowIsNumber ==
  ASSUME NEW limit \in Limits
  PROVE  Upper(limit, ExactWindow) \in Nat /\ Upper(limit, ContainsWindow) \in Nat /\ Upper(limit, 1) \in Nat
BY WindowsAssumption DEF Upper

LEMMA ExactNamed ==
  ASSUME NEW symbols \in Tables, NEW limit \in Limits
  PROVE  NamedRows(ExactRows(symbols, limit), symbols, "exact", limit)
<1> DEFINE T == {s \in symbols : s.name = "equal"}
           k == Upper(limit, ExactWindow)
           found == ExactRows(symbols, limit)
<1>1. found = Cut(InOrder(ByLength(T)), k)
  BY DEF ExactRows, ByLength
<1>2. DOMAIN ByLength(T) = T /\ \A s \in T : ByLength(T)[s] = {o \in T : Shorter(o, s)}
  BY DEF ByLength
<1>3. k \in Nat /\ WindowOf("exact", limit) = k /\ Named(symbols, "exact") = T
  BY WindowIsNumber DEF WindowOf, Named
<1>4. T \in SUBSET symbols
  OBVIOUS
<1> HIDE DEF found, T, k
<1>5. /\ found \in Seq(T) /\ Distinct(found)
      /\ \A p, r \in DOMAIN found : p < r => found[p] \in ByLength(T)[found[r]]
      /\ Cardinality(T) <= k => Elements(found) = T
  <2>1. StrictOrder(ByLength(T))
    BY <1>4, TablesAreOrdered
  <2> QED
    BY <1>1, <1>2, <1>3, <2>1, WindowShape
<1>6. \A p \in DOMAIN found : found[p] \in T
  BY <1>5
<1>7. found \in Seq(symbols) /\ Elements(found) \subseteq T
  BY <1>4, <1>5, <1>6 DEF Elements
<1>8. \A p, r \in DOMAIN found : p < r => Shorter(found[p], found[r])
  BY <1>2, <1>5, <1>6
<1>9. NamedRows(found, symbols, "exact", limit)
  BY <1>3, <1>5, <1>6, <1>7, <1>8 DEF NamedRows
<1> QED
  BY <1>9 DEF found

LEMMA CandidatesNamed ==
  ASSUME NEW symbols \in Tables, NEW limit \in Limits
  PROVE  NamedRows(Candidates(symbols, Upper(limit, ContainsWindow)), symbols, "contains", limit)
<1> DEFINE L == {s \in symbols : s.name # "other"}
           W == {s \in symbols : s.word}
           k == Upper(limit, ContainsWindow)
           like == LikeRows(symbols, k)
           words == WordRows(symbols, k)
           new == {i \in DOMAIN words : words[i] \notin Elements(like)}
           rest == Picked(words, new)
           all == Candidates(symbols, k)
<1>1. /\ k \in Nat /\ WindowOf("contains", limit) = k
      /\ Named(symbols, "contains") = L /\ WordOnly(symbols, "contains") = W \ L
  BY WindowIsNumber DEF WindowOf, Named, WordOnly
<1>2. L \in SUBSET symbols /\ W \in SUBSET symbols
  OBVIOUS
<1>3. all = like \o rest
  BY DEF Candidates
<1>4. like = Cut(InOrder(ByEqual(L)), k) /\ words = Cut(InOrder(ByRank(W)), k)
  BY DEF LikeRows, ByEqual, WordRows, ByRank
<1>5. DOMAIN ByEqual(L) = L /\ DOMAIN ByRank(W) = W
  BY DEF ByEqual, ByRank
<1> HIDE DEF L, W, k, like, words, rest, all
<1>6. like \in Seq(L) /\ Distinct(like) /\ (Cardinality(L) <= k => Elements(like) = L)
  <2>1. StrictOrder(ByEqual(L))
    BY <1>2, TablesAreOrdered
  <2> QED
    BY <1>1, <1>4, <1>5, <2>1, WindowShape
<1>7. words \in Seq(W) /\ Distinct(words) /\ (Cardinality(W) <= k => Elements(words) = W)
  <2>1. StrictOrder(ByRank(W))
    BY <1>2, TablesAreOrdered
  <2> QED
    BY <1>1, <1>4, <1>5, <2>1, WindowShape
<1>8. rest \in Seq(W) /\ Distinct(rest) /\ Elements(rest) = {words[i] : i \in new}
  <2>1. new \in SUBSET DOMAIN words
    OBVIOUS
  <2> HIDE DEF new
  <2> QED
    BY <1>7, <2>1, PickedShape DEF rest
<1>9. Elements(rest) = Elements(words) \ Elements(like)
  <2>1. \A x \in Elements(rest) : x \in Elements(words) \ Elements(like)
    BY <1>8 DEF Elements
  <2>2. \A x \in Elements(words) \ Elements(like) : x \in Elements(rest)
    BY <1>8 DEF Elements
  <2> QED
    BY <2>1, <2>2
<1> HIDE DEF new
<1>10. /\ Elements(like) \subseteq L /\ Elements(words) \subseteq W
       /\ \A p \in DOMAIN like : like[p] \in Elements(like)
       /\ \A p \in DOMAIN rest : rest[p] \in Elements(rest)
  BY <1>6, <1>7 DEF Elements
<1>11. /\ Len(like) \in Nat /\ DOMAIN like = 1..Len(like) /\ \A p \in DOMAIN like : like[p] \in L
       /\ Len(rest) \in Nat /\ DOMAIN rest = 1..Len(rest) /\ \A p \in DOMAIN rest : rest[p] \in W
  BY <1>6, <1>8
<1>12. like \in Seq(symbols) /\ rest \in Seq(symbols)
  BY <1>2, <1>6, <1>8, <1>11
<1>13. /\ all \in Seq(symbols) /\ DOMAIN all = 1..Len(like) + Len(rest)
       /\ \A p \in 1..Len(like) + Len(rest) : all[p] = IF p <= Len(like) THEN like[p] ELSE rest[p - Len(like)]
  <2>1. /\ like \o rest \in Seq(symbols) /\ Len(like \o rest) = Len(like) + Len(rest)
        /\ \A p \in 1..Len(like) + Len(rest) : (like \o rest)[p] = IF p <= Len(like) THEN like[p] ELSE rest[p - Len(like)]
    BY <1>12, ConcatProperties
  <2>2. DOMAIN (like \o rest) = 1..Len(like \o rest)
    BY <2>1
  <2> QED
    BY <1>3, <2>1, <2>2
<1>14. \A p \in DOMAIN all : \/ p \in DOMAIN like /\ all[p] = like[p]
                             \/ p - Len(like) \in DOMAIN rest /\ all[p] = rest[p - Len(like)]
  BY <1>11, <1>13
<1>15. Distinct(all)
  <2> SUFFICES ASSUME NEW p \in DOMAIN all, NEW r \in DOMAIN all, all[p] = all[r] PROVE p = r
    BY DEF Distinct
  <2>1. p \in Int /\ r \in Int /\ Len(like) \in Int
    BY <1>11, <1>13
  <2>2. CASE p \in DOMAIN like /\ all[p] = like[p]
    <3>1. all[r] \notin Elements(rest)
      BY <1>9, <1>10, <2>2
    <3>2. r \in DOMAIN like /\ all[r] = like[r]
      BY <1>10, <1>14, <3>1
    <3> QED
      BY <1>6, <2>2, <3>2 DEF Distinct
  <2>3. CASE p - Len(like) \in DOMAIN rest /\ all[p] = rest[p - Len(like)]
    <3>1. all[r] \notin Elements(like)
      BY <1>9, <1>10, <2>3
    <3>2. r - Len(like) \in DOMAIN rest /\ all[r] = rest[r - Len(like)]
      BY <1>10, <1>14, <3>1
    <3>3. p - Len(like) = r - Len(like)
      BY <1>8, <2>3, <3>2 DEF Distinct
    <3> QED
      BY <2>1, <3>3
  <2> QED
    BY <1>14, <2>2, <2>3
<1>16. Elements(all) = Elements(like) \cup Elements(rest)
  <2>1. \A x \in Elements(all) : x \in Elements(like) \cup Elements(rest)
    BY <1>10, <1>14 DEF Elements
  <2>2. ASSUME NEW p \in DOMAIN like PROVE like[p] \in Elements(all)
    <3>1. p \in DOMAIN all /\ all[p] = like[p]
      BY <1>11, <1>13
    <3> QED
      BY <3>1 DEF Elements
  <2>3. ASSUME NEW p \in DOMAIN rest PROVE rest[p] \in Elements(all)
    <3>1. p + Len(like) \in DOMAIN all /\ ~(p + Len(like) <= Len(like)) /\ p + Len(like) - Len(like) = p
      BY <1>11, <1>13
    <3>2. all[p + Len(like)] = rest[p]
      BY <1>13, <3>1
    <3> QED
      BY <3>1, <3>2 DEF Elements
  <2> QED
    BY <2>1, <2>2, <2>3 DEF Elements
<1>17. Elements(all) \subseteq L \cup W
  BY <1>9, <1>10, <1>16
<1>18. ASSUME Cardinality(L) <= k
       PROVE  /\ L \subseteq Elements(all)
              /\ \A p, r \in DOMAIN all : p < r /\ all[r] \in L => all[p] \in L
  <2>1. Elements(like) = L
    BY <1>6, <1>18
  <2>2. ASSUME NEW p \in DOMAIN all, NEW r \in DOMAIN all, p < r, all[r] \in L PROVE all[p] \in L
    <3>1. r \in DOMAIN like
      BY <1>9, <1>10, <1>14, <2>1, <2>2
    <3>2. p \in DOMAIN like /\ all[p] = like[p]
      BY <1>11, <1>13, <2>2, <3>1
    <3> QED
      BY <1>11, <3>2
  <2> QED
    BY <1>16, <2>1, <2>2
<1>19. NamedRows(all, symbols, "contains", limit)
  <2>1. Elements(all) \subseteq L \cup (W \ L)
    BY <1>17
  <2> QED
    BY <1>1, <1>13, <1>15, <1>18, <2>1 DEF NamedRows
<1> QED
  BY <1>19 DEF all, k

(* At most n of what fits; and what fits and is not among them is behind   *)
(* all that is, and there only if n have come.                             *)
FirstFitting(answer, found, n) ==
  LET fitting == {s \in Elements(found) : s.fits} IN
  /\ Elements(answer) \subseteq fitting /\ Cardinality(Elements(answer)) = Len(answer) /\ Len(answer) <= n
  /\ fitting \ Elements(answer) # {} => Len(answer) = n
  /\ \A a \in Elements(answer), b \in fitting \ Elements(answer) :
       \E i, j \in DOMAIN found : i < j /\ found[i] = a /\ found[j] = b

LEMMA FittingCut ==
  ASSUME NEW S, NEW found \in Seq(S), Distinct(found), NEW n \in Nat
  PROVE  FirstFitting(Cut(Fitting(found), n), found, n)
<1> DEFINE places == {i \in DOMAIN found : found[i].fits}
           fitting == {s \in Elements(found) : s.fits}
           picked == Picked(found, places)
           answer == Cut(picked, n)
<1>1. Fitting(found) = picked
  BY DEF Fitting
<1>2. places \in SUBSET DOMAIN found /\ fitting = {found[i] : i \in places}
  BY DEF Elements
<1> HIDE DEF places, fitting
<1>3. /\ picked \in Seq(S) /\ Distinct(picked) /\ Elements(picked) = fitting
      /\ \A p, r \in DOMAIN picked : p < r => \E i, j \in places : i < j /\ picked[p] = found[i] /\ picked[r] = found[j]
  BY <1>2, PickedShape
<1> HIDE DEF picked
<1>4. Len(picked) \in Nat /\ DOMAIN picked = 1..Len(picked)
  BY <1>3
<1>5. /\ answer \in Seq(S) /\ Len(answer) = Atop(n, Len(picked)) /\ Len(answer) \in Nat
      /\ DOMAIN answer = {p \in DOMAIN picked : p <= n} /\ \A p \in DOMAIN answer : answer[p] = picked[p]
  BY <1>3, CutIs
<1> HIDE DEF answer
<1>6. Distinct(answer)
  BY <1>3, <1>5 DEF Distinct
<1>7. Elements(answer) \subseteq fitting
  BY <1>3, <1>5 DEF Elements
<1>8. Cardinality(Elements(answer)) = Len(answer) /\ Len(answer) <= n
  <2>1. Cardinality(Elements(answer)) = Len(answer)
    BY <1>5, <1>6, DistinctCount
  <2>2. Atop(n, Len(picked)) <= n
    BY <1>4 DEF Atop
  <2> QED
    BY <1>5, <2>1, <2>2
<1>9. ASSUME NEW b \in fitting \ Elements(answer)
      PROVE  \E r \in DOMAIN picked : picked[r] = b /\ n < r
  <2>1. PICK r \in DOMAIN picked : picked[r] = b
    BY <1>3 DEF Elements
  <2>2. r \notin DOMAIN answer
    BY <1>5, <2>1 DEF Elements
  <2> QED
    BY <1>4, <1>5, <2>1, <2>2
<1>10. ASSUME fitting \ Elements(answer) # {} PROVE Len(answer) = n
  <2>1. \E r \in DOMAIN picked : n < r
    BY <1>9, <1>10
  <2>2. n < Len(picked)
    BY <1>4, <2>1
  <2>3. Atop(n, Len(picked)) = n
    BY <2>2 DEF Atop
  <2> QED
    BY <1>5, <2>3
<1>11. ASSUME NEW a \in Elements(answer), NEW b \in fitting \ Elements(answer)
       PROVE  \E i, j \in DOMAIN found : i < j /\ found[i] = a /\ found[j] = b
  <2>1. PICK p \in DOMAIN answer : answer[p] = a
    BY DEF Elements
  <2>2. p \in DOMAIN picked /\ picked[p] = a /\ p <= n
    BY <1>5, <2>1
  <2>3. PICK r \in DOMAIN picked : picked[r] = b /\ n < r
    BY <1>9
  <2>4. p < r
    BY <1>4, <2>2, <2>3
  <2>5. PICK i, j \in places : i < j /\ picked[p] = found[i] /\ picked[r] = found[j]
    BY <1>3, <2>2, <2>3, <2>4
  <2> QED
    BY <1>2, <2>2, <2>3, <2>5
<1> QED
  BY <1>1, <1>7, <1>8, <1>10, <1>11 DEF FirstFitting, answer, fitting

(* An answer to a request.                                                 *)
Answered(e) ==
  /\ e.symbols \in Tables /\ e.limit \in Limits
  /\ \E found : /\ NamedRows(found, e.symbols, e.match, e.limit)
                /\ e.answer = Cut(Fitting(found), Upper(e.limit, 1))

EntityInv == entity # <<>> => Answered(entity)

LEMMA EntityInvNext == EntityInv /\ [EntityNext]_entity => EntityInv'
<1> SUFFICES ASSUME EntityInv, [EntityNext]_entity PROVE EntityInv'
  OBVIOUS
<1>1. CASE UNCHANGED entity
  BY <1>1 DEF EntityInv
<1>2. CASE EntityNext
  <2>1. PICK symbols \in Tables, match \in {"exact", "contains"}, limit \in Limits :
          entity' = [symbols |-> symbols, match |-> match, limit |-> limit, answer |-> FindEntity(symbols, match, limit)]
    BY <1>2 DEF EntityNext
  <2> DEFINE found == IF match = "exact" THEN ExactRows(symbols, limit)
                      ELSE Candidates(symbols, Upper(limit, ContainsWindow))
  <2>2. NamedRows(found, symbols, match, limit)
    <3>1. CASE match = "exact"
      BY <3>1, ExactNamed
    <3>2. CASE match = "contains"
      BY <3>2, CandidatesNamed
    <3> QED
      BY <3>1, <3>2
  <2>3. FindEntity(symbols, match, limit) = Cut(Fitting(found), Upper(limit, 1))
    BY DEF FindEntity
  <2> HIDE DEF found
  <2>4. /\ entity'.symbols = symbols /\ entity'.match = match /\ entity'.limit = limit
        /\ entity'.answer = Cut(Fitting(found), Upper(limit, 1))
    BY <2>1, <2>3
  <2>5. Answered(entity')
    BY <2>2, <2>4 DEF Answered
  <2> QED
    BY <2>5 DEF EntityInv, Answered
<1> QED
  BY <1>1, <1>2

LEMMA AnswerFinds == EntityInv => FindsWhatFits
<1> SUFFICES ASSUME EntityInv, entity # <<>>, entity.limit >= 1 PROVE FindsWhatFits
  BY DEF FindsWhatFits
<1> DEFINE answer == entity.answer
           n == entity.limit
           named == Named(entity.symbols, entity.match)
           words == WordOnly(entity.symbols, entity.match)
           fitting == {s \in named : s.fits}
           left == fitting \ Elements(answer)
<1>1. n \in Nat /\ Upper(entity.limit, 1) = n
  <2>1. n \in Limits /\ n >= 1
    BY DEF EntityInv, Answered
  <2>2. n \in Int
    BY <2>1, WindowsAssumption
  <2> HIDE DEF n
  <2>3. n \in Nat /\ Upper(n, 1) = n
    BY <2>1, <2>2 DEF Upper
  <2> QED
    BY <2>3 DEF n
<1>2. PICK found : /\ NamedRows(found, entity.symbols, entity.match, entity.limit)
                   /\ answer = Cut(Fitting(found), n)
  BY <1>1 DEF EntityInv, Answered
<1>3. /\ found \in Seq(entity.symbols) /\ Distinct(found) /\ Elements(found) \subseteq named \cup words
      /\ Cardinality(named) <= WindowOf(entity.match, entity.limit) =>
           /\ named \subseteq Elements(found)
           /\ \A p, r \in DOMAIN found : p < r /\ found[r] \in named => found[p] \in named
      /\ entity.match = "exact" => \A p, r \in DOMAIN found : p < r => Shorter(found[p], found[r])
  BY <1>2 DEF NamedRows
<1> DEFINE fit == {s \in Elements(found) : s.fits}
<1> HIDE DEF n, answer, named, words
<1>4. /\ Elements(answer) \subseteq fit /\ Cardinality(Elements(answer)) = Len(answer) /\ Len(answer) <= n
      /\ fit \ Elements(answer) # {} => Len(answer) = n
      /\ \A a \in Elements(answer), b \in fit \ Elements(answer) :
           \E i, j \in DOMAIN found : i < j /\ found[i] = a /\ found[j] = b
  <2>1. FirstFitting(Cut(Fitting(found), n), found, n)
    BY <1>1, <1>3, FittingCut
  <2>2. FirstFitting(answer, found, n)
    BY <1>2, <2>1
  <2> QED
    BY <2>2 DEF FirstFitting
<1>5. /\ \A s \in Elements(answer) : s.fits
      /\ words = {} => Elements(answer) \subseteq fitting
  BY <1>3, <1>4
<1>6. ASSUME Cardinality(named) <= WindowOf(entity.match, entity.limit)
      PROVE  /\ left # {} => Len(answer) = n /\ Elements(answer) \subseteq fitting
             /\ entity.match = "exact" => \A a \in Elements(answer), b \in left : Shorter(a, b)
  <2>1. left \subseteq fit \ Elements(answer)
    BY <1>3, <1>6
  <2>2. ASSUME NEW a \in Elements(answer), NEW b \in left
        PROVE  a \in named /\ (entity.match = "exact" => Shorter(a, b))
    <3>1. b \in fit \ Elements(answer) /\ b \in named
      BY <2>1
    <3> HIDE DEF fit, left
    <3>2. PICK i \in DOMAIN found, j \in DOMAIN found : i < j /\ found[i] = a /\ found[j] = b
      BY <1>4, <3>1
    <3> QED
      BY <1>3, <1>6, <3>1, <3>2
  <2>3. ASSUME left # {} PROVE Len(answer) = n /\ Elements(answer) \subseteq fitting
    <3>1. PICK b \in left : TRUE
      BY <2>3
    <3>2. \A a \in Elements(answer) : a \in named
      BY <2>2, <3>1
    <3> QED
      BY <1>4, <1>5, <2>1, <3>1, <3>2
  <2> QED
    BY <2>2, <2>3
<1> QED
  BY <1>4, <1>5, <1>6 DEF FindsWhatFits, n, answer, named, words, fitting, left

(* FindsWhatFits, for any table of symbols, any windows and any limit: what *)
(* find_entity answers fits, and what fits is lost only to others that do. *)
THEOREM FoundAlwaysFits == EntitySpec => []FindsWhatFits
<1>1. EntityInit => EntityInv
  BY DEF EntityInit, EntityInv
<1> QED
  BY <1>1, EntityInvNext, AnswerFinds, PTL DEF EntitySpec

-----------------------------------------------------------------------------
(* The seeds of an exploration: places in lists of lists *)

(* A finite set of places.                                                 *)
ArePlaces(F) == F \subseteq Nat \X Nat /\ IsFiniteSet(F)

LEMMA PlacesShape ==
  ASSUME NEW table, NEW n \in Nat, DOMAIN table = 1..n,
         \A i \in 1..n : \E m \in Nat : DOMAIN table[i] = 1..m
  PROVE  ArePlaces(Places(table))
<1> DEFINE column(i) == {i} \X DOMAIN table[i]
           columns == {column(i) : i \in 1..n}
<1>1. IsFiniteSet(1..n)
  <2>1. 1 \in Int /\ n \in Int
    OBVIOUS
  <2> QED
    BY <2>1, FS_Interval, Zenon
<1>2. \A i \in 1..n : IsFiniteSet(column(i))
  <2> TAKE i \in 1..n
  <2>1. PICK m \in Nat : DOMAIN table[i] = 1..m
    OBVIOUS
  <2>2. 1 \in Int /\ m \in Int
    OBVIOUS
  <2>3. IsFiniteSet(DOMAIN table[i])
    BY <2>1, <2>2, FS_Interval, Zenon
  <2>4. IsFiniteSet({i})
    BY FS_Singleton
  <2> QED
    BY <2>3, <2>4, FS_Product
<1>3. IsFiniteSet(columns)
  <2> DEFINE f == [i \in 1..n |-> column(i)]
  <2>1. f \in Surjection(1..n, columns)
    BY DEF Surjection
  <2> HIDE DEF f, columns
  <2> QED
    BY <1>1, <2>1, FS_Surjection
<1>4. IsFiniteSet(UNION columns)
  <2>1. \A T \in columns : IsFiniteSet(T)
    BY <1>2
  <2> HIDE DEF columns
  <2> QED
    BY <1>3, <2>1, FS_UNION
<1>5. Places(table) = UNION columns
  BY DEF Places
<1>6. Places(table) \subseteq Nat \X Nat
  <2> SUFFICES ASSUME NEW i \in 1..n, NEW p \in {i} \X DOMAIN table[i] PROVE p \in Nat \X Nat
    BY DEF Places
  <2>1. PICK m \in Nat : DOMAIN table[i] = 1..m
    OBVIOUS
  <2> QED
    BY <2>1
<1> QED
  BY <1>4, <1>5, <1>6 DEF ArePlaces

(* Places come one after another.                                          *)
LEMMA EarlierIsOrder ==
  /\ \A p \in Nat \X Nat : ~Earlier(p, p)
  /\ \A p, t, s \in Nat \X Nat : Earlier(p, t) /\ Earlier(t, s) => Earlier(p, s)
  /\ \A p, t \in Nat \X Nat : p = t \/ Earlier(p, t) \/ Earlier(t, p)
<1>1. \A p \in Nat \X Nat : p[1] \in Nat /\ p[2] \in Nat /\ p = <<p[1], p[2]>>
  OBVIOUS
<1>2. \A p, t \in Nat \X Nat : p[1] = t[1] /\ p[2] = t[2] => p = t
  BY <1>1
<1> QED
  BY <1>1, <1>2 DEF Earlier

LEMMA EarliestOf ==
  ASSUME NEW T \in SUBSET (Nat \X Nat), T # {}
  PROVE  \E p \in T : \A t \in T : ~Earlier(t, p)
<1> DEFINE table == {p[1] : p \in T}
<1>1. table \in SUBSET Nat /\ table # {}
  OBVIOUS
<1>2. PICK i \in table : \A j \in table : i <= j
  BY <1>1, LeastOf
<1> DEFINE columns == {p[2] : p \in {f \in T : f[1] = i}}
<1>3. columns \in SUBSET Nat /\ columns # {}
  OBVIOUS
<1>4. PICK c \in columns : \A d \in columns : c <= d
  BY <1>3, LeastOf
<1>5. PICK p \in T : p[1] = i /\ p[2] = c
  OBVIOUS
<1>6. ASSUME NEW t \in T PROVE ~Earlier(t, p)
  <2>1. t[1] \in Nat /\ t[2] \in Nat /\ i \in Nat /\ c \in Nat
    BY <1>1, <1>3
  <2>2. i <= t[1] /\ (t[1] = i => c <= t[2])
    BY <1>2, <1>4
  <2> HIDE DEF table, columns
  <2> QED
    BY <1>5, <2>1, <2>2 DEF Earlier
<1> QED
  BY <1>6

(* Every node is met first at one place.                                   *)
LEMMA FirstsShape ==
  ASSUME NEW node, ArePlaces(DOMAIN node)
  PROVE  /\ ArePlaces(Firsts(node)) /\ Firsts(node) \subseteq DOMAIN node
         /\ \A p \in DOMAIN node : \E f \in Firsts(node) : node[f] = node[p]
         /\ \A f, g \in Firsts(node) : node[f] = node[g] => f = g
<1>1. Firsts(node) \subseteq DOMAIN node
  BY DEF Firsts
<1>2. ArePlaces(Firsts(node))
  BY <1>1, FS_Subset DEF ArePlaces
<1>3. ASSUME NEW p \in DOMAIN node PROVE \E f \in Firsts(node) : node[f] = node[p]
  <2> DEFINE T == Mentions(node, node[p])
  <2>1. T \in SUBSET (Nat \X Nat) /\ T # {} /\ T \subseteq DOMAIN node /\ \A t \in T : node[t] = node[p]
    BY DEF Mentions, ArePlaces
  <2>2. PICK f \in T : \A t \in T : ~Earlier(t, f)
    <3> HIDE DEF T
    <3> QED
      BY <2>1, EarliestOf
  <2>3. f \in DOMAIN node /\ node[f] = node[p]
    BY <2>1
  <2>4. \A t \in Mentions(node, node[f]) : ~Earlier(t, f)
    BY <2>2, <2>3
  <2> QED
    BY <2>3, <2>4 DEF Firsts
<1>4. ASSUME NEW f \in Firsts(node), NEW g \in Firsts(node), node[f] = node[g] PROVE f = g
  <2>1. f \in Nat \X Nat /\ g \in Nat \X Nat
    BY <1>2 DEF ArePlaces
  <2>2. f \in Mentions(node, node[g]) /\ g \in Mentions(node, node[f])
    BY <1>1, <1>4 DEF Mentions
  <2>3. ~Earlier(f, g) /\ ~Earlier(g, f)
    BY <2>2 DEF Firsts
  <2> QED
    BY <2>1, <2>3, EarlierIsOrder
<1> QED
  BY <1>1, <1>2, <1>3, <1>4

Follows(score) ==
  [p \in DOMAIN score |-> {t \in DOMAIN score : score[t] > score[p] \/ (score[t] = score[p] /\ Earlier(t, p))}]

LEMMA FollowsIsStrict ==
  ASSUME NEW F, ArePlaces(F), NEW score \in [F -> Int]
  PROVE  StrictOrder(Follows(score)) /\ DOMAIN Follows(score) = F
<1> DEFINE before == Follows(score)
           Tops(t, p) == score[t] > score[p] \/ (score[t] = score[p] /\ Earlier(t, p))
<1>1. DOMAIN before = F /\ \A p \in F : before[p] = {t \in F : Tops(t, p)}
  BY DEF Follows
<1>2. F \subseteq Nat \X Nat /\ IsFiniteSet(F) /\ \A p \in F : score[p] \in Int
  BY DEF ArePlaces
<1>3. \A p \in F : ~Tops(p, p)
  BY <1>2, EarlierIsOrder
<1>4. ASSUME NEW p \in F, NEW t \in F, NEW s \in F, Tops(p, t), Tops(t, s) PROVE Tops(p, s)
  <2>1. score[p] \in Int /\ score[t] \in Int /\ score[s] \in Int
    BY <1>2
  <2>2. Earlier(p, t) /\ Earlier(t, s) => Earlier(p, s)
    BY <1>2, EarlierIsOrder
  <2> QED
    BY <1>4, <2>1, <2>2
<1>5. ASSUME NEW p \in F, NEW t \in F PROVE p = t \/ Tops(p, t) \/ Tops(t, p)
  <2>1. score[p] \in Int /\ score[t] \in Int
    BY <1>2
  <2>2. p = t \/ Earlier(p, t) \/ Earlier(t, p)
    BY <1>2, EarlierIsOrder
  <2> QED
    BY <2>1, <2>2
<1> HIDE DEF before, Tops
<1>6. StrictOrder(before)
  BY <1>1, <1>2, <1>3, <1>4, <1>5 DEF StrictOrder
<1> QED
  BY <1>1, <1>6 DEF before

(* The k best of places, the best first.                                   *)
Leads(order, score, k) ==
  /\ order \in Seq(DOMAIN score) /\ Distinct(order) /\ Len(order) = Atop(k, Cardinality(DOMAIN score))
  /\ Cardinality(Elements(order)) = Len(order) /\ IsFiniteSet(Elements(order))
  /\ \A x \in Elements(order), y \in DOMAIN score \ Elements(order) :
       score[y] < score[x] \/ (score[y] = score[x] /\ ~Earlier(y, x))
  /\ \A i, j \in DOMAIN order : i < j => score[order[j]] <= score[order[i]]

LEMMA BestLead ==
  ASSUME NEW F, ArePlaces(F), NEW score \in [F -> Int], NEW k \in Nat
  PROVE  Leads(Cut(BestFirst(score), k), score, k)
<1> DEFINE before == Follows(score)
           order == Cut(InOrder(before), k)
<1>1. order = Cut(BestFirst(score), k)
  BY DEF Follows, BestFirst
<1>2. StrictOrder(before) /\ DOMAIN before = F
  BY FollowsIsStrict
<1>3. \A p \in F, t \in F : t \in before[p] <=> score[t] > score[p] \/ (score[t] = score[p] /\ Earlier(t, p))
  BY DEF Follows
<1> HIDE DEF before
<1>4. /\ order \in Seq(F) /\ Distinct(order)
      /\ \A p, r \in DOMAIN order : p < r => order[p] \in before[order[r]]
  BY <1>2, WindowShape
<1>5. /\ Elements(order) \subseteq F /\ IsFiniteSet(Elements(order)) /\ Len(order) = Atop(k, Cardinality(F))
      /\ Cardinality(Elements(order)) = Len(order) /\ \A h \in Elements(order) : before[h] \subseteq Elements(order)
  BY <1>2, FirstOnes
<1> HIDE DEF order
<1>6. ASSUME NEW x \in Elements(order), NEW y \in F \ Elements(order)
      PROVE  score[y] < score[x] \/ (score[y] = score[x] /\ ~Earlier(y, x))
  <2>1. y \notin before[x] /\ x \in F
    BY <1>5
  <2>2. score[y] \in Int /\ score[x] \in Int
    BY <2>1
  <2> QED
    BY <1>3, <2>1, <2>2
<1>7. ASSUME NEW i \in DOMAIN order, NEW j \in DOMAIN order, i < j PROVE score[order[j]] <= score[order[i]]
  <2>1. order[i] \in F /\ order[j] \in F /\ order[i] \in before[order[j]]
    BY <1>4, <1>7
  <2>2. score[order[i]] \in Int /\ score[order[j]] \in Int
    BY <2>1
  <2> QED
    BY <1>3, <2>1, <2>2
<1>8. DOMAIN score = F
  OBVIOUS
<1> QED
  BY <1>1, <1>4, <1>5, <1>6, <1>7, <1>8 DEF Leads

(* The greatest of finitely many integers.                                 *)
LEMMA GreatestOf ==
  ASSUME NEW S, IsFiniteSet(S), S # {}, S \subseteq Int
  PROVE  Max(S) \in S /\ \A y \in S : y <= Max(S)
<1> DEFINE before == [x \in S |-> {y \in S : y > x}]
           order == InOrder(before)
<1>1. DOMAIN before = S /\ \A x, y \in S : y \in before[x] <=> y > x
  OBVIOUS
<1>2. \A x \in S : before[x] \subseteq S
  OBVIOUS
<1> HIDE DEF before
<1>3. StrictOrder(before)
  <2>1. \A x \in S : x \in Int
    OBVIOUS
  <2>2. \A x, y, z \in S : z \in before[x] /\ x \in before[y] => z \in before[y]
    BY <1>1, <2>1
  <2>3. \A x \in S : x \notin before[x]
    BY <1>1, <2>1
  <2>4. ASSUME NEW x \in S, NEW y \in S PROVE x = y \/ x \in before[y] \/ y \in before[x]
    <3>1. x = y \/ x > y \/ y > x
      BY <2>1
    <3> QED
      BY <1>1, <3>1
  <2> QED
    BY <1>1, <1>2, <2>2, <2>3, <2>4 DEF StrictOrder
<1>4. Arranges(order, before)
  BY <1>3, InOrderArranges
<1> HIDE DEF order
<1>5. /\ order \in Seq(S) /\ \A x \in S : \E p \in DOMAIN order : order[p] = x
      /\ \A p, r \in DOMAIN order : p < r <=> order[p] \in before[order[r]]
  BY <1>1, <1>4 DEF Arranges
<1>6. DOMAIN order = 1..Len(order) /\ Len(order) \in Nat /\ \A p \in DOMAIN order : order[p] \in S
  BY <1>5
<1>7. 1 \in DOMAIN order
  <2>1. PICK x \in S : TRUE
    OBVIOUS
  <2>2. PICK p \in DOMAIN order : order[p] = x
    BY <1>5
  <2> QED
    BY <1>6, <2>2
<1>8. ASSUME NEW y \in S PROVE order[1] >= y
  <2>1. PICK p \in DOMAIN order : order[p] = y
    BY <1>5
  <2>2. ~(p < 1) /\ order[1] \in S
    BY <1>6, <1>7
  <2>3. y \notin before[order[1]]
    BY <1>5, <1>7, <2>1, <2>2
  <2>4. ~(y > order[1])
    BY <1>1, <2>2, <2>3
  <2>5. order[1] \in Int /\ y \in Int
    BY <2>2
  <2> QED
    BY <2>4, <2>5
<1>9. Max(S) \in S /\ \A y \in S : Max(S) >= y
  <2>1. order[1] \in S /\ \A y \in S : order[1] >= y
    BY <1>6, <1>7, <1>8
  <2> QED
    BY <2>1 DEF Max
<1>10. \A y \in S : y \in Int
  OBVIOUS
<1> QED
  BY <1>9, <1>10

-----------------------------------------------------------------------------
(* The seeds of an exploration: nodes in the chunks that were hit *)

LEMMA HitsShape ==
  ASSUME NEW hits \in HitLists
  PROVE  /\ Len(hits) \in Nat /\ DOMAIN hits = 1..Len(hits)
         /\ \A i \in DOMAIN hits : hits[i].score \in Int /\ hits[i].symbols \in Seq(Mentioned)
<1> DEFINE HitRecord == [score : Int, symbols : Seq(Mentioned)]
<1>1. hits \in Seq(HitRecord)
  BY HitsAssumption
<1>2. \A h \in HitRecord : h.score \in Int /\ h.symbols \in Seq(Mentioned)
  OBVIOUS
<1> HIDE DEF HitRecord
<1>3. Len(hits) \in Nat /\ DOMAIN hits = 1..Len(hits) /\ \A i \in DOMAIN hits : hits[i] \in HitRecord
  BY <1>1
<1> QED
  BY <1>2, <1>3

LEMMA MentionedShape ==
  ASSUME NEW hits \in HitLists
  PROVE  LET node == NodesMentioned(hits) IN
         /\ ArePlaces(DOMAIN node)
         /\ \A p \in DOMAIN node : /\ p[1] \in DOMAIN hits /\ p[2] \in DOMAIN hits[p[1]].symbols
                                   /\ node[p] = ResolveNode(hits[p[1]].symbols[p[2]])
         /\ \A i \in DOMAIN hits : \A j \in DOMAIN hits[i].symbols : <<i, j>> \in DOMAIN node
<1> DEFINE table == [i \in DOMAIN hits |-> hits[i].symbols]
           node == NodesMentioned(hits)
<1>1. DOMAIN table = DOMAIN hits /\ \A i \in DOMAIN hits : table[i] = hits[i].symbols
  OBVIOUS
<1>2. DOMAIN node = Places(table) /\ \A p \in Places(table) : node[p] = ResolveNode(hits[p[1]].symbols[p[2]])
  BY DEF NodesMentioned
<1>3. /\ Len(hits) \in Nat /\ DOMAIN hits = 1..Len(hits)
      /\ \A i \in DOMAIN hits : Len(hits[i].symbols) \in Nat /\ DOMAIN hits[i].symbols = 1..Len(hits[i].symbols)
  BY HitsShape
<1> HIDE DEF table
<1>4. ArePlaces(Places(table))
  BY <1>1, <1>3, PlacesShape
<1>5. ASSUME NEW p \in Places(table) PROVE p[1] \in DOMAIN hits /\ p[2] \in DOMAIN hits[p[1]].symbols
  <2>1. PICK i \in DOMAIN table : p \in {i} \X DOMAIN table[i]
    BY DEF Places
  <2> QED
    BY <1>1, <2>1
<1>6. ASSUME NEW i \in DOMAIN hits, NEW j \in DOMAIN hits[i].symbols PROVE <<i, j>> \in Places(table)
  <2>1. <<i, j>> \in {i} \X DOMAIN table[i]
    BY <1>1
  <2> QED
    BY <1>1, <2>1 DEF Places
<1> HIDE DEF node
<1> QED
  BY <1>2, <1>4, <1>5, <1>6 DEF node

LEMMA NodesMetShape ==
  ASSUME NEW hits \in HitLists
  PROVE  LET node == NodesMentioned(hits) IN
         /\ \A n : n \in NodesMet(hits) <=> \E p \in DOMAIN node : node[p] = n
         /\ \A p \in DOMAIN node : ScoresMet(hits, node[p]) = {hits[t[1]].score : t \in Mentions(node, node[p])}
<1> DEFINE node == NodesMentioned(hits)
<1>1. /\ ArePlaces(DOMAIN node)
      /\ \A p \in DOMAIN node : /\ p[1] \in DOMAIN hits /\ p[2] \in DOMAIN hits[p[1]].symbols
                                /\ node[p] = ResolveNode(hits[p[1]].symbols[p[2]])
      /\ \A i \in DOMAIN hits : \A j \in DOMAIN hits[i].symbols : <<i, j>> \in DOMAIN node
  BY MentionedShape
<1> HIDE DEF node
<1>2. \A i, j : <<i, j>>[1] = i /\ <<i, j>>[2] = j
  OBVIOUS
<1>3. ASSUME NEW n, NEW p \in DOMAIN node, node[p] = n PROVE n \in NodesMet(hits)
  <2> DEFINE s == hits[p[1]].symbols[p[2]]
  <2>1. s \in Elements(hits[p[1]].symbols) /\ p[1] \in DOMAIN hits /\ n = ResolveNode(s)
    BY <1>1, <1>3 DEF Elements
  <2> HIDE DEF s
  <2> QED
    BY <2>1 DEF NodesMet
<1>4. ASSUME NEW n \in NodesMet(hits) PROVE \E p \in DOMAIN node : node[p] = n
  <2>1. PICK i \in DOMAIN hits : \E s \in Elements(hits[i].symbols) : n = ResolveNode(s)
    BY DEF NodesMet
  <2>2. PICK j \in DOMAIN hits[i].symbols : n = ResolveNode(hits[i].symbols[j])
    BY <2>1 DEF Elements
  <2>3. <<i, j>> \in DOMAIN node
    BY <1>1, <2>2
  <2>4. node[<<i, j>>] = n
    BY <1>1, <1>2, <2>2, <2>3
  <2> QED
    BY <2>3, <2>4
<1>5. ASSUME NEW p \in DOMAIN node
      PROVE  ScoresMet(hits, node[p]) = {hits[t[1]].score : t \in Mentions(node, node[p])}
  <2> DEFINE n == node[p]
             scores == {hits[t[1]].score : t \in Mentions(node, n)}
             mentioning == {k \in DOMAIN hits : \E s \in Elements(hits[k].symbols) : ResolveNode(s) = n}
  <2>1. ScoresMet(hits, n) = {hits[i].score : i \in mentioning}
    BY DEF ScoresMet
  <2>2. ASSUME NEW i \in mentioning PROVE hits[i].score \in scores
    <3>1. PICK j \in DOMAIN hits[i].symbols : ResolveNode(hits[i].symbols[j]) = n
      BY DEF Elements
    <3>2. <<i, j>> \in DOMAIN node /\ node[<<i, j>>] = n
      BY <1>1, <1>2, <3>1
    <3>3. <<i, j>> \in Mentions(node, n)
      BY <3>2 DEF Mentions
    <3> QED
      BY <1>2, <3>3
  <2>3. ASSUME NEW t \in Mentions(node, n) PROVE t[1] \in mentioning
    <3>1. t \in DOMAIN node /\ node[t] = n
      BY DEF Mentions
    <3>2. hits[t[1]].symbols[t[2]] \in Elements(hits[t[1]].symbols)
      BY <1>1, <3>1 DEF Elements
    <3> QED
      BY <1>1, <3>1, <3>2
  <2> HIDE DEF mentioning
  <2> QED
    BY <2>1, <2>2, <2>3
<1> QED
  BY <1>3, <1>4, <1>5 DEF node

LEMMA NearestIs ==
  ASSUME NEW hits \in HitLists, NEW p \in DOMAIN NodesMentioned(hits)
  PROVE  LET node == NodesMentioned(hits) IN
         /\ Nearest(hits, node[p]) = BestScore(hits, Mentions(node, node[p]))
         /\ Nearest(hits, node[p]) \in Int
<1> DEFINE node == NodesMentioned(hits)
           M == Mentions(node, node[p])
           scores == {hits[t[1]].score : t \in M}
<1>1. ArePlaces(DOMAIN node) /\ \A t \in DOMAIN node : t[1] \in DOMAIN hits
  BY MentionedShape
<1>2. ScoresMet(hits, node[p]) = scores
  BY NodesMetShape
<1>3. M \subseteq DOMAIN node /\ p \in M /\ IsFiniteSet(M)
  <2>1. M \subseteq DOMAIN node /\ p \in M
    BY DEF Mentions
  <2> HIDE DEF node, M
  <2> QED
    BY <1>1, <2>1, FS_Subset DEF ArePlaces
<1> HIDE DEF node, M
<1>4. IsFiniteSet(scores)
  <2> DEFINE f == [t \in M |-> hits[t[1]].score]
  <2>1. f \in Surjection(M, scores)
    BY DEF Surjection
  <2> HIDE DEF f, scores
  <2> QED
    BY <1>3, <2>1, FS_Surjection
<1>5. scores # {} /\ scores \subseteq Int
  BY <1>1, <1>3, HitsShape
<1> HIDE DEF scores
<1>6. Max(scores) \in scores /\ \A y \in scores : y <= Max(scores)
  BY <1>4, <1>5, GreatestOf
<1>7. ASSUME NEW x \in scores, \A y \in scores : y <= x PROVE x = Max(scores)
  <2>1. x <= Max(scores) /\ Max(scores) <= x /\ x \in Int /\ Max(scores) \in Int
    BY <1>5, <1>6, <1>7
  <2> QED
    BY <2>1
<1>8. Nearest(hits, node[p]) = Max(scores)
  <2>1. (CHOOSE x \in scores : \A y \in scores : y <= x) = Max(scores)
    BY <1>6, <1>7
  <2> QED
    BY <1>2, <2>1 DEF Nearest
<1>9. BestScore(hits, M) = Max(scores)
  BY DEF BestScore, scores
<1> QED
  BY <1>5, <1>6, <1>8, <1>9 DEF node, M

(* The m nearest nodes, the nearest first.                                 *)
AreNearest(list, m, hits, top) ==
  /\ DOMAIN list = 1..m /\ m <= top
  /\ \A i \in 1..m : /\ list[i].node \in NodesMet(hits)
                     /\ list[i].score = Nearest(hits, list[i].node) /\ list[i].score \in Int
  /\ \A i, j \in 1..m : list[i].node = list[j].node => i = j
  /\ \A i, j \in 1..m : i < j => list[j].score <= list[i].score
  /\ \A n \in NodesMet(hits) : (\A i \in 1..m : list[i].node # n) =>
       m = top /\ Nearest(hits, n) \in Int /\ \A i \in 1..m : Nearest(hits, n) <= list[i].score

LEMMA SemanticShape ==
  ASSUME NEW hits \in HitLists, NEW top \in Nat
  PROVE  \E m \in Nat : AreNearest(SemanticSeeds(hits, top), m, hits, top)
<1> DEFINE node == NodesMentioned(hits)
           F == Firsts(node)
           score == [p \in F |-> BestScore(hits, Mentions(node, node[p]))]
           order == Cut(BestFirst(score), top)
           list == SemanticSeeds(hits, top)
           m == Len(order)
<1>1. ArePlaces(DOMAIN node)
  BY MentionedShape
<1>2. /\ ArePlaces(F) /\ F \subseteq DOMAIN node
      /\ \A p \in DOMAIN node : \E f \in F : node[f] = node[p]
      /\ \A f, g \in F : node[f] = node[g] => f = g
  <2> HIDE DEF node
  <2> QED
    BY <1>1, FirstsShape
<1>3. \A p \in F : score[p] = Nearest(hits, node[p]) /\ score[p] \in Int
  <2> SUFFICES ASSUME NEW p \in F PROVE score[p] = Nearest(hits, node[p]) /\ score[p] \in Int
    OBVIOUS
  <2>1. p \in DOMAIN node
    BY <1>2
  <2>2. Nearest(hits, node[p]) = BestScore(hits, Mentions(node, node[p])) /\ Nearest(hits, node[p]) \in Int
    BY <2>1, NearestIs
  <2>3. score[p] = BestScore(hits, Mentions(node, node[p]))
    OBVIOUS
  <2> QED
    BY <2>2, <2>3
<1>4. \A n : n \in NodesMet(hits) <=> \E p \in DOMAIN node : node[p] = n
  BY NodesMetShape
<1>5. /\ list = [k \in DOMAIN order |-> [node |-> node[order[k]], score |-> score[order[k]], communities |-> {}]]
      /\ DOMAIN score = F
  BY DEF SemanticSeeds
<1>6. score \in [F -> Int]
  <2>1. score = [p \in F |-> score[p]]
    OBVIOUS
  <2> HIDE DEF score
  <2> QED
    BY <1>3, <2>1
<1> HIDE DEF node, F, score, list
<1>7. Leads(order, score, top)
  BY <1>2, <1>6, BestLead
<1> HIDE DEF order
<1>8. /\ order \in Seq(F) /\ Distinct(order) /\ m = Atop(top, Cardinality(F)) /\ Elements(order) \subseteq F
      /\ Cardinality(Elements(order)) = m
      /\ \A x \in Elements(order), y \in F \ Elements(order) : score[y] < score[x] \/ score[y] = score[x]
      /\ \A i, j \in DOMAIN order : i < j => score[order[j]] <= score[order[i]]
  BY <1>5, <1>7 DEF Leads, Elements
<1>9. m \in Nat /\ DOMAIN order = 1..m /\ \A i \in 1..m : order[i] \in F /\ order[i] \in Elements(order)
  BY <1>8 DEF Elements
<1> HIDE DEF m
<1>10. DOMAIN list = 1..m /\ \A i \in 1..m : list[i].node = node[order[i]] /\ list[i].score = score[order[i]]
  BY <1>5, <1>9
<1>11. \A i \in 1..m : /\ list[i].node \in NodesMet(hits)
                       /\ list[i].score = Nearest(hits, list[i].node) /\ list[i].score \in Int
  BY <1>2, <1>3, <1>4, <1>9, <1>10
<1>12. ASSUME NEW i \in 1..m, NEW j \in 1..m, list[i].node = list[j].node PROVE i = j
  <2>1. order[i] = order[j]
    BY <1>2, <1>9, <1>10, <1>12
  <2> QED
    BY <1>8, <1>9, <2>1 DEF Distinct
<1>13. \A i, j \in 1..m : i < j => list[j].score <= list[i].score
  BY <1>8, <1>9, <1>10
<1>14. IsFiniteSet(F) /\ Cardinality(F) \in Nat
  BY <1>2, FS_CardinalityType DEF ArePlaces
<1>15. m <= top
  BY <1>8, <1>14 DEF Atop
<1>16. ASSUME NEW n \in NodesMet(hits), \A i \in 1..m : list[i].node # n
       PROVE  m = top /\ Nearest(hits, n) \in Int /\ \A i \in 1..m : Nearest(hits, n) <= list[i].score
  <2>1. PICK f \in F : node[f] = n
    BY <1>2, <1>4
  <2>2. f \notin Elements(order)
    <3> SUFFICES ASSUME f \in Elements(order) PROVE FALSE
      OBVIOUS
    <3>1. PICK i \in 1..m : order[i] = f
      BY <1>9 DEF Elements
    <3> QED
      BY <1>10, <1>16, <2>1, <3>1
  <2>3. Nearest(hits, n) = score[f] /\ score[f] \in Int
    BY <1>3, <2>1
  <2>4. \A i \in 1..m : score[f] <= list[i].score
    <3> SUFFICES ASSUME NEW i \in 1..m PROVE score[f] <= list[i].score
      OBVIOUS
    <3>1. score[order[i]] \in Int /\ order[i] \in Elements(order)
      BY <1>3, <1>9
    <3>2. score[f] < score[order[i]] \/ score[f] = score[order[i]]
      BY <1>8, <2>2, <3>1
    <3> QED
      BY <1>10, <2>3, <3>1, <3>2
  <2>5. m = top
    <3>1. Cardinality(F) # m
      <4> SUFFICES ASSUME Cardinality(F) = m PROVE FALSE
        OBVIOUS
      <4>1. Elements(order) = F
        BY <1>8, <1>14, FS_Subset
      <4> QED
        BY <2>2, <4>1
    <3> QED
      BY <1>8, <1>14, <3>1 DEF Atop
  <2> QED
    BY <2>3, <2>4, <2>5
<1>17. AreNearest(list, m, hits, top)
  BY <1>10, <1>11, <1>12, <1>13, <1>15, <1>16 DEF AreNearest
<1> QED
  BY <1>9, <1>17 DEF list

-----------------------------------------------------------------------------
(* The seeds of an exploration: one list fused *)

LEMMA TotalOfOne ==
  ASSUME NEW worth, NEW p, worth[p] \in Int
  PROVE  Total(worth, {p}) = worth[p]
<1> DEFINE pick(S) == CHOOSE x \in S : TRUE
           body(g) == [S \in SUBSET {p} |-> IF S = {} THEN 0 ELSE worth[pick(S)] + g[S \ {pick(S)}]]
           sum == CHOOSE g : g = body(g)
           h == [S \in SUBSET {p} |-> IF S = {} THEN 0 ELSE worth[p]]
<1>1. h = body(h)
  <2>1. \A S \in SUBSET {p} : S # {} => pick(S) = p /\ S \ {pick(S)} = {}
    OBVIOUS
  <2>2. h[{}] = 0
    OBVIOUS
  <2>3. \A S \in SUBSET {p} : h[S] = IF S = {} THEN 0 ELSE worth[pick(S)] + h[S \ {pick(S)}]
    <3> HIDE DEF pick
    <3> QED
      BY <2>1, <2>2
  <2> HIDE DEF pick
  <2> QED
    BY <2>3
<1>2. sum = body(sum)
  <2> HIDE DEF body
  <2> QED
    BY <1>1
<1>3. pick({p}) = p
  OBVIOUS
<1>4. {p} \ {p} = {} /\ {} \in SUBSET {p} /\ {p} \in SUBSET {p} /\ {p} # {}
  OBVIOUS
<1>5. sum[{}] = 0
  <2> HIDE DEF sum
  <2> QED
    BY <1>2, <1>4
<1>6. sum[{p}] = worth[p] + sum[{}]
  <2> HIDE DEF sum, pick
  <2>1. sum[{p}] = IF {p} = {} THEN 0 ELSE worth[pick({p})] + sum[{p} \ {pick({p})}]
    BY <1>2, <1>4
  <2> QED
    BY <1>3, <1>4, <2>1
<1>7. Total(worth, {p}) = sum[{p}]
  BY DEF Total, MapThenSumSet, MapThenFoldSet
<1> QED
  BY <1>5, <1>6, <1>7

(* What the fusions make of the row at a rank of the third list.           *)
Weighted(list, i, fusion) == IF fusion = "rrf" THEN Reciprocal(i) ELSE 25 * list[i].score

LEMMA ReciprocalFalls ==
  ASSUME NEW i \in Nat, NEW j \in Nat, i <= j
  PROVE  /\ Reciprocal(i) \in Int /\ Reciprocal(i) >= 0
         /\ Reciprocal(j) \in Int /\ Reciprocal(j) <= Reciprocal(i)
BY DEF Reciprocal

(* Lists of modules and functions without rows.                            *)
OneList(sources, list, m) ==
  /\ DOMAIN sources = 1..3 /\ DOMAIN sources[1] = {} /\ DOMAIN sources[2] = {}
  /\ sources[3] = list /\ DOMAIN list = 1..m
  /\ \A i \in 1..m : list[i].score \in Int
  /\ \A i, j \in 1..m : list[i].node = list[j].node => i = j

FusedAlone(sources, list, m, fusion) ==
  /\ DOMAIN SeedScores(sources, fusion) = {3} \X (1..m) /\ ArePlaces({3} \X (1..m))
  /\ \A i \in 1..m : /\ SeedScores(sources, fusion)[<<3, i>>] = Weighted(list, i, fusion)
                     /\ NodesListed(sources)[<<3, i>>] = list[i].node
                     /\ Weighted(list, i, fusion) \in Int

LEMMA OneListFused ==
  ASSUME NEW sources, NEW list, NEW m \in Nat, OneList(sources, list, m), NEW fusion
  PROVE  FusedAlone(sources, list, m, fusion)
<1> DEFINE F == {3} \X (1..m)
           node == NodesListed(sources)
           worth == [p \in DOMAIN node |-> Worth(sources, p, fusion)]
<1>1. Places(sources) = F
  <2>1. ASSUME NEW p \in Places(sources) PROVE p \in F
    <3>1. PICK i \in 1..3 : p \in {i} \X DOMAIN sources[i]
      BY DEF Places, OneList
    <3>2. i = 3
      BY <3>1 DEF OneList
    <3> QED
      BY <3>1, <3>2 DEF OneList
  <2>2. ASSUME NEW p \in F PROVE p \in Places(sources)
    <3>1. 3 \in DOMAIN sources /\ p \in {3} \X DOMAIN sources[3]
      BY DEF OneList
    <3> QED
      BY <3>1 DEF Places
  <2> QED
    BY <2>1, <2>2
<1>2. DOMAIN node = F /\ \A p \in F : node[p] = sources[p[1]][p[2]].node
  BY <1>1 DEF NodesListed
<1>3. ArePlaces(F)
  <2>1. IsFiniteSet(1..m)
    <3>1. 1 \in Int /\ m \in Int
      OBVIOUS
    <3> QED
      BY <3>1, FS_Interval, Zenon
  <2>2. IsFiniteSet({3})
    BY FS_Singleton
  <2>3. IsFiniteSet(F)
    BY <2>1, <2>2, FS_Product
  <2>4. F \subseteq Nat \X Nat
    OBVIOUS
  <2> QED
    BY <2>3, <2>4 DEF ArePlaces
<1>4. \A i \in 1..m : <<3, i>> \in F /\ <<3, i>>[1] = 3 /\ <<3, i>>[2] = i
  OBVIOUS
<1>5. \A p \in F : \E i \in 1..m : p = <<3, i>>
  OBVIOUS
<1>6. \A i \in 1..m : node[<<3, i>>] = list[i].node
  BY <1>2, <1>4 DEF OneList
<1>7. \A p, t \in F : node[p] = node[t] => p = t
  BY <1>5, <1>6 DEF OneList
<1>8. \A p \in F : Mentions(node, node[p]) = {p}
  BY <1>2, <1>7 DEF Mentions
<1>9. Firsts(node) = F
  <2>1. \A p \in F : ~Earlier(p, p)
    BY <1>3, EarlierIsOrder DEF ArePlaces
  <2> QED
    BY <1>2, <1>8, <2>1 DEF Firsts
<1>10. ASSUME NEW i \in 1..m
       PROVE  worth[<<3, i>>] = Weighted(list, i, fusion) /\ Weighted(list, i, fusion) \in Int
  <2>1. worth[<<3, i>>] = Worth(sources, <<3, i>>, fusion)
    BY <1>2, <1>4
  <2>2. list[i].score \in Int /\ sources[3] = list
    BY DEF OneList
  <2>3. Weights[3] = 25
    BY DEF Weights
  <2>4. Worth(sources, <<3, i>>, fusion) = Weighted(list, i, fusion)
    BY <1>4, <2>2, <2>3 DEF Worth, Weighted
  <2>5. Weighted(list, i, fusion) \in Int
    <3>1. i \in Nat /\ i <= i
      OBVIOUS
    <3>2. Reciprocal(i) \in Int
      BY <3>1, ReciprocalFalls
    <3>3. 25 * list[i].score \in Int
      BY <2>2
    <3> QED
      BY <3>2, <3>3 DEF Weighted
  <2> QED
    BY <2>1, <2>4, <2>5
<1>11. SeedScores(sources, fusion) = [p \in F |-> Total(worth, Mentions(node, node[p]))]
  BY <1>9 DEF SeedScores
<1> HIDE DEF worth, node, F
<1>12. \A i \in 1..m : SeedScores(sources, fusion)[<<3, i>>] = Weighted(list, i, fusion)
  <2> SUFFICES ASSUME NEW i \in 1..m PROVE SeedScores(sources, fusion)[<<3, i>>] = Weighted(list, i, fusion)
    OBVIOUS
  <2>1. SeedScores(sources, fusion)[<<3, i>>] = Total(worth, {<<3, i>>})
    BY <1>4, <1>8, <1>11
  <2>2. worth[<<3, i>>] \in Int
    BY <1>10
  <2>3. Total(worth, {<<3, i>>}) = worth[<<3, i>>]
    BY <2>2, TotalOfOne
  <2> QED
    BY <1>10, <2>1, <2>3
<1> QED
  BY <1>3, <1>6, <1>10, <1>11, <1>12 DEF FusedAlone, F, node

(* The rows of the list whose nodes become seeds.                          *)
AreChosen(C, list, m, r) ==
  /\ C \subseteq 1..m /\ IsFiniteSet(C) /\ Cardinality(C) <= SeedLimit(r)
  /\ \A i \in C : Weighted(list, i, r.fusion) >= r.floor
  /\ \A i \in C, j \in (1..m) \ C : Weighted(list, j, r.fusion) >= r.floor =>
       \/ Weighted(list, j, r.fusion) < Weighted(list, i, r.fusion)
       \/ Weighted(list, j, r.fusion) = Weighted(list, i, r.fusion) /\ i < j
  /\ Cardinality(C) < SeedLimit(r) => \A j \in (1..m) \ C : Weighted(list, j, r.fusion) < r.floor

NodesAt(list, C) == {list[i].node : i \in C}

ChosenFrom(S, list, m, r) == \E C : AreChosen(C, list, m, r) /\ S = NodesAt(list, C)
SeedNodes(seeds) == NodesAt(seeds, DOMAIN seeds)

LEMMA SeedLimitIsNumber ==
  ASSUME NEW r \in Explorations
  PROVE  SeedLimit(r) \in Nat
<1>1. r.modules \in Nat /\ r.functions \in Nat
  BY ExplorationsAssumption
<1> QED
  BY <1>1 DEF SeedLimit

LEMMA ChosenShape ==
  ASSUME NEW sources, NEW list, NEW m \in Nat, OneList(sources, list, m), NEW r \in Explorations
  PROVE  ChosenFrom(SeedNodes(Seeds(sources, r)), list, m, r)
<1> DEFINE F == {3} \X (1..m)
           score == SeedScores(sources, r.fusion)
           node == NodesListed(sources)
           high == Enough(score, r.floor)
           worthy == [p \in high |-> score[p]]
           n == SeedLimit(r)
           order == Cut(BestFirst(worthy), n)
           seeds == Seeds(sources, r)
           C == {i \in 1..m : <<3, i>> \in Elements(order)}
           W(i) == Weighted(list, i, r.fusion)
<1>1. /\ DOMAIN score = F /\ ArePlaces(F)
      /\ \A i \in 1..m : score[<<3, i>>] = W(i) /\ node[<<3, i>>] = list[i].node
      /\ \A i \in 1..m : W(i) \in Int
  <2>1. FusedAlone(sources, list, m, r.fusion)
    BY OneListFused
  <2> QED
    BY <2>1 DEF FusedAlone
<1>2. n \in Nat /\ r.floor \in Int
  BY SeedLimitIsNumber, ExplorationsAssumption
<1>3. \A i, j : <<3, i>> = <<3, j>> => i = j
  OBVIOUS
<1>4. \A i \in 1..m : <<3, i>> \in F /\ <<3, i>>[2] = i
  OBVIOUS
<1>5. \A p \in F : \E i \in 1..m : p = <<3, i>>
  OBVIOUS
<1>6. /\ order = SelectedSeeds(score, r)
      /\ DOMAIN seeds = DOMAIN order /\ \A k \in DOMAIN order : seeds[k].node = node[order[k]]
  BY DEF Seeds, SelectedSeeds
<1> HIDE DEF F, score, node, n, seeds, W
<1>7. high \subseteq F /\ ArePlaces(high) /\ \A i \in 1..m : <<3, i>> \in high <=> W(i) >= r.floor
  <2>1. high = {p \in F : score[p] >= r.floor}
    BY <1>1 DEF Enough
  <2> HIDE DEF high
  <2>2. high \subseteq F /\ \A i \in 1..m : <<3, i>> \in high <=> W(i) >= r.floor
    BY <1>1, <1>4, <2>1
  <2>3. ArePlaces(high)
    BY <1>1, <2>2, FS_Subset DEF ArePlaces
  <2> QED
    BY <2>2, <2>3
<1>8. DOMAIN worthy = high /\ \A p \in high : worthy[p] = score[p]
  OBVIOUS
<1>9. worthy \in [high -> Int]
  <2>1. \A p \in high : score[p] \in Int
    BY <1>1, <1>5, <1>7
  <2> HIDE DEF high
  <2> QED
    BY <2>1
<1> HIDE DEF high, worthy
<1>10. Leads(order, worthy, n)
  BY <1>2, <1>7, <1>9, BestLead
<1> HIDE DEF order
<1> DEFINE E == Elements(order)
<1>11. /\ order \in Seq(high) /\ Distinct(order) /\ Len(order) = Atop(n, Cardinality(high))
       /\ Cardinality(E) = Len(order) /\ IsFiniteSet(E)
       /\ \A x \in E, y \in high \ E : worthy[y] < worthy[x] \/ (worthy[y] = worthy[x] /\ ~Earlier(y, x))
  BY <1>8, <1>10 DEF Leads
<1>12. E \subseteq high /\ \A k \in DOMAIN order : order[k] \in E
  BY <1>11 DEF Elements
<1>13. Cardinality(high) \in Nat /\ IsFiniteSet(high)
  BY <1>7, FS_CardinalityType DEF ArePlaces
<1>14. {seeds[k].node : k \in DOMAIN seeds} = {list[i].node : i \in C}
  <2>1. ASSUME NEW k \in DOMAIN seeds PROVE \E i \in C : seeds[k].node = list[i].node
    <3>1. order[k] \in E /\ order[k] \in F /\ seeds[k].node = node[order[k]]
      BY <1>6, <1>7, <1>12
    <3>2. PICK i \in 1..m : order[k] = <<3, i>>
      BY <1>5, <3>1
    <3> QED
      BY <1>1, <3>1, <3>2
  <2>2. ASSUME NEW i \in C PROVE \E k \in DOMAIN seeds : seeds[k].node = list[i].node
    <3>1. PICK k \in DOMAIN order : order[k] = <<3, i>>
      BY DEF Elements
    <3> QED
      BY <1>1, <1>6, <3>1
  <2> HIDE DEF C, E
  <2> QED
    BY <2>1, <2>2
<1>15. C \subseteq 1..m /\ \A i \in 1..m : i \in C <=> <<3, i>> \in E
  OBVIOUS
<1>16. \A p \in E : \E i \in C : p = <<3, i>>
  BY <1>5, <1>7, <1>12
<1> HIDE DEF C, E
<1>17. IsFiniteSet(C) /\ Cardinality(C) = Len(order)
  <2> DEFINE f == [i \in C |-> <<3, i>>]
  <2>1. f \in [C -> E] /\ \A i \in C : f[i] = <<3, i>>
    BY <1>15
  <2>2. IsFiniteSet(C)
    <3>1. IsFiniteSet(1..m)
      <4>1. 1 \in Int /\ m \in Int
        OBVIOUS
      <4> QED
        BY <4>1, FS_Interval, Zenon
    <3> QED
      BY <1>15, <3>1, FS_Subset
  <2> HIDE DEF f
  <2>3. f \in Surjection(C, E)
    BY <1>16, <2>1 DEF Surjection
  <2>4. f \in Injection(C, E)
    <3>1. \A i, j \in C : f[i] = f[j] => i = j
      BY <1>3, <2>1
    <3> QED
      BY <2>1, <3>1 DEF Injection, IsInjective
  <2>5. Cardinality(E) = Cardinality(C)
    BY <2>2, <2>3, <2>4, FS_Surjection
  <2> QED
    BY <1>11, <2>2, <2>5
<1>18. Cardinality(C) <= n
  BY <1>2, <1>11, <1>13, <1>17 DEF Atop
<1>19. \A i \in C : W(i) >= r.floor
  BY <1>7, <1>12, <1>15
<1>20. ASSUME NEW i \in C, NEW j \in (1..m) \ C, W(j) >= r.floor
       PROVE  W(j) < W(i) \/ (W(j) = W(i) /\ i < j)
  <2>1. <<3, j>> \in high \ E /\ <<3, i>> \in E /\ <<3, i>> \in high
    BY <1>7, <1>12, <1>15, <1>20
  <2>2. worthy[<<3, j>>] = W(j) /\ worthy[<<3, i>>] = W(i) /\ W(i) \in Int /\ W(j) \in Int /\ i \in 1..m /\ j \in 1..m
    BY <1>1, <1>8, <1>15, <2>1
  <2>3. W(j) < W(i) \/ (W(j) = W(i) /\ ~Earlier(<<3, j>>, <<3, i>>))
    BY <1>11, <2>1, <2>2
  <2>4. ~Earlier(<<3, j>>, <<3, i>>) => i <= j
    BY <2>2 DEF Earlier
  <2>5. i # j
    BY <1>20
  <2> QED
    BY <2>2, <2>3, <2>4, <2>5
<1>21. ASSUME Cardinality(C) < n, NEW j \in (1..m) \ C PROVE W(j) < r.floor
  <2>1. Cardinality(E) = Cardinality(high)
    BY <1>2, <1>11, <1>13, <1>17, <1>21 DEF Atop
  <2>2. E = high
    BY <1>12, <1>13, <2>1, FS_Subset
  <2>3. ~(W(j) >= r.floor)
    BY <1>7, <1>15, <2>2
  <2>4. j \in 1..m /\ W(j) \in Int
    BY <1>1
  <2> QED
    BY <1>2, <2>3, <2>4
<1>22. AreChosen(C, list, m, r)
  BY <1>15, <1>17, <1>18, <1>19, <1>20, <1>21 DEF AreChosen, W, n
<1> QED
  BY <1>14, <1>22 DEF ChosenFrom, SeedNodes, seeds, NodesAt

(* Both fusions keep the order of a single list.                           *)
LEMMA WeightedFalls ==
  ASSUME NEW list, NEW m \in Nat, NEW fusion, NEW i \in 1..m, NEW j \in 1..m, i < j,
         list[i].score \in Int, list[j].score \in Int, list[j].score <= list[i].score
  PROVE  Weighted(list, j, fusion) <= Weighted(list, i, fusion)
<1>1. i \in Nat /\ j \in Nat /\ i <= j
  OBVIOUS
<1>2. Reciprocal(j) <= Reciprocal(i)
  BY <1>1, ReciprocalFalls
<1>3. 25 * list[j].score <= 25 * list[i].score
  OBVIOUS
<1> QED
  BY <1>2, <1>3 DEF Weighted

(* What SeedsAreNearest says of an answer.                                 *)
NearestFirst(seeds, r, hits) ==
  /\ seeds \subseteq NodesMet(hits)
  /\ \A a \in seeds, b \in NodesMet(hits) \ seeds : Nearest(hits, b) <= Nearest(hits, a)
  /\ Cardinality(seeds) <= r.semantics /\ Cardinality(seeds) <= SeedLimit(r)
  /\ Cardinality(seeds) < r.semantics /\ Cardinality(seeds) < SeedLimit(r) =>
       \A n \in NodesMet(hits) \ seeds : IF r.fusion = "rrf" THEN r.floor > 0 ELSE 25 * Nearest(hits, n) < r.floor

LEMMA ChosenAreNearest ==
  ASSUME NEW hits \in HitLists, NEW r \in Explorations, NEW list, NEW m \in Nat,
         AreNearest(list, m, hits, r.semantics), NEW C, AreChosen(C, list, m, r)
  PROVE  NearestFirst(NodesAt(list, C), r, hits)
<1> DEFINE seeds == {list[i].node : i \in C}
           W(i) == Weighted(list, i, r.fusion)
           met == NodesMet(hits)
<1>1. r.floor \in Int /\ r.semantics \in Nat /\ SeedLimit(r) \in Nat
  BY SeedLimitIsNumber, ExplorationsAssumption
<1>2. C \subseteq 1..m /\ IsFiniteSet(C) /\ Cardinality(C) <= SeedLimit(r)
  BY DEF AreChosen
<1>3. \A i \in 1..m : list[i].node \in met /\ list[i].score = Nearest(hits, list[i].node) /\ list[i].score \in Int
  BY DEF AreNearest
<1>4. \A i, j \in 1..m : list[i].node = list[j].node => i = j
  BY DEF AreNearest
<1>5. \A i, j \in 1..m : i < j => list[j].score <= list[i].score
  BY DEF AreNearest
<1>6. \A n \in met : (\A i \in 1..m : list[i].node # n) =>
        m = r.semantics /\ Nearest(hits, n) \in Int /\ \A i \in 1..m : Nearest(hits, n) <= list[i].score
  BY DEF AreNearest
<1>7. \A i \in 1..m : W(i) \in Int /\ (r.fusion = "rrf" => W(i) >= 0) /\ (r.fusion # "rrf" => W(i) = 25 * list[i].score)
  <2> SUFFICES ASSUME NEW i \in 1..m
               PROVE  W(i) \in Int /\ (r.fusion = "rrf" => W(i) >= 0) /\ (r.fusion # "rrf" => W(i) = 25 * list[i].score)
    OBVIOUS
  <2>1. i \in Nat /\ i <= i
    OBVIOUS
  <2>2. Reciprocal(i) \in Int /\ Reciprocal(i) >= 0
    BY <2>1, ReciprocalFalls
  <2>3. 25 * list[i].score \in Int
    BY <1>3
  <2> QED
    BY <2>2, <2>3 DEF Weighted
<1>8. \A i, j \in 1..m : i < j => W(j) <= W(i)
  BY <1>3, <1>5, WeightedFalls
<1>9. /\ \A i \in C : W(i) >= r.floor
      /\ \A i \in C, j \in (1..m) \ C : W(j) >= r.floor => W(j) < W(i) \/ (W(j) = W(i) /\ i < j)
      /\ Cardinality(C) < SeedLimit(r) => \A j \in (1..m) \ C : W(j) < r.floor
  BY DEF AreChosen
<1> HIDE DEF W, met
<1>10. seeds \subseteq met
  BY <1>2, <1>3
<1>11. Cardinality(seeds) = Cardinality(C) /\ Cardinality(C) \in Nat
  <2> DEFINE f == [i \in C |-> list[i].node]
  <2>1. f \in Surjection(C, seeds)
    BY DEF Surjection
  <2>2. f \in [C -> seeds] /\ \A i \in C : f[i] = list[i].node
    OBVIOUS
  <2> HIDE DEF f, seeds
  <2>3. f \in Injection(C, seeds)
    <3>1. \A i, j \in C : f[i] = f[j] => i = j
      BY <1>2, <1>4, <2>2
    <3> QED
      BY <2>2, <3>1 DEF Injection, IsInjective
  <2> QED
    BY <1>2, <2>1, <2>3, FS_Surjection, FS_CardinalityType
<1>12. Cardinality(C) <= m
  <2>1. IsFiniteSet(1..m) /\ Cardinality(1..m) = IF 1 > m THEN 0 ELSE m - 1 + 1
    <3>1. 1 \in Int /\ m \in Int
      OBVIOUS
    <3> QED
      BY <3>1, FS_Interval, Zenon
  <2>2. Cardinality(1..m) = m
    BY <2>1
  <2> QED
    BY <1>2, <2>1, <2>2, FS_Subset
<1>13. m <= r.semantics
  BY DEF AreNearest
<1>14. ASSUME NEW n \in met \ seeds, \A i \in 1..m : list[i].node # n
       PROVE  /\ m = r.semantics /\ Nearest(hits, n) \in Int
              /\ \A i \in 1..m : Nearest(hits, n) <= list[i].score
  BY <1>6, <1>14
<1>15. ASSUME NEW n \in met \ seeds, NEW j \in 1..m, list[j].node = n
       PROVE  j \in (1..m) \ C
  BY <1>15
<1>16. ASSUME NEW i \in C, NEW j \in (1..m) \ C PROVE list[j].score <= list[i].score
  <2>1. i \in 1..m /\ j \in 1..m /\ i \in Int /\ j \in Int /\ i # j
    BY <1>2, <1>16
  <2>2. i < j
    <3> SUFFICES ASSUME j < i PROVE FALSE
      BY <2>1
    <3>1. W(i) <= W(j) /\ W(i) >= r.floor /\ W(i) \in Int /\ W(j) \in Int
      BY <1>7, <1>8, <1>9, <2>1
    <3>2. W(j) >= r.floor
      BY <1>1, <3>1
    <3>3. W(j) < W(i) \/ i < j
      BY <1>9, <3>2
    <3> QED
      BY <2>1, <3>1, <3>3
  <2> QED
    BY <1>5, <2>1, <2>2
<1>17. ASSUME NEW a \in seeds, NEW b \in met \ seeds PROVE Nearest(hits, b) <= Nearest(hits, a)
  <2>1. PICK i \in C : list[i].node = a
    OBVIOUS
  <2>2. Nearest(hits, a) = list[i].score /\ i \in 1..m
    BY <1>2, <1>3, <2>1
  <2>3. CASE \E j \in 1..m : list[j].node = b
    <3>1. PICK j \in 1..m : list[j].node = b
      BY <2>3
    <3>2. j \in (1..m) \ C /\ Nearest(hits, b) = list[j].score
      BY <1>3, <1>15, <3>1
    <3> QED
      BY <1>16, <2>2, <3>2
  <2>4. CASE \A j \in 1..m : list[j].node # b
    BY <1>14, <2>2, <2>4
  <2> QED
    BY <2>3, <2>4
<1>18. ASSUME Cardinality(C) < r.semantics, Cardinality(C) < SeedLimit(r), NEW n \in met \ seeds
       PROVE  IF r.fusion = "rrf" THEN r.floor > 0 ELSE 25 * Nearest(hits, n) < r.floor
  <2>1. PICK j \in (1..m) \ C : Nearest(hits, n) \in Int /\ Nearest(hits, n) <= list[j].score
    <3>1. CASE \E j \in 1..m : list[j].node = n
      <4>1. PICK j \in 1..m : list[j].node = n
        BY <3>1
      <4>2. j \in (1..m) \ C /\ Nearest(hits, n) = list[j].score /\ list[j].score \in Int
        BY <1>3, <1>15, <4>1
      <4> QED
        BY <4>2
    <3>2. CASE \A j \in 1..m : list[j].node # n
      <4>1. m = r.semantics /\ Nearest(hits, n) \in Int /\ \A i \in 1..m : Nearest(hits, n) <= list[i].score
        BY <1>14, <3>2
      <4>2. C # 1..m
        <5> SUFFICES ASSUME C = 1..m PROVE FALSE
          OBVIOUS
        <5>1. 1 \in Int /\ m \in Int
          OBVIOUS
        <5>2. Cardinality(1..m) = IF 1 > m THEN 0 ELSE m - 1 + 1
          BY <5>1, FS_Interval, Zenon
        <5> QED
          BY <1>1, <1>18, <4>1, <5>2
      <4>3. PICK j \in 1..m : j \notin C
        BY <1>2, <4>2
      <4> QED
        BY <4>1, <4>3
    <3> QED
      BY <3>1, <3>2
  <2>2. W(j) < r.floor /\ W(j) \in Int /\ list[j].score \in Int
    BY <1>3, <1>7, <1>9, <1>18
  <2>3. CASE r.fusion = "rrf"
    <3>1. W(j) >= 0
      BY <1>7, <2>3
    <3> QED
      BY <1>1, <2>2, <2>3, <3>1
  <2>4. CASE r.fusion # "rrf"
    <3>1. W(j) = 25 * list[j].score
      BY <1>7, <2>4
    <3>2. 25 * Nearest(hits, n) <= 25 * list[j].score
      BY <2>1, <2>2
    <3>3. 25 * Nearest(hits, n) < r.floor
      BY <1>1, <2>1, <2>2, <3>1, <3>2
    <3> QED
      BY <2>4, <3>3
  <2> QED
    BY <2>3, <2>4
<1>19. Cardinality(C) <= r.semantics
  BY <1>1, <1>11, <1>12, <1>13
<1> HIDE DEF seeds
<1>20. NearestFirst(seeds, r, hits)
  BY <1>2, <1>10, <1>11, <1>17, <1>18, <1>19 DEF NearestFirst, met
<1> QED
  BY <1>20 DEF seeds, NodesAt

LEMMA NothingCut ==
  ASSUME NEW n \in Nat
  PROVE  Cut(<<>>, n) = <<>> /\ DOMAIN <<>> = {}
<1>1. Len(<<>>) = 0 /\ Atop(n, 0) = 0
  BY DEF Atop
<1>2. SubSeq(<<>>, 1, 0) = <<>>
  OBVIOUS
<1> QED
  BY <1>1, <1>2 DEF Cut

LEMMA NoModuleSeeds ==
  ASSUME NEW top \in Nat, NEW members
  PROVE  DOMAIN ModuleSeeds(<<>>, top, members) = {}
<1> DEFINE best == [i \in DOMAIN Cut(<<>>, top) |-> Cut(<<>>[i].members, members)]
           places == Places(best)
           before == [p \in places |-> {t \in places : Earlier(t, p)}]
<1>1. DOMAIN best = {}
  BY NothingCut
<1>2. places = {}
  BY <1>1 DEF Places
<1>3. Cardinality(DOMAIN before) = 0
  <2>1. DOMAIN before = {}
    BY <1>2
  <2> QED
    BY <2>1, FS_EmptySet
<1>4. DOMAIN InOrder(before) = 1..0
  BY <1>3 DEF InOrder
<1>5. DOMAIN ModuleSeeds(<<>>, top, members) = DOMAIN InOrder(before)
  BY DEF ModuleSeeds, InTurn
<1> QED
  BY <1>4, <1>5

LEMMA SourcesShape ==
  ASSUME NEW hits \in HitLists, NEW r \in Explorations, NEW m \in Nat,
         AreNearest(SemanticSeeds(hits, r.semantics), m, hits, r.semantics)
  PROVE  OneList(RankSources(r, <<>>, <<>>, hits), SemanticSeeds(hits, r.semantics), m)
<1> DEFINE list == SemanticSeeds(hits, r.semantics)
           sources == RankSources(r, <<>>, <<>>, hits)
<1>1. r.modules \in Nat /\ r.functions \in Nat
  BY ExplorationsAssumption
<1>2. sources = <<ModuleSeeds(<<>>, r.modules, r.members), Cut(<<>>, r.functions), list>>
  BY DEF RankSources
<1>3. DOMAIN ModuleSeeds(<<>>, r.modules, r.members) = {}
  BY <1>1, NoModuleSeeds
<1>4. DOMAIN Cut(<<>>, r.functions) = {}
  BY <1>1, NothingCut
<1> HIDE DEF list, sources
<1>5. DOMAIN sources = 1..3 /\ DOMAIN sources[1] = {} /\ DOMAIN sources[2] = {} /\ sources[3] = list
  BY <1>2, <1>3, <1>4
<1>6. /\ DOMAIN list = 1..m /\ \A i \in 1..m : list[i].score \in Int
      /\ \A i, j \in 1..m : list[i].node = list[j].node => i = j
  BY DEF AreNearest, list
<1>7. OneList(sources, list, m)
  BY <1>5, <1>6 DEF OneList
<1> QED
  BY <1>7 DEF sources, list

LEMMA AnswerIsNearest ==
  ASSUME NEW hits \in HitLists, NEW r \in Explorations, r.symbol = "", r.query # ""
  PROVE  NearestFirst(ExploreAnswer(r, <<>>, <<>>, hits).seeds, r, hits)
<1> DEFINE sources == RankSources(r, <<>>, <<>>, hits)
           list == SemanticSeeds(hits, r.semantics)
           chosen == Seeds(sources, r)
           found == SeedNodes(chosen)
           answer == ExploreAnswer(r, <<>>, <<>>, hits)
<1>1. r.semantics \in Nat
  BY ExplorationsAssumption
<1>2. PICK m \in Nat : AreNearest(list, m, hits, r.semantics)
  BY <1>1, SemanticShape
<1>3. OneList(sources, list, m)
  BY <1>2, SourcesShape
<1>4. PICK C : AreChosen(C, list, m, r) /\ found = NodesAt(list, C)
  <2>1. ChosenFrom(found, list, m, r)
    BY <1>3, ChosenShape
  <2> HIDE DEF found, list
  <2> QED
    BY <2>1 DEF ChosenFrom
<1>5. NearestFirst(found, r, hits)
  <2> HIDE DEF sources, list, found
  <2>1. NearestFirst(NodesAt(list, C), r, hits)
    BY <1>2, <1>4, ChosenAreNearest
  <2> QED
    BY <1>4, <2>1
<1>6. \/ chosen = <<>> /\ answer = [seeds |-> {}, hops |-> 0]
      \/ answer = [seeds |-> found, hops |-> HopsOf(r, <<>>)]
  BY DEF ExploreAnswer, SeedNodes, NodesAt
<1>7. chosen = <<>> => found = {}
  <2> HIDE DEF chosen
  <2> QED
    BY NothingCut DEF SeedNodes, NodesAt
<1> HIDE DEF chosen, found, answer
<1>8. answer.seeds = found
  <2>1. \A S, h : [seeds |-> S, hops |-> h].seeds = S
    OBVIOUS
  <2> QED
    BY <1>6, <1>7, <2>1
<1> QED
  BY <1>5, <1>8 DEF answer

ExploreInv ==
  explored # <<>> =>
    /\ explored.r \in Explorations /\ explored.hits \in HitLists
    /\ explored.answer = ExploreAnswer(explored.r, explored.intents.modules, explored.intents.functions, explored.hits)

LEMMA ExploreInvNext == ExploreInv /\ [Explore]_explored => ExploreInv'
<1> SUFFICES ASSUME ExploreInv, [Explore]_explored PROVE ExploreInv'
  OBVIOUS
<1>1. CASE UNCHANGED explored
  BY <1>1 DEF ExploreInv
<1>2. CASE Explore
  <2>1. PICK r \in Explorations, intents \in Intents, hits \in HitLists :
          explored' = [r |-> r, intents |-> intents, hits |-> hits,
                       answer |-> ExploreAnswer(r, intents.modules, intents.functions, hits)]
    BY <1>2 DEF Explore
  <2>2. /\ explored'.r = r /\ explored'.intents = intents /\ explored'.hits = hits
        /\ explored'.answer = ExploreAnswer(r, intents.modules, intents.functions, hits)
    BY <2>1
  <2> QED
    BY <2>2 DEF ExploreInv
<1> QED
  BY <1>1, <1>2

LEMMA ExploredAreNearest == ExploreInv => SeedsAreNearest
<1> SUFFICES ASSUME ExploreInv, explored # <<>>, explored.r.symbol = "", explored.r.query # "",
                    explored.intents = [modules |-> <<>>, functions |-> <<>>]
             PROVE  NearestFirst(explored.answer.seeds, explored.r, explored.hits)
  BY Zenon DEF SeedsAreNearest, NearestFirst
<1>1. explored.intents.modules = <<>> /\ explored.intents.functions = <<>>
  <2>1. \A e : [modules |-> e, functions |-> e].modules = e /\ [modules |-> e, functions |-> e].functions = e
    OBVIOUS
  <2> QED
    BY <2>1, Zenon
<1>2. /\ explored.r \in Explorations /\ explored.hits \in HitLists
      /\ explored.answer = ExploreAnswer(explored.r, <<>>, <<>>, explored.hits)
  BY <1>1 DEF ExploreInv
<1>3. NearestFirst(ExploreAnswer(explored.r, <<>>, <<>>, explored.hits).seeds, explored.r, explored.hits)
  BY <1>2, AnswerIsNearest
<1> QED
  BY <1>2, <1>3

(* SeedsAreNearest, for any hits of any number over any nodes, both        *)
(* fusions, any floor and any limits.                                      *)
THEOREM SeedsAlwaysNearest == ExploreSpec => []SeedsAreNearest
<1>1. ExploreInit => ExploreInv
  BY DEF ExploreInit, ExploreInv
<1> QED
  BY <1>1, ExploreInvNext, ExploredAreNearest, PTL DEF ExploreSpec
=============================================================================
