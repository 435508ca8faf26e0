----------------------------- MODULE Retrieval -----------------------------
(***************************************************************************)
(* HybridRetrievalService.query (retrieval.py): a query is validated, the  *)
(* store and the vector index are asked for ranked lists, the lists are    *)
(* fused, results in test code are demoted and a page of top_k is cut.     *)
(*                                                                         *)
(* The rows of the index are chosen anew for each query.  A result is      *)
(* [id, score]; ids are numbers in the order of the code's strings.  What  *)
(* _attach_code adds to the payloads does not change ids or their order.   *)
(***************************************************************************)
EXTENDS Ranking

CONSTANTS
  Symbols,          \* ids of symbols
  Chunks,           \* ids of chunks (and of definitions and referencing documents)
  FileOf,           \* FileOf[c]: the file of a chunk
  TestCode,         \* the ids in test code: _result_likely_test_code
  TopKs, Strategies, Ops,
  KeywordScores,    \* minus bm25
  SemanticScores,   \* cosine, or minus the distance
  Confidences,      \* of call edges and relations
  Shares,           \* Shares[r]: what rank r counts for in rrf, 1 / (60 + r)
  One,              \* the unit of scores: 1.0
  FactorNum, FactorDen, \* test_code_score_factor
  InsertEvery       \* one insert for so many results (10)

ASSUME IdsAssumption == /\ Symbols \cup Chunks \subseteq Nat \ {0} /\ Symbols \cap Chunks = {}
                        /\ IsFiniteSet(Symbols \cup Chunks)
ASSUME TopKsAssumption == TopKs \subseteq Nat /\ InsertEvery \in Nat \ {0}
ASSUME StrategiesAssumption == Strategies \subseteq {"linear", "rrf", "dense_guarded"}
ASSUME ScoresAssumption ==
  /\ KeywordScores \cup SemanticScores \cup Confidences \subseteq Int /\ One \in Nat
  /\ FactorNum \in Nat /\ FactorDen \in Nat \ {0} /\ FactorNum <= FactorDen
ASSUME SharesAssumption ==
  /\ Shares \in Seq(Nat \ {0}) /\ \A k \in TopKs : k <= Len(Shares)
  /\ \A r, s \in DOMAIN Shares : r < s => Shares[r] > Shares[s]

Lists == {"structure", "keyword", "semantic"}
Modes == {"structure", "semantic", "hybrid"}
NoLists == [n \in Lists |-> <<>>]

VARIABLES
  stage,     \* how far the query is
  q,         \* the Query: op, mode, strategy, k, known; aboutTests of its text
  lists,     \* the ranked lists read for it
  results    \* the list that is fused, reranked and cut

vars == <<stage, q, lists, results>>

IdsOf(l) == {l[i].id : i \in DOMAIN l}
RankIn(l, id) == CHOOSE i \in DOMAIN l : l[i].id = id
ScoreIn(l, id) == IF id \in IdsOf(l) THEN l[RankIn(l, id)].score ELSE 0

(* list.sort(key=score, reverse=True): stable.                             *)
Sorted(l) ==
  Follow(l, InOrder([i \in DOMAIN l |-> {j \in DOMAIN l : \/ l[j].score > l[i].score
                                                          \/ l[j].score = l[i].score /\ j < i}]))

(* Every list of at most n results from S that is sorted by score.         *)
RankedLists(S, scores, n) ==
  UNION {{l \in [1..m -> [id : S, score : scores]] :
             /\ \A i, j \in 1..m : i < j => l[i].id # l[j].id
             /\ \A i \in 1..m - 1 : l[i].score >= l[i + 1].score}
         : m \in 0..Atop(n, Cardinality(S))}

(* The n best of a table id |-> score; those with score 0 are not in it,   *)
(* and among equals the greater or the smaller id is first.                *)
Best(table, n, greater) ==
  LET ids == {s \in DOMAIN table : table[s] > 0}
      order == InOrder([a \in ids |-> {b \in ids :
                 \/ table[b] > table[a]
                 \/ table[b] = table[a] /\ (IF greater THEN b > a ELSE b < a)}])
  IN  Cut([i \in DOMAIN order |-> [id |-> order[i], score |-> table[order[i]]]], n)

-----------------------------------------------------------------------------
(* Fusion *)

Found == UNION {IdsOf(lists[n]) : n \in Lists}

IdsIn(n) == [i \in DOMAIN lists[n] |-> lists[n][i].id]
AllIds == IdsIn("structure") \o IdsIn("keyword") \o IdsIn("semantic")

(* Faulty: a chunk found by keywords and by vectors is met twice.          *)
MetTwice == AllIds

(* The ids of the three lists in the order they are first met.             *)
Met == Picked(AllIds, {i \in DOMAIN AllIds : \A j \in 1..i - 1 : AllIds[j] # AllIds[i]})

Fused(score) == Sorted([i \in DOMAIN Met |-> [id |-> Met[i], score |-> score[Met[i]]]])

(* Faulty: the list that has the result last sets its score.               *)
LinearOverwriting ==
  Fused([id \in Found |->
           IF id \in IdsOf(lists["semantic"]) THEN 3 * ScoreIn(lists["semantic"], id)
           ELSE 5 * ScoreIn(lists["structure"], id) + 2 * ScoreIn(lists["keyword"], id)])

(* _linear_fusion: weights 0.5, 0.2 and 0.3.                               *)
Linear == Fused([id \in Found |-> 5 * ScoreIn(lists["structure"], id) + 2 * ScoreIn(lists["keyword"], id)
                                  + 3 * ScoreIn(lists["semantic"], id)])

(* _rrf_fusion.                                                            *)
Share(l, id) == IF id \in IdsOf(l) THEN Shares[RankIn(l, id)] ELSE 0
Rrf == Fused([id \in Found |-> Share(lists["structure"], id) + Share(lists["keyword"], id)
                               + Share(lists["semantic"], id)])

Boost(n, id, unit) == IF id \in IdsOf(lists[n]) THEN unit \div RankIn(lists[n], id) ELSE 0
Backbone == [i \in DOMAIN lists["semantic"] |->
               LET r == lists["semantic"][i]
               IN  [r EXCEPT !.score = @ + Boost("keyword", r.id, One \div 100)
                                         + Boost("structure", r.id, (15 * One) \div 1000)]]

(* The results that may be inserted: of the first two of the structure     *)
(* list and the first few keywords, those dense does not have, keywords    *)
(* only from files that dense does not have among its first.               *)
Inserts ==
  LET dense == IdsOf(Backbone)
      files == {FileOf[Backbone[i].id] : i \in 1..Atop(q.k, Len(Backbone))}
      fresh(n, cap, unit) ==
        LET l == Cut(lists[n], cap)
        IN  [i \in DOMAIN l |-> [id |-> l[i].id, score |-> unit \div i]]
      few == IF q.k < 6 THEN 1 ELSE Atop(3, q.k \div 3)
      symbols == fresh("structure", 2, One \div 50)
      chunks == fresh("keyword", few, One \div 100)
      structure == Picked(symbols, {i \in DOMAIN symbols : symbols[i].id \notin dense})
      keyword == Picked(chunks, {i \in DOMAIN chunks : /\ chunks[i].id \notin dense
                                                       /\ FileOf[chunks[i].id] \notin files})
  IN  Cut(structure \o keyword, Atop(2, q.k \div InsertEvery))

Kept == IF q.k - Len(Inserts) > 1 THEN q.k - Len(Inserts) ELSE 1

(* _dense_guarded_fusion                                                   *)
DenseGuarded == IF lists["semantic"] = <<>> THEN Linear
                ELSE Cut(Backbone, Kept) \o Inserts \o SubSeq(Backbone, Kept + 1, Len(Backbone))

-----------------------------------------------------------------------------
(* Demotion *)

(* Scores are multiplied by FactorDen and, unless it is 0, FactorNum.      *)
Unit == IF FactorNum = 0 THEN 1 ELSE FactorNum

(* Faulty: a negative score is multiplied too.                             *)
DemotedUpwards(r) == [r EXCEPT !.score = @ * Unit * (IF r.id \in TestCode THEN FactorNum ELSE FactorDen)]

(* _apply_test_depref_to_score; a factor of 0 is for scores that are not   *)
(* negative, see DividesByZero.                                            *)
Demoted(r) ==
  [r EXCEPT !.score = IF r.id \notin TestCode THEN @ * Unit * FactorDen
                      ELSE IF @ >= 0 THEN @ * Unit * FactorNum
                      ELSE @ * FactorDen * FactorDen]

Demotes == ~q.aboutTests /\ FactorNum < FactorDen

(* _rerank_with_test_depref                                                *)
Reranked(l) == IF Demotes THEN Sorted([i \in DOMAIN l |-> Demoted(l[i])]) ELSE l

-----------------------------------------------------------------------------
Lookups == {"def_of", "refs_of", "callers_of"}    \* callees_of is callers_of the other way round

(* Query.validate and require_capability.                                  *)
Valid(query) == /\ query.k > 0
                /\ query.op \in Lookups => query.mode = "structure"
                /\ (query.mode = "structure" \/ query.op = "symbol_exact") => query.known

Hybrid(query) == query.op = "search" /\ query.mode = "hybrid"
Depth == IF Hybrid(q) /\ q.strategy = "dense_guarded" THEN 2 * q.k ELSE q.k

Queries == [op : Ops, mode : Modes, strategy : Strategies, k : TopKs, known : BOOLEAN, aboutTests : BOOLEAN]

Init == /\ stage = "idle"
        /\ q \in Queries
        /\ lists = NoLists
        /\ results = <<>>

(* A query that is not valid, or needs what the index does not offer.      *)
Refuse == /\ stage = "idle" /\ ~Valid(q)
          /\ stage' = "refused"
          /\ UNCHANGED <<q, lists, results>>

(* symbol_exact: the name contains the text, or is it, or has terms of it. *)
NameScores == {0, One, 2 * One, 4 * One}

ReadSymbols == /\ stage = "idle" /\ Valid(q)
               /\ q.op = "symbol_exact" \/ (q.op = "search" /\ q.mode = "structure")
               /\ \E score \in [Symbols -> NameScores] :
                    results' = Best(score, Depth, TRUE)
               /\ stage' = "found"
               /\ UNCHANGED <<q, lists>>

ReadDefinitions == /\ stage = "idle" /\ Valid(q)
                   /\ q.op = "def_of"
                   /\ results' \in RankedLists(Chunks, {One}, Depth)
                   /\ stage' = "found"
                   /\ UNCHANGED <<q, lists>>

ReadReferences == /\ stage = "idle" /\ Valid(q)
                  /\ q.op = "refs_of"
                  /\ results' \in RankedLists(Chunks, {One, 2 * One}, Depth)
                  /\ stage' = "found"
                  /\ UNCHANGED <<q, lists>>

(* What CallLookup finds in code_edges and relations.                      *)
ReadCallers == /\ stage = "idle" /\ Valid(q)
               /\ q.op = "callers_of"
               /\ results' \in RankedLists(Symbols, Confidences, Depth)
               /\ stage' = "found"
               /\ UNCHANGED <<q, lists>>

ReadVectors == /\ stage = "idle" /\ Valid(q)
               /\ q.op = "search" /\ q.mode = "semantic"
               /\ results' \in RankedLists(Chunks, SemanticScores, Depth)
               /\ stage' = "found"
               /\ UNCHANGED <<q, lists>>

(* Without the capability the structure list is empty; without a vector    *)
(* index, or when the provider fails, so is the semantic one.              *)
ReadLists ==
  /\ stage = "idle" /\ Valid(q) /\ Hybrid(q)
  /\ \E score \in [Symbols -> IF q.known THEN NameScores ELSE {0}],
        keyword \in RankedLists(Chunks, KeywordScores, Depth),
        semantic \in RankedLists(Chunks, SemanticScores, Depth) :
       lists' = [structure |-> Best(score, Depth, TRUE), keyword |-> keyword, semantic |-> semantic]
  /\ stage' = "read"
  /\ UNCHANGED <<q, results>>

Fuse == /\ stage = "read"
        /\ results' = CASE q.strategy = "linear" -> Linear
                        [] q.strategy = "rrf" -> Rrf
                        [] q.strategy = "dense_guarded" -> DenseGuarded
        /\ stage' = "found"
        /\ UNCHANGED <<q, lists>>

(* With a factor of 0 a negative score is divided by zero.                 *)
DividesByZero == /\ Demotes /\ FactorNum = 0
                 /\ \E i \in DOMAIN results : results[i].id \in TestCode /\ results[i].score < 0

Answer == /\ stage = "found" /\ ~DividesByZero
          /\ results' = Cut(Reranked(results), q.k)
          /\ stage' = "answered"
          /\ UNCHANGED <<q, lists>>

Next == Refuse \/ ReadSymbols \/ ReadDefinitions \/ ReadReferences \/ ReadCallers
        \/ ReadVectors \/ ReadLists \/ Fuse \/ Answer

Spec == Init /\ [][Next]_vars
-----------------------------------------------------------------------------
(* Properties *)

Blended == Hybrid(q) /\ q.strategy \in {"linear", "rrf"}
PlaceOf(id) == RankIn(results, id)

(* A page is what was asked for: at most top_k results, none of them twice *)
(* although keyword and vector search both find chunks, and, after a blend *)
(* by linear or rrf, a full page whenever the lists hold enough;           *)
(* dense_guarded adds few results to the dense ones and may leave it short.*)
AnswerIsAPage ==
  stage = "answered" =>
    /\ Len(results) <= q.k /\ Cardinality(IdsOf(results)) = Len(results)
    /\ Hybrid(q) => /\ IdsOf(results) \subseteq Found
                    /\ q.strategy # "dense_guarded" => Len(results) = Atop(q.k, Cardinality(Found))

(* What a list says for a result: by rrf its rank counts, by linear its    *)
(* score.  A list without it says 0, so that a distance, which is counted  *)
(* negative, speaks against the chunk it was found for.                    *)
Standing(n, id) == IF q.strategy = "rrf" /\ id \in IdsOf(lists[n])
                   THEN Depth + 1 - RankIn(lists[n], id) ELSE ScoreIn(lists[n], id)
Ahead(a, b) == /\ \A n \in Lists : Standing(n, a) >= Standing(n, b)
               /\ \E n \in Lists : Standing(n, a) > Standing(n, b)

(* Agreement is honoured: with linear and rrf blending, a result for which *)
(* every list says as much as for another, and one list more, is on the    *)
(* page if the other is, and before it, unless only the first is demoted.  *)
AheadIsFirst ==
  stage = "answered" /\ Blended =>
    \A b \in IdsOf(results), a \in Found :
      Ahead(a, b) /\ (Demotes /\ a \in TestCode => b \in TestCode) =>
        a \in IdsOf(results) /\ PlaceOf(a) < PlaceOf(b)

(* The docstring of _dense_guarded_fusion (retrieval.py:152): "This        *)
(* strategy keeps dense as the backbone, adds explain signals for          *)
(* overlaps, and only allows a tiny number of high-rank non-dense results  *)
(* near the tail".  So, where no vector hit is demoted, the first result   *)
(* is a vector hit.                                                        *)
DenseIsBackbone ==
  /\ stage = "answered" /\ Hybrid(q) /\ q.strategy = "dense_guarded"
  /\ lists["semantic"] # <<>> /\ IdsOf(lists["semantic"]) \cap TestCode = {}
  => results[1].id \in IdsOf(lists["semantic"])
=============================================================================
