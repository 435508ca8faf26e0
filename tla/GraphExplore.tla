---------------------------- MODULE GraphExplore ----------------------------
(***************************************************************************)
(* GraphService.explore (graph_service.py): the nodes a graph answer grows *)
(* from.  A symbol is its own seed; a query takes them from the intents of *)
(* modules and functions and from the chunks nearest to its vector, and    *)
(* fuses the three ranked lists.                                           *)
(*                                                                         *)
(* Scores are integers; a reciprocal rank is a millionth.  A seed is       *)
(* [node, score, communities]; a hit is a chunk, [score, symbols].  A      *)
(* place is <<list, position>> in a list of lists.                         *)
(***************************************************************************)
EXTENDS Ranking, FiniteSetsExt

CONSTANTS
  NodeOf,          \* code_nodes: symbol |-> its node, for the symbols that have one
  Mentioned,       \* the symbols of chunks
  HitLists,        \* what semantic_search answers
  Intents,         \* what the intents of modules and functions answer
  Explorations     \* requests

VARIABLE explored  \* the last request, with what was found for it and its answer

ASSUME HitsAssumption ==
  \A hits \in HitLists : hits \in Seq([score : Int, symbols : Seq(Mentioned)])
ASSUME ExplorationsAssumption ==
  \A r \in Explorations : r.floor \in Int /\ {r.modules, r.functions, r.semantics} \subseteq Nat

Unset == -1   \* no number of hops in the request

(* _resolve_node_id: a symbol without a node stands for itself.            *)
ResolveNode(symbol) == IF symbol \in DOMAIN NodeOf THEN NodeOf[symbol] ELSE symbol

Places(rows) == UNION {{i} \X DOMAIN rows[i] : i \in DOMAIN rows}

Earlier(p, q) == p[1] < q[1] \/ (p[1] = q[1] /\ p[2] < q[2])

InTurn(places) == InOrder([p \in places |-> {q \in places : Earlier(q, p)}])

(* Sorting keeps the order of equal scores.                                *)
BestFirst(score) ==
  InOrder([p \in DOMAIN score |->
             {q \in DOMAIN score : score[q] > score[p] \/ (score[q] = score[p] /\ Earlier(q, p))}])

(* The places of a node, and those where a node is met first: a dict keeps *)
(* that order.                                                             *)
Mentions(node, n) == {p \in DOMAIN node : node[p] = n}
Firsts(node) == {p \in DOMAIN node : \A q \in Mentions(node, node[p]) : ~Earlier(q, p)}

NodesMentioned(hits) ==
  [p \in Places([i \in DOMAIN hits |-> hits[i].symbols]) |-> ResolveNode(hits[p[1]].symbols[p[2]])]

(* Faulty: the last chunk that mentions a node decides.                    *)
LastScore(hits, places) == hits[(CHOOSE p \in places : \A q \in places : ~Earlier(p, q))[1]].score

(* The best chunk that mentions a node decides.                            *)
BestScore(hits, places) == Max({hits[p[1]].score : p \in places})

(* _semantic_seed_hits.                                                    *)
SemanticSeeds(hits, top) ==
  LET node == NodesMentioned(hits)
      score == [p \in Firsts(node) |-> BestScore(hits, Mentions(node, node[p]))]
      order == Cut(BestFirst(score), top)
  IN [k \in DOMAIN order |-> [node |-> node[order[k]], score |-> score[order[k]], communities |-> {}]]

(* _module_seed_hits: the best members of the best modules.                *)
ModuleSeeds(modules, top, members) ==
  LET best == [i \in DOMAIN Cut(modules, top) |-> Cut(modules[i].members, members)]
      order == InTurn(Places(best))
  IN [k \in DOMAIN order |->
        LET module == modules[order[k][1]]
            member == best[order[k][1]][order[k][2]]
        IN [node |-> member.node, score |-> module.score + member.score \div 5, communities |-> {module.community}]]

(* The three ranked lists: modules, functions, chunks.                     *)
RankSources(r, modules, functions, hits) ==
  <<ModuleSeeds(modules, r.modules, r.members), Cut(functions, r.functions), SemanticSeeds(hits, r.semantics)>>

NodesListed(sources) == [p \in Places(sources) |-> sources[p[1]][p[2]].node]

Reciprocal(rank) == 1000000 \div (60 + rank)
Weights == <<45, 30, 25>>

(* What a row adds to its node: _rrf_seed_fusion, k = 60, its reciprocal   *)
(* rank; _linear_seed_fusion, in hundredths, its weighted score.           *)
Worth(sources, p, fusion) ==
  IF fusion = "rrf" THEN Reciprocal(p[2]) ELSE Weights[p[1]] * sources[p[1]][p[2]].score

Total(worth, places) == MapThenSumSet(LAMBDA p : worth[p], places)

(* The score of a node, at the place where it is met first.                *)
SeedScores(sources, fusion) ==
  LET node == NodesListed(sources)
      worth == [p \in DOMAIN node |-> Worth(sources, p, fusion)]
  IN [p \in Firsts(node) |-> Total(worth, Mentions(node, node[p]))]

SeedLimit(r) == IF r.modules + r.functions > 1 THEN r.modules + r.functions ELSE 1

Enough(score, floor) == {p \in DOMAIN score : score[p] >= floor}

(* Faulty: the limits of the lists are forgotten.                          *)
SelectedSeedsAll(score, r) == BestFirst([p \in Enough(score, r.floor) |-> score[p]])

(* The places of the seeds: high enough, the best first, as many as the    *)
(* module and the function list may hold together, and at least one.       *)
SelectedSeeds(score, r) == Cut(BestFirst([p \in Enough(score, r.floor) |-> score[p]]), SeedLimit(r))

Seeds(sources, r) ==
  LET node == NodesListed(sources)
      score == SeedScores(sources, r.fusion)
      order == SelectedSeeds(score, r)
  IN [k \in DOMAIN order |->
        [node |-> node[order[k]], score |-> score[order[k]],
         communities |-> UNION {sources[p[1]][p[2]].communities : p \in Mentions(node, node[order[k]])}]]

(* Without a number of hops the answer reaches further when modules hit.   *)
HopsOf(r, modules) ==
  IF r.hops # Unset THEN r.hops ELSE IF modules # <<>> THEN r.moduleHops ELSE r.functionHops

ExploreAnswer(r, modules, functions, hits) ==
  LET seeds == Seeds(RankSources(r, modules, functions, hits), r)
  IN CASE r.symbol # "" -> [seeds |-> {ResolveNode(r.symbol)}, hops |-> 2]
       [] r.symbol = "" /\ (r.query = "" \/ seeds = <<>>) -> [seeds |-> {}, hops |-> 0]
       [] OTHER -> [seeds |-> {seeds[k].node : k \in DOMAIN seeds}, hops |-> HopsOf(r, modules)]

ExploreInit == explored = <<>>

(* What explore hands to code_subgraph: seeds and hops.                    *)
Explore ==
  /\ explored = <<>>
  /\ \E r \in Explorations, intents \in Intents, hits \in HitLists :
       explored' = [r |-> r, intents |-> intents, hits |-> hits,
                    answer |-> ExploreAnswer(r, intents.modules, intents.functions, hits)]

ExploreSpec == ExploreInit /\ [][Explore]_explored

-----------------------------------------------------------------------------
(* Properties *)

(* The nodes that hits mention, and the score of the best hit that does.   *)
ScoresMet(hits, n) == {hits[i].score : i \in {k \in DOMAIN hits : \E s \in Elements(hits[k].symbols) : ResolveNode(s) = n}}
NodesMet(hits) == {ResolveNode(s) : s \in UNION {Elements(hits[i].symbols) : i \in DOMAIN hits}}
Nearest(hits, n) == CHOOSE x \in ScoresMet(hits, n) : \A y \in ScoresMet(hits, n) : y <= x

(* A query grows from the nodes whose best chunk is nearest to it: no node *)
(* left out has a better chunk than one taken, a node that two symbols or  *)
(* two chunks mention counts once with its best score, the bounds on the   *)
(* lists bound the seeds, and while they are not reached only the floor    *)
(* keeps a node out.  Said of an index without intents, the only one the   *)
(* builders make.                                                          *)
SeedsAreNearest ==
  explored # <<>> =>
    LET r == explored.r
        hits == explored.hits
        seeds == explored.answer.seeds
        left == NodesMet(hits) \ seeds
    IN r.symbol = "" /\ r.query # "" /\ explored.intents = [modules |-> <<>>, functions |-> <<>>] =>
         /\ seeds \subseteq NodesMet(hits)
         /\ \A a \in seeds, b \in left : Nearest(hits, b) <= Nearest(hits, a)
         /\ Cardinality(seeds) <= r.semantics /\ Cardinality(seeds) <= SeedLimit(r)
         /\ Cardinality(seeds) < r.semantics /\ Cardinality(seeds) < SeedLimit(r) =>
              \A n \in left : IF r.fusion = "rrf" THEN r.floor > 0 ELSE 25 * Nearest(hits, n) < r.floor
=============================================================================
