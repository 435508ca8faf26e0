---------------------------- MODULE MCRetrieval ----------------------------
(* What a client asks of a served index: queries, over every ranked list   *)
(* of two symbols and three chunks; the code graph, built and built again  *)
(* from the rows of a small class; entities by name; and the seeds of an   *)
(* exploration.  A behaviour is of one scene: they have no state in common.*)
EXTENDS Retrieval, CallLookup, EntityQuery, GraphExplore

MCFileOf == [c \in Chunks |-> IF c = 11 THEN "f" ELSE "g"]

(* With the common denominator of ranks 1 to 3.                            *)
MCShares == [r \in 1..3 |-> (61 * 62 * 63) \div (60 + r)]

(* Cosines, and distances that are counted negative.                       *)
MCSemanticScores == {-One, One \div 2, One}

-----------------------------------------------------------------------------
(* A class C with methods m, n, k and a field f.                           *)

At(line, last) == [line |-> line, first |-> IF last < 0 THEN -1 ELSE line, last |-> last]
Members == {"C", "m", "n", "k", "f"}

(* Enclosing ranges with n inside m; none at all; ranges of which the one  *)
(* on line 0 counts as absent; a class whose owner C is not defined; and   *)
(* one without n.                                                          *)
Ranged == [C |-> At(1, 9), m |-> At(2, 6), n |-> At(3, 4), k |-> At(7, 8), f |-> At(9, 9)]
Unranged == [s \in Members |-> At(Ranged[s].line, -1)]
OnLineZero == [C |-> At(0, 9), m |-> At(2, 6), n |-> At(3, 4), k |-> At(7, 8), f |-> At(9, 9)]
WithoutC == [s \in Members \ {"C"} |-> Ranged[s]]
WithoutN == [s \in Members \ {"n"} |-> Ranged[s]]

Relation(a, b, type, confidence) == [from |-> a, to |-> b, type |-> type, confidence |-> confidence]
Twice == {Relation("m", "n", "calls", 30), Relation("m", "n", "calls", 40)}
Back == {Relation("n", "m", "calls", 90), Relation("C", "C", "implements", 100)}

Ref(to, line) == [to |-> to, line |-> line]
RefSets == {{Ref("n", 3)}, {Ref("k", 4), Ref("f", 1)}, {Ref("n", 5), Ref("k", 5), Ref("f", 6)},
            {Ref("m", 7), Ref("m", 8)}, {Ref("n", 2), Ref("n", 5), Ref("n", 6), Ref("m", 4)}}

MCRows ==
  {[mode |-> "scip", calls |-> TRUE, known |-> Members, at |-> at, relations |-> relations, refs |-> refs,
    owner |-> [s \in Members |-> IF s = "C" THEN "none" ELSE "C"],
    package |-> [s \in Members |-> "p"]]
   : at \in {Ranged, Unranged, OnLineZero, WithoutC, WithoutN},
     relations \in {{}, Twice, Back, Twice \cup Back}, refs \in RefSets}
  \cup
  {[mode |-> mode, calls |-> FALSE, known |-> Members, at |-> Ranged, relations |-> Twice, refs |-> {Ref("k", 3)},
    owner |-> [s \in Members |-> IF s = "C" THEN "none" ELSE "C"],
    package |-> [s \in Members |-> "none"]] : mode \in {"scip", "document"}}

MCKindOf == [s \in Members |-> IF s = "C" THEN "class" ELSE IF s = "f" THEN "field" ELSE "method"]

(* The order of the ids is that of no other list.                          *)
MCPlace == [C |-> 3, m |-> 5, n |-> 1, k |-> 4, f |-> 2]

-----------------------------------------------------------------------------
(* Three symbols, for windows of two rows; bm25 ranks them                 *)
(* against the order of their ids.                                         *)
SymbolRows(id) ==
  {[id |-> id, name |-> n, word |-> w, length |-> l, rank |-> -id, fits |-> f] :
     n \in {"equal", "part", "other"}, w \in BOOLEAN, l \in {1, 2}, f \in BOOLEAN}

Few(id) == {s \in SymbolRows(id) : (s.name = "equal" => s.word) /\ (s.name = "other" => s.length = 1)}

MCTables == {{a, b, c} : a \in Few(1), b \in Few(2), c \in {s \in Few(3) : s.fits}}

-----------------------------------------------------------------------------
(* Three chunks that mention a, b and c, of which a and b have one node,   *)
(* and d that has none; and intents that mention the same nodes.           *)
MCNodeOf == [a |-> "n", b |-> "n", c |-> "p"]

HitSet == {[score |-> s, symbols |-> y] : s \in {-1, 1, 2}, y \in {<<"a">>, <<"b", "c">>, <<"d">>}}
MCHitLists == [1..3 -> HitSet]

Row(node, score) == [node |-> node, score |-> score, communities |-> {}]
MCIntents ==
  {[modules |-> <<>>, functions |-> <<>>],
   [modules |-> <<[community |-> "k", score |-> 1, members |-> <<[node |-> "p", score |-> 5], [node |-> "n", score |-> 0]>>]>>,
    functions |-> <<Row("n", 2), Row("o", 1)>>]}

MCExplorations ==
  {[query |-> "q", symbol |-> s, fusion |-> f, floor |-> l, semantics |-> k, modules |-> m, functions |-> 1,
    members |-> 1, hops |-> -1, moduleHops |-> 2, functionHops |-> 1] :
     s \in {"", "a"}, f \in {"rrf", "linear"}, l \in {0, 50}, k \in {1, 3}, m \in {0, 1}}

-----------------------------------------------------------------------------
CONSTANTS Scenes   \* what is asked: queries, graph, names, seeds

VARIABLE scene

NoQueries == stage = "closed" /\ q = <<>> /\ lists = NoLists /\ results = <<>>
NoGraph == rows = <<>> /\ nodes = {} /\ edges = {} /\ built = <<>> /\ failed = FALSE /\ ingests = 0

MCInit ==
  /\ scene \in Scenes
  /\ IF scene = "queries" THEN Init ELSE NoQueries
  /\ IF scene = "graph" THEN GraphInit ELSE NoGraph
  /\ EntityInit /\ ExploreInit

MCNext ==
  \/ scene = "queries" /\ Next /\ UNCHANGED <<graphVars, entity, explored>>
  \/ scene = "graph" /\ GraphNext /\ UNCHANGED <<vars, entity, explored>>
  \/ scene = "names" /\ EntityNext /\ UNCHANGED <<vars, graphVars, explored>>
  \/ scene = "seeds" /\ Explore /\ UNCHANGED <<vars, graphVars, entity>>

MCSpec == MCInit /\ [][MCNext /\ UNCHANGED scene]_<<vars, graphVars, entity, explored, scene>>
=============================================================================
