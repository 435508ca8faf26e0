----------------------------- MODULE CallLookup -----------------------------
(***************************************************************************)
(* Who calls a symbol and whom it calls (callers_of and callees_of of      *)
(* storage.py): two tables are asked, code_edges through code_nodes, and   *)
(* relations; each answer is grouped by symbol and cut, then they are      *)
(* merged and cut again.                                                   *)
(*                                                                         *)
(* The tables are those of CodeGraph; a hit is [id, score].                *)
(***************************************************************************)
EXTENDS CodeGraph, Ranking

CONSTANT Place   \* symbol |-> its place in the order of ids

ASSUME PlaceAssumption ==
  Place \in [Names -> Int] /\ \A a, b \in Names : Place[a] = Place[b] => a = b

(* GROUP BY symbol_id with MAX(confidence).                                *)
Grouped(hits) == {h \in hits : \A o \in hits : o.id = h.id => o.score <= h.score}

(* ORDER BY confidence DESC, symbol_id ASC, and the sort of the merged     *)
(* list, by (score, id) downwards: ties are in opposite orders.            *)
Selects(a, b) == a.score > b.score \/ (a.score = b.score /\ Place[a.id] < Place[b.id])
Sorts(a, b) == a.score > b.score \/ (a.score = b.score /\ Place[a.id] > Place[b.id])

Selected(hits, k) == Cut(InOrder([h \in Grouped(hits) |-> {o \in Grouped(hits) : Selects(o, h)}]), k)
Merged(hits, k) == Cut(InOrder([h \in Grouped(hits) |-> {o \in Grouped(hits) : Sorts(o, h)}]), k)

(* _call_graph_results: edges whose two ends are nodes.                    *)
CallGraphResults(symbol, k, reverse) ==
  LET calls == {e \in edges : e.type = "calls" /\ {e.src, e.dst} \subseteq nodes}
  IN Selected(IF reverse THEN {[id |-> e.src, score |-> e.confidence] : e \in {c \in calls : c.dst = symbol}}
                         ELSE {[id |-> e.dst, score |-> e.confidence] : e \in {c \in calls : c.src = symbol}}, k)

(* _relation_call_results, where reverse has the opposite sense.           *)
RelationCallResults(symbol, k, reverse) ==
  LET calls == {r \in rows.relations : r.type = "calls"}
  IN Selected(IF reverse THEN {[id |-> r.to, score |-> r.confidence] : r \in {c \in calls : c.from = symbol}}
                         ELSE {[id |-> r.from, score |-> r.confidence] : r \in {c \in calls : c.to = symbol}}, k)

(* Faulty: what relations say replaces what the graph says.                *)
MergeRankedOverwriting(primary, fallback, k) ==
  Merged({h \in Elements(primary) : \A o \in Elements(fallback) : o.id # h.id} \cup Elements(fallback), k)

(* _merge_ranked_results: a symbol keeps the greater of its two scores.    *)
MergeRanked(primary, fallback, k) == Merged(Elements(primary) \cup Elements(fallback), k)

CallersOf(symbol, k) ==
  MergeRanked(CallGraphResults(symbol, k, TRUE), RelationCallResults(symbol, k, FALSE), k)

(* Faulty: both tables are asked with the same flag.                       *)
CalleesOfOneWay(symbol, k) ==
  MergeRanked(CallGraphResults(symbol, k, FALSE), RelationCallResults(symbol, k, FALSE), k)

CalleesOf(symbol, k) ==
  MergeRanked(CallGraphResults(symbol, k, FALSE), RelationCallResults(symbol, k, TRUE), k)

-----------------------------------------------------------------------------
(* Properties *)

(* That a calls b, in either table.                                        *)
Said(a, b) == Shown(a, b) \cup Related(rows, a, b)

(* Two tables, each cut before the merge and sorted the other way, hide no *)
(* strong call: an answer has as many callers as there are and top_k       *)
(* allows, each once and with its greatest confidence in either table, and *)
(* none is left out with a greater one; and who is among the callers of a  *)
(* symbol has it among its callees, with the same confidence.              *)
StrongestCalls ==
  rows # <<>> =>
    \A s \in Names :
      LET callers == {a \in Names : Said(a, s) # {}} IN
      /\ \A k \in 1..Cardinality(Names) :
           LET got == Elements(CallersOf(s, k))
               ids == {h.id : h \in got}
           IN /\ ids \subseteq callers
              /\ Len(CallersOf(s, k)) = Atop(k, Cardinality(callers)) /\ Cardinality(ids) = Len(CallersOf(s, k))
              /\ \A h \in got : h.score = Max(Said(h.id, s)) /\ \A a \in callers \ ids : Max(Said(a, s)) <= h.score
      /\ \A a \in Names :
           {h.score : h \in {g \in Elements(CalleesOf(a, Cardinality(Names))) : g.id = s}}
             = IF a \in callers THEN {Max(Said(a, s))} ELSE {}
=============================================================================
