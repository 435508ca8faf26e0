----------------------------- MODULE CodeGraph -----------------------------
(***************************************************************************)
(* CodeGraphBuilder (code_graph.py) derives code_nodes and code_edges from *)
(* the symbols, occurrences and relations of a snapshot, again after every *)
(* ingestion, and GraphService.code_subgraph (graph_service.py) walks it.  *)
(*                                                                         *)
(* build is one transaction and so one step.  Places are lines of a        *)
(* document, on each of which at most one definition starts; documents do  *)
(* not share occurrence edges, so there is one, with fewer edges than      *)
(* max_per_doc.  Shown are percents.                                 *)
(***************************************************************************)
EXTENDS Integers, Sequences, FiniteSets, FiniteSetsExt

CONSTANTS
  Names, Packages, NoOwner,     \* symbols and packages, of which none is another
  KindOf,      \* _coarse_node_type of a symbol: class, interface, method, field or symbol
  Rows,        \* the contents of the tables an ingestion may leave
  LastLine,    \* of the document
  MaxIngests   \* bound on the ingestions explored

VARIABLES
  rows,      \* [mode, calls, known, owner, package, at, relations, refs]
  nodes,     \* the symbols and packages in code_nodes
  edges,     \* code_edges: [src, dst, type, confidence, source]
  built,     \* history: the rows of the last build that was committed
  failed,    \* whether the last build raised
  ingests

graphVars == <<rows, nodes, edges, built, failed, ingests>>

(* rows.at[s] is where a definition starts and its enclosing range, from   *)
(* first to last, or first = -1 when the indexer gives none.               *)
Defined(r) == DOMAIN r.at
Typed(r) == {s \in Defined(r) : KindOf[s] # "symbol"}
Types == {"class", "interface"}

-----------------------------------------------------------------------------
(* Nodes *)

(* An owner that is known but has no definition is fetched and added to    *)
(* the dictionary that is being iterated: RuntimeError.                    *)
Raises(r) == \E s \in Typed(r) : r.owner[s] \in r.known \ Defined(r)

TopTypes(r) == {s \in Typed(r) : KindOf[s] \in Types /\ r.owner[s] = NoOwner /\ r.package[s] \in Packages}
NodesOf(r) == Typed(r) \cup {r.package[s] : s \in TopTypes(r)}

-----------------------------------------------------------------------------
(* Edges *)

Key(e) == <<e.src, e.dst, e.type>>
Replace(old, new) == {e \in old : \A n \in new : Key(n) # Key(e)} \cup new

(* Faulty: what is inferred replaces what is known.                        *)
IgnoreReplacing(old, new) == Replace(old, new)

Ignore(old, new) == old \cup {n \in new : \A e \in old : Key(e) # Key(n)}

OwnerEdges(r) ==
  {[src |-> s, dst |-> IF s \in TopTypes(r) THEN r.package[s] ELSE r.owner[s],
    type |-> "belongs_to", confidence |-> 100, source |-> "owner"]
   : s \in {t \in Typed(r) : t \in TopTypes(r) \/ r.owner[t] \in NodesOf(r)}}

(* A class that implements a class extends it.                             *)
EdgeType(rel) == IF rel.type = "implements" /\ KindOf[rel.from] \in Types
                 THEN IF KindOf[rel.to] = "interface" THEN "implements" ELSE "extends"
                 ELSE rel.type

(* Of equal relations the greatest confidence counts.  Rows come sorted by *)
(* type: an implements row replaces the extends row with the same ends.    *)
RelationEdges(r) ==
  LET joined == {rel \in r.relations : {rel.from, rel.to} \subseteq NodesOf(r)}
      best == {rel \in joined : \A o \in joined :
                 <<o.from, o.to, o.type>> = <<rel.from, rel.to, rel.type>> => o.confidence <= rel.confidence}
      edge(rel) == [src |-> rel.from, dst |-> rel.to, type |-> EdgeType(rel),
                    confidence |-> rel.confidence, source |-> "relations"]
      of(implements) == {edge(rel) : rel \in {b \in best : (b.type = "implements") = implements}}
  IN  Replace(of(FALSE), of(TRUE))

(* Line 0 counts as absent ("or -1").                                      *)
HasRange(d) == d.first > 0 /\ d.last >= d.first

(* What an ingestion leaves in the tables: no two definitions start on one *)
(* line, and of two methods with ranges that meet one is inside the other. *)
Nest(d, e) ==
  \/ d.last < e.first \/ e.last < d.first
  \/ d.first < e.first /\ e.last <= d.last
  \/ e.first < d.first /\ d.last <= e.last

ASSUME RowsAssumption ==
  /\ IsFiniteSet(Names) /\ NoOwner \notin Names /\ LastLine \in Nat
  /\ \A r \in Rows :
       /\ Defined(r) \subseteq Names
       /\ \A s \in Defined(r) : LET d == r.at[s] IN
            /\ d.line \in 0..LastLine /\ d.first \in Int /\ d.last \in Int /\ (d.first > 0 => HasRange(d))
            /\ \A t \in Defined(r) \ {s} : LET e == r.at[t] IN
                 d.line # e.line /\ (HasRange(d) /\ HasRange(e) => Nest(d, e))
       /\ \A rel \in r.relations : {rel.from, rel.to} \subseteq Names /\ rel.confidence \in 0..100
       /\ IsFiniteSet(r.refs) /\ \A ref \in r.refs : ref.to \in Names /\ ref.line \in 0..LastLine

(* The lines of a definition: its enclosing range, or else those up to the *)
(* next definition among its likes (_expand_def_spans).                    *)
Span(r, likes, s) ==
  LET d == r.at[s]
      start(t) == IF HasRange(r.at[t]) THEN r.at[t].first ELSE r.at[t].line
      later == {start(t) : t \in {u \in likes : start(u) > d.line}}
      next == IF later = {} THEN LastLine ELSE Min(later) - 1
  IN  IF HasRange(d) THEN d.first..d.last
      ELSE d.line..(IF next > d.line THEN next ELSE d.line)

(* _span_size counts an expanded span as 1000 lines longer (end_col 10^9). *)
Size(r, likes, s) == Cardinality(Span(r, likes, s)) + IF HasRange(r.at[s]) THEN 0 ELSE 1000

(* The definition with the smallest span that contains the line.           *)
OwnerAt(r, kinds, line) ==
  LET likes == {s \in Typed(r) : KindOf[s] \in kinds}
      around == {s \in likes : line \in Span(r, likes, s)}
      smallest == {s \in around : \A t \in around :
                     Size(r, likes, s) <= Size(r, likes, t)}
  IN  IF around = {} THEN NoOwner
      ELSE CHOOSE s \in smallest : \A t \in smallest : r.at[s].line <= r.at[t].line

Source(r, ref) ==
  LET method == OwnerAt(r, {"method"}, ref.line)
  IN  IF KindOf[ref.to] = "field" /\ method = NoOwner THEN OwnerAt(r, Types, ref.line) ELSE method

OccurrenceEdges(r) ==
  LET used == {ref \in r.refs : /\ ref.to \in NodesOf(r) /\ KindOf[ref.to] \in {"method", "field"}
                                /\ Source(r, ref) \notin {NoOwner, ref.to}}
      count(src, dst) == Cardinality({ref \in used : Source(r, ref) = src /\ ref.to = dst})
      edge(ref) == LET n == 35 + 10 * count(Source(r, ref), ref.to)
                   IN  [src |-> Source(r, ref), dst |-> ref.to,
                        type |-> IF KindOf[ref.to] = "method" THEN "calls" ELSE "field_refs",
                        confidence |-> IF n < 95 THEN n ELSE 95, source |-> "occurrences"]
  IN  {edge(ref) : ref \in used}

(* Faulty: the upserts are relied upon to overwrite the old graph.         *)
ClearedNothing == edges

(* _clear_repo_graph: the nodes of the snapshot and the edges at them.     *)
Cleared == {e \in edges : e.src \notin nodes /\ e.dst \notin nodes}

EdgesOf(old, r) == LET direct == Replace(Replace(old, OwnerEdges(r)), RelationEdges(r))
                   IN  IF r.calls THEN Ignore(direct, OccurrenceEdges(r)) ELSE direct

(* _refresh_degrees                                                        *)
FanOut(n) == Cardinality({e \in edges : e.src = n})
FanIn(n) == Cardinality({e \in edges : e.dst = n})

-----------------------------------------------------------------------------
GraphInit == /\ rows \in Rows
             /\ nodes = {} /\ edges = {}
             /\ built = <<>> /\ failed = FALSE /\ ingests = 0

(* The snapshot is ingested again, with other contents.                    *)
Ingest == /\ ingests < MaxIngests
          /\ rows' \in Rows
          /\ ingests' = ingests + 1
          /\ UNCHANGED <<nodes, edges, built, failed>>

BuildDocumentMode == /\ rows.mode = "document"
                     /\ nodes' = {} /\ edges' = Cleared
                     /\ built' = <<rows>> /\ failed' = FALSE
                     /\ UNCHANGED <<rows, ingests>>

Build == /\ rows.mode # "document" /\ ~Raises(rows)
         /\ nodes' = NodesOf(rows)
         /\ edges' = EdgesOf(Cleared, rows)
         /\ built' = <<rows>> /\ failed' = FALSE
         /\ UNCHANGED <<rows, ingests>>

(* The exception leaves the transaction open; closing the store undoes it. *)
BuildRaises == /\ rows.mode # "document" /\ Raises(rows)
               /\ failed' = TRUE
               /\ UNCHANGED <<rows, nodes, edges, built, ingests>>

GraphNext == Ingest \/ BuildDocumentMode \/ Build \/ BuildRaises

GraphSpec == GraphInit /\ [][GraphNext]_graphVars

-----------------------------------------------------------------------------
(* GraphService.code_subgraph: breadth-first over edges of one type, in    *)
(* both directions, at least one hop.                                      *)

(* Faulty: only outgoing edges.                                            *)
TouchingForward(frontier, type) == {e \in edges : e.type = type /\ e.src \in frontier}

Touching(frontier, type) == {e \in edges : e.type = type /\ (e.src \in frontier \/ e.dst \in frontier)}

(* One round: what is visited, what is new, the edges seen.                *)
Round(walk, type) ==
  LET hit == Touching(walk.frontier, type)
      ends == {e.src : e \in hit} \cup {e.dst : e \in hit}
  IN  [visited |-> walk.visited \cup ends, frontier |-> ends \ walk.visited, seen |-> walk.seen \cup hit]

Walk(seeds, hops, type) ==
  LET after[n \in 0..hops] == IF n = 0 THEN [visited |-> seeds, frontier |-> seeds, seen |-> {}]
                              ELSE Round(after[n - 1], type)
  IN  after[hops]

CodeSubgraph(seeds, hops, type) ==
  LET walk == Walk(seeds, IF hops > 1 THEN hops ELSE 1, type)
  IN  [nodes |-> walk.visited \cap nodes, edges |-> walk.seen]

-----------------------------------------------------------------------------
(* Properties *)

(* With enclosing ranges, and none on line 0, a line is inside of the      *)
(* innermost method around it; without any, of the last one that starts    *)
(* above it.                                                               *)
Methods(r) == {s \in Typed(r) : KindOf[s] = "method"}
AllRanged(r) == \A s \in Methods(r) : r.at[s].first > 0
NoneRanged(r) == \A s \in Methods(r) : r.at[s].first < 0

Innermost(r, line, s) ==
  /\ line \in r.at[s].first..r.at[s].last
  /\ ~\E t \in Methods(r) : line \in r.at[t].first..r.at[t].last /\ r.at[t].first > r.at[s].first
LastAbove(r, line, s) ==
  /\ r.at[s].line <= line
  /\ ~\E t \in Methods(r) : r.at[s].line < r.at[t].line /\ r.at[t].line <= line

Inside(r, line, s) == IF AllRanged(r) THEN Innermost(r, line, s) ELSE LastAbove(r, line, s)

Related(r, a, b) == {x.confidence : x \in {y \in r.relations : y.from = a /\ y.to = b /\ y.type = "calls"}}
Referred(r, a, b) == r.calls /\ a # b /\ \E ref \in r.refs : ref.to = b /\ Inside(r, ref.line, a)
Shown(a, b) == {e.confidence : e \in {f \in edges : Key(f) = <<a, b, "calls">>}}

(* Who calls, in the graph of the last build that was committed, whatever  *)
(* graph was there before: a calls edge is a relation of that kind, with   *)
(* its greatest confidence even where references would give more, or else  *)
(* a reference inside the caller.  No edge of any type dangles.            *)
EdgesAreExplained ==
  built # <<>> =>
    LET r == built[1] IN
    /\ r.mode = "document" => nodes = {}
    /\ \A e \in edges : {e.src, e.dst} \subseteq nodes
    /\ r.mode # "document" =>
         \A a, b \in Methods(r) :
           /\ Related(r, a, b) # {} => Shown(a, b) = {Max(Related(r, a, b))}
           /\ Related(r, a, b) = {} /\ (AllRanged(r) \/ NoneRanged(r)) => (Shown(a, b) # {} <=> Referred(r, a, b))

(* A subgraph is a ball: for one hop and two, exactly the nodes that a     *)
(* path of at most that many edges joins to a seed, in any direction, and  *)
(* the edges of such paths, each once although it is met from both ends.   *)
SubgraphIsBall ==
  \A seeds \in SUBSET nodes, hops \in 0..2 :
    LET calls == {e \in edges : e.type = "calls"}
        joined(a, b) == a = b \/ \E e \in calls : {e.src, e.dst} = {a, b}
        one == {n \in nodes : \E s \in seeds : joined(s, n)}
        two == {n \in nodes : \E s \in seeds, x \in nodes : joined(s, x) /\ joined(x, n)}
        at(S) == {e \in calls : e.src \in S \/ e.dst \in S}
        got == CodeSubgraph(seeds, hops, "calls")
    IN  IF hops = 2 THEN got = [nodes |-> two, edges |-> at(one)]
                    ELSE got = [nodes |-> one, edges |-> at(seeds)]
=============================================================================
