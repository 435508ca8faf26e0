----------------------------- MODULE ChunkSpans -----------------------------
(***************************************************************************)
(* How EmbeddingPipeline.build_chunks (embedding.py) cuts one document.    *)
(* Its definitions become candidates; small sibling functions are packed   *)
(* together; the lines of a type that no function takes become spans of    *)
(* the type; every span is cut into pieces under a token budget.  If that  *)
(* makes no piece the document is cut at its definitions or as a whole.    *)
(*                                                                         *)
(* Lines are numbered from 0, as in the code, and ranges exclude their     *)
(* end.  A line is of a kind, and a kind has a number of tokens.  Every    *)
(* span is cut by itself, so spans and pieces are sets; of the order of    *)
(* the code, functions before the rest of types, the rows show nothing.    *)
(***************************************************************************)
EXTENDS Integers, Sequences, FiniteSets, FiniteSetsExt, SequencesExt

CONSTANTS
  Tokens,     \* kind of line |-> its tokens; "blank" and "note" are kinds
  Documents,  \* [lines, defs, ast]: kinds of lines, definitions, tree-sitter nodes
  Settings    \* the arguments of build_chunks, as its floors leave them

VARIABLES
  doc, cfg,
  step,    \* "start", "ast", "spans", "whole", "done"
  todo,    \* spans still to cut: [ids, eff, end]
  at,      \* cursor in the first of them
  pieces,  \* [ids, span, from, to]
  cards    \* symbols that have a card

cutVars == <<doc, cfg, step, todo, at, pieces, cards>>

-----------------------------------------------------------------------------
(* fetch_definition_nodes_for_document: the range the index gives for the  *)
(* node, if it spans more than one line, else the range of the name.       *)
Explicit(d) == d.enclosing[1] >= 0 /\ d.enclosing[2] > d.enclosing[1]
StoredRange(d) == IF Explicit(d) THEN d.enclosing ELSE <<d.def, d.def>>

(* An index may be older than the text: a definition can lie past its end. *)
ASSUME DocumentsAssumption ==
  /\ Tokens \in [DOMAIN Tokens -> Nat]
  /\ \A d \in Documents :
       /\ d.lines \in Seq(DOMAIN Tokens)
       /\ IsFiniteSet(d.defs)
       /\ \A x \in d.defs :
            /\ x.def \in Nat /\ x.enclosing \in Int \X Int
            /\ x.def < Len(d.lines) \/ StoredRange(x)[1] >= Len(d.lines)
       /\ \A n \in d.ast : n.start \in Nat /\ n.end \in 0 .. Len(d.lines)

ASSUME SettingsAssumption ==
  \A s \in Settings :
    /\ s.target \in Nat \ {0} /\ s.minLines \in Nat \ {0}
    /\ s.overlap \in Nat /\ s.lookback \in Nat /\ s.contextMax \in Nat
    /\ s.fields \in Seq([prefix : Nat, value : Nat])

-----------------------------------------------------------------------------
(* Lines and tokens *)

Total == Len(doc.lines)
Line(n) == doc.lines[n + 1]
Weight(i, j) ==
  LET upTo[n \in i .. j] == IF n = i THEN 0 ELSE upTo[n - 1] + Tokens[Line(n - 1)] IN upTo[j]
Text(i, j) == {n \in i .. j - 1 : Line(n) # "blank"}

Smaller(a, b) == IF a < b THEN a ELSE b
Larger(a, b) == IF a < b THEN b ELSE a

SourceTarget == Larger(1, (cfg.target * 8) \div 10)
Overlap == Smaller(cfg.overlap, SourceTarget \div 2)

(* The fields before a piece (path, package, ..., incoming_calls), in      *)
(* order, each cut to what is left; a cut value ends in " ...".            *)
Truncated(value, budget) ==
  CASE budget <= 0 -> 0 [] value <= budget -> value [] OTHER -> IF budget > 3 THEN budget ELSE 0

FieldTaken(left, f) ==
  LET value == Truncated(f.value, left - f.prefix) IN IF value = 0 THEN left ELSE left - f.prefix - value

MetadataTarget == Smaller(cfg.target - SourceTarget, cfg.contextMax)
MetadataTokens ==
  LET left[n \in 0 .. Len(cfg.fields)] == IF n = 0 THEN MetadataTarget ELSE FieldTaken(left[n - 1], cfg.fields[n])
  IN  MetadataTarget - left[Len(cfg.fields)]

(* Comments, annotations and blank lines above a definition belong to it.  *)
LeadingDoc(def) ==
  IF def <= 0 THEN 0
  ELSE Min({i \in Larger(0, def - cfg.lookback) .. def : \A n \in i .. def - 1 : Line(n) \in {"blank", "note"}})

-----------------------------------------------------------------------------
(* Candidates *)

IsContainer(d) == d.kind = "class"
Chunked(d) == d.kind = "method" \/ ~cfg.functionLevel

(* The smallest declaration around the definition, of its kind if any is.  *)
AstSpans(d) ==
  LET around == {n \in doc.ast : n.start <= d.def /\ d.def < n.end}
      same == {n \in around : n.kind = d.kind}
      distance(n) == IF n.start < d.def THEN d.def - n.start ELSE n.start - d.def
      best == IF same # {} THEN same ELSE around
  IN  {n \in best : \A m \in best :
         \/ n.end - n.start < m.end - m.start
         \/ n.end - n.start = m.end - m.start /\ distance(n) <= distance(m)}

NodeRange(d) ==
  IF ~Explicit(d) /\ cfg.treesitter /\ AstSpans(d) # {}
    THEN LET n == CHOOSE n \in AstSpans(d) : TRUE IN <<n.start, n.end>>
    ELSE LET r == StoredRange(d) IN <<r[1], Smaller(Total, Larger(r[1] + 1, r[2]))>>

LongEnough(d) == NodeRange(d)[1] < Total /\ NodeRange(d)[2] - NodeRange(d)[1] >= cfg.minLines

Candidate(d) ==
  LET r == NodeRange(d) IN
  [ids |-> <<d.id>>, owner |-> d.owner, container |-> IsContainer(d), start |-> r[1], end |-> r[2],
   eff |-> Smaller(r[1], LeadingDoc(d.def))]

AllCandidates == {Candidate(d) : d \in {d \in doc.defs : Chunked(d) /\ LongEnough(d)}}

(* leaf_preferred: types that hold another candidate give way to it.       *)
Candidates ==
  {c \in AllCandidates :
     ~(/\ cfg.leafPreferred
       /\ c.container
       /\ \E leaf \in AllCandidates :
            /\ ~leaf.container /\ <<leaf.start, leaf.end>> # <<c.start, c.end>>
            /\ c.start <= leaf.start /\ leaf.end <= c.end)}

-----------------------------------------------------------------------------
(* Packs of sibling functions: those of one owner in their order, as long  *)
(* as the next is near and small and the pack is not full                  *)

Foremost(S) == CHOOSE c \in S : \A d \in S : c.start < d.start \/ (c.start = d.start /\ c.end <= d.end)

SpanTokens(c) == Weight(c.eff, c.end)
IsSmall(c) == SpanTokens(c) < cfg.small

Opened(c) == [c |-> c, tokens |-> SpanTokens(c), last |-> c.end, open |-> IsSmall(c)]

(* Faulty: a pack ends where its last member ends, though one may lie      *)
(* inside another.                                                         *)
JoinedToLast(p, c) ==
  [c |-> [p.c EXCEPT !.ids = @ \o c.ids, !.end = c.end, !.eff = Smaller(@, c.eff)],
   tokens |-> p.tokens + SpanTokens(c), last |-> c.end, open |-> TRUE]

Joined(p, c) ==
  LET tokens == p.tokens + SpanTokens(c) IN
  [c |-> [p.c EXCEPT !.ids = @ \o c.ids, !.start = Smaller(@, c.start), !.end = Larger(@, c.end),
                     !.eff = Smaller(@, c.eff)],
   tokens |-> tokens, last |-> c.end, open |-> tokens < Larger(cfg.small, cfg.mergeTarget)]

(* The packs that are full, the last one, and who is left.                 *)
FirstPack(members) ==
  [full |-> {}, last |-> Opened(Foremost(members)), rest |-> members \ {Foremost(members)}]

Packed(row) ==
  LET c == Foremost(row.rest)
      joins == row.last.open /\ c.start - row.last.last <= cfg.maxGap /\ IsSmall(c)
  IN  [full |-> IF joins THEN row.full ELSE row.full \cup {row.last.c},
       last |-> IF joins THEN Joined(row.last, c) ELSE Opened(c),
       rest |-> row.rest \ {c}]

Siblings(owner) == {c \in Candidates : ~c.container /\ c.owner = owner}

PackedSiblings(owner) ==
  LET count == Cardinality(Siblings(owner))
      row[n \in 1 .. count] == IF n = 1 THEN FirstPack(Siblings(owner)) ELSE Packed(row[n - 1])
  IN  row[count].full \cup {row[count].last.c}

Packs ==
  IF cfg.functionLevel /\ cfg.merge
    THEN {c \in Candidates : c.container} \cup
         UNION {PackedSiblings(c.owner) : c \in {c \in Candidates : ~c.container}}
    ELSE Candidates

-----------------------------------------------------------------------------
(* The lines that are left to the types *)

Containers == {d \in doc.defs : IsContainer(d) /\ LongEnough(d)}

Inside(c, d) ==
  /\ NodeRange(d) # NodeRange(c)
  /\ NodeRange(c)[1] <= NodeRange(d)[1] /\ NodeRange(d)[2] <= NodeRange(c)[2]

(* What is taken from a type, and the longest runs of lines that are not:  *)
(* _merge_line_intervals and _gaps_in_half_open_range.                     *)
Taken(c) ==
  UNION {r[1] .. r[2] - 1 :
           r \in {<<p.start, p.end>> : p \in Packs} \cup {NodeRange(d) : d \in {d \in Containers : Inside(c, d)}}}

Gaps(c) ==
  LET lo == NodeRange(c)[1]
      hi == NodeRange(c)[2]
  IN  {g \in (lo .. hi) \X (lo .. hi) :
         /\ g[1] < g[2] /\ (g[1] .. g[2] - 1) \cap Taken(c) = {}
         /\ g[1] = lo \/ g[1] - 1 \in Taken(c)
         /\ g[2] = hi \/ g[2] \in Taken(c)}

Kept(gap) == gap[2] - gap[1] >= cfg.parentLines /\ Weight(gap[1], gap[2]) >= cfg.parentTokens

ParentSpans ==
  UNION {{[ids |-> <<c.id>>, eff |-> g[1], end |-> g[2]] : g \in {g \in Gaps(c) : Kept(g)}} : c \in Containers}

-----------------------------------------------------------------------------
(* What to cut *)

AstWork ==
  {[ids |-> p.ids, eff |-> p.eff, end |-> p.end] : p \in Packs}
  \cup (IF cfg.functionLevel THEN ParentSpans ELSE {})

(* From its comment, each definition reaches to the line of the next.  Of  *)
(* those that share a line all but one end with it.                        *)
Defined == {d \in doc.defs : Chunked(d)}

LastOn(line) == CHOOSE d \in Defined : d.def = line

Until(d) ==
  IF d # LastOn(d.def) THEN d.def + 1 ELSE Min({Total} \cup {e.def : e \in {e \in Defined : e.def > d.def}})

DefinitionWork ==
  {[ids |-> <<d.id>>, eff |-> LeadingDoc(d.def), end |-> Until(d)] : d \in {d \in Defined : d.def < Total}}

WholeWork == {[ids |-> <<>>, eff |-> 0, end |-> Total]}

First(spans) == CHOOSE s \in spans : \A t \in spans : s.eff < t.eff \/ (s.eff = t.eff /\ s.end <= t.end)

StartOf(spans) == IF spans = {} THEN 0 ELSE First(spans).eff

Work(next, spans) ==
  /\ step' = next /\ todo' = spans /\ at' = StartOf(spans)
  /\ UNCHANGED <<doc, cfg, pieces, cards>>

-----------------------------------------------------------------------------
(* _chunks_for_span *)

(* As many lines as the budget takes, and one at least.                    *)
PieceEnd(i, end) == Max({i + 1} \cup {j \in i + 1 .. end : Weight(i, j) <= SourceTarget})

(* Faulty: a line that is over the budget by itself is passed by.          *)
NextStartPastLong(i, j) == IF Weight(i, j) > SourceTarget THEN j + 1 ELSE j

(* The fewest last lines that make the overlap are taken again.            *)
NextStart(i, j) ==
  IF Overlap = 0 THEN j
  ELSE Larger(i + 1, Max({i} \cup {k \in i + 1 .. j - 1 : Weight(k, j) >= Overlap}))

Cut ==
  /\ todo # {}
  /\ LET span == First(todo)
         to == PieceEnd(at, span.end)
     IN  /\ pieces' = IF Text(at, to) = {} THEN pieces
                      ELSE pieces \cup {[ids |-> span.ids, span |-> <<span.eff, span.end>>, from |-> at, to |-> to]}
         /\ IF to < span.end
              THEN at' = NextStart(at, to) /\ UNCHANGED todo
              ELSE todo' = todo \ {span} /\ at' = StartOf(todo \ {span})
  /\ UNCHANGED <<doc, cfg, step, cards>>

-----------------------------------------------------------------------------
CutInit ==
  /\ doc \in Documents /\ cfg \in Settings
  /\ step = "start" /\ todo = {} /\ at = 0 /\ pieces = {} /\ cards = {}

ByAst ==
  /\ step = "start" /\ Total > 0
  /\ cfg.strategy = "ast" /\ doc.defs # {}
  /\ Work("ast", AstWork)

MayUseDefinitions == cfg.strategy = "definition_span" \/ cfg.fallback

NoAstChunks ==
  \/ step = "start" /\ Total > 0 /\ ~(cfg.strategy = "ast" /\ doc.defs # {})
  \/ step = "ast" /\ todo = {} /\ pieces = {}

ByDefinitions ==
  /\ NoAstChunks /\ MayUseDefinitions /\ doc.defs # {}
  /\ Work("spans", DefinitionWork)

Whole ==
  /\ NoAstChunks /\ ~(MayUseDefinitions /\ doc.defs # {})
  /\ Work("whole", WholeWork)

(* The code makes the cards before it cuts the document as a whole: their  *)
(* order shows nowhere.                                                    *)
Cards ==
  /\ todo = {}
  /\ \/ step \in {"spans", "whole"}
     \/ step = "ast" /\ pieces # {}
  /\ cards' = IF cfg.cards /\ (cfg.strategy = "ast" \/ step # "whole") THEN {d.id : d \in doc.defs} ELSE {}
  /\ step' = "done"
  /\ UNCHANGED <<doc, cfg, todo, at, pieces>>

CutNext == ByAst \/ ByDefinitions \/ Whole \/ Cut \/ Cards

CutSpec == CutInit /\ [][CutNext]_cutVars

-----------------------------------------------------------------------------
(* While a span is cut no text behind the cursor is lost, a piece with its *)
(* fields is over the budget only if it is one line, and the cursor moves  *)
(* on past the start of the last piece (_chunks_for_span: overlap, long    *)
(* lines).                                                                 *)
PiecesCoverSpan ==
  /\ todo # {} =>
       LET span == First(todo)
           mine == {p \in pieces : p.ids = span.ids /\ p.span = <<span.eff, span.end>>}
       IN  /\ \A l \in Text(span.eff, at) : \E p \in mine : l \in p.from .. p.to - 1
           /\ \A p \in mine : p.from < at
  /\ \A p \in pieces :
       /\ Weight(p.from, p.to) + MetadataTokens <= cfg.target \/ p.to = p.from + 1
       /\ p.span[1] <= p.from /\ p.to <= p.span[2]

InPiece(id, l) == \E p \in pieces : id \in Range(p.ids) /\ l \in p.from .. p.to - 1

(* In the end each function has all its text in pieces that name it,       *)
(* packed or alone, and a document that has text has a piece, unless only  *)
(* its definitions were asked for and none of them is a function: then     *)
(* none of its text can be found (the flag used_definition_chunks).        *)
TextIsFound ==
  step = "done" =>
    /\ cfg.strategy = "ast" =>
         \A c \in Candidates : \A l \in Text(c.start, c.end) : InPiece(c.ids[1], l)
    /\ \/ pieces # {} \/ Text(0, Total) = {}
       \/ /\ MayUseDefinitions /\ doc.defs # {}
          /\ \A d \in Defined : d.def < Total => Text(LeadingDoc(d.def), Total) = {}

=============================================================================
