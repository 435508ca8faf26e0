--------------------------- MODULE MCChunkStores ---------------------------
(* Two files, two contents and two configurations that share one kind of   *)
(* chunk and differ in the other; and, as a scene of its own, one document *)
(* that is cut into chunks.  The scenes share no state.                    *)
EXTENDS ChunkStores, ChunkSpans

CONSTANTS d1, d2, old, new, Scenes   \* what is run: stores, cutting

MCKinds == [ast |-> {"card", "node"}, span |-> {"card", "fn"}]
Dual == <<"sqlite", "lance">>

-----------------------------------------------------------------------------
(* Seven lines of code, comments, blanks and one line over the budget; a   *)
(* type, two functions in it that are apart or one in the other, one of    *)
(* them perhaps of an inner type, and a field.  The index names the last   *)
(* line of a range, tree-sitter is asked for the line after it.            *)

MCTokens == [blank |-> 1, note |-> 1, code |-> 2, long |-> 12]

MCLines == {<<"note", "code", "code", "blank", "note", "code", "code">>,
            <<"code", "code", "long", "code", "blank", "code", "code">>,
            <<"code", "blank", "blank", "code", "code", "note", "code">>}

Intervals == {r \in (1 .. 6) \X (2 .. 7) : r[1] < r[2]}

Method(id, r, owner) ==
  [id |-> id, kind |-> "method", def |-> r[1], enclosing |-> <<r[1], r[2] - 1>>, owner |-> owner]
Type(id, r) ==
  [id |-> id, kind |-> "class", def |-> r[1], enclosing |-> <<r[1], r[2] - 1>>, owner |-> ""]

(* The indexer gave no range for the field.                                *)
Field == [id |-> "x", kind |-> "field", def |-> 6, enclosing |-> <<-1, -1>>, owner |-> "C"]

Nested(a, b) ==
  \/ a[2] <= b[1] \/ b[2] <= a[1]
  \/ a # b /\ a[1] <= b[1] /\ b[2] <= a[2]

C == Type("C", <<0, 7>>)

MCDefs ==
  {{C, Method("f", a, "C"), Method("g", b, "C")} : <<a, b>> \in {ab \in Intervals \X Intervals : Nested(ab[1], ab[2])}}
  \cup {{C, Type("D", <<3, 6>>), Method("f", <<1, 3>>, "C"), Method("g", a, "D")} :
          a \in {a \in Intervals : 3 <= a[1] /\ a[2] <= 6}}
  \cup {{}, {Field}, {C, Type("D", <<2, 7>>), Field}}

MCDocuments ==
  {[lines |-> ls, defs |-> ds, ast |-> {[kind |-> d.kind, start |-> d.def, end |-> d.enclosing[2] + 1] : d \in ds \ {Field}}] :
     ls \in MCLines, ds \in MCDefs}
  \cup {[lines |-> <<>>, defs |-> {}, ast |-> {}]}

Default ==
  [target |-> 10, overlap |-> 3, lookback |-> 2, minLines |-> 1, functionLevel |-> TRUE, leafPreferred |-> TRUE,
   merge |-> TRUE, small |-> 6, mergeTarget |-> 8, maxGap |-> 1, parentLines |-> 1, parentTokens |-> 0,
   strategy |-> "ast", fallback |-> TRUE, treesitter |-> TRUE, cards |-> TRUE,
   contextMax |-> 6, fields |-> <<[prefix |-> 1, value |-> 1], [prefix |-> 1, value |-> 9]>>]

(* The default with all thresholds low; every kind of symbol and no        *)
(* overlap; the thresholds of the code in small; no tree of the code; and  *)
(* no function long enough.                                                *)
MCSettings ==
  {Default, [Default EXCEPT !.functionLevel = FALSE, !.overlap = 0],
   [Default EXCEPT !.minLines = 3, !.parentLines = 3, !.parentTokens = 5, !.cards = FALSE],
   [Default EXCEPT !.strategy = "definition_span", !.target = 20], [Default EXCEPT !.fallback = FALSE, !.minLines = 8]}

VARIABLE scene

MCInit ==
  /\ scene \in Scenes /\ Init
  /\ IF scene = "cutting" THEN CutInit
     ELSE doc = 0 /\ cfg = 0 /\ step = "" /\ todo = {} /\ at = 0 /\ pieces = {} /\ cards = {}

MCNext ==
  \/ scene = "stores" /\ Next /\ UNCHANGED cutVars
  \/ scene = "cutting" /\ CutNext /\ UNCHANGED vars

MCSpec == MCInit /\ [][MCNext /\ UNCHANGED scene]_<<vars, scene, cutVars>>
=============================================================================
