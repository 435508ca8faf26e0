---------------------------- MODULE EntityQuery ----------------------------
(***************************************************************************)
(* find_entity (entity_query.py) on the symbols table: candidates by name, *)
(* cut to a window, and of these the ones of the wanted type and package.  *)
(*                                                                         *)
(* A symbol says how its name fits the one asked for: "equal" ignoring     *)
(* case, "part" when it only contains it (LIKE), and whether the full-text *)
(* index has one of its words; length is that of the display name, rank    *)
(* its place in the order of bm25, fits what the filters of type and       *)
(* package say.                                                            *)
(***************************************************************************)
EXTENDS Ranking

CONSTANTS
  ExactWindow, ContainsWindow,   \* 50 and 100 rows
  Tables,     \* symbols tables, as a name sees them
  Limits      \* of a request; any integer

VARIABLE entity   \* the last request, with its answer

ASSUME WindowsAssumption == ExactWindow \in Nat /\ ContainsWindow \in Nat /\ Limits \subseteq Int
ASSUME TablesAssumption ==
  \A symbols \in Tables :
    /\ IsFiniteSet(symbols)
    /\ symbols \subseteq [id : Int, name : {"equal", "part", "other"}, word : BOOLEAN, length : Nat,
                          rank : Int, fits : BOOLEAN]
    /\ \A a, b \in symbols : a.id = b.id \/ a.rank = b.rank => a = b

Upper(a, b) == IF a > b THEN a ELSE b

Shorter(a, b) == a.length < b.length \/ (a.length = b.length /\ a.id < b.id)

EqualFirst(a, b) ==
  \/ a.name = "equal" /\ b.name # "equal"
  \/ (a.name = "equal" <=> b.name = "equal") /\ Shorter(a, b)

Ranked(a, b) == a.rank < b.rank

(* The names equal to the one asked for, the shortest first.               *)
ExactRows(symbols, limit) ==
  LET equal == {s \in symbols : s.name = "equal"}
  IN Cut(InOrder([s \in equal |-> {o \in equal : Shorter(o, s)}]), Upper(limit, ExactWindow))

LikeRows(symbols, window) ==
  LET like == {s \in symbols : s.name # "other"}
  IN Cut(InOrder([s \in like |-> {o \in like : EqualFirst(o, s)}]), window)

WordRows(symbols, window) ==
  LET words == {s \in symbols : s.word}
  IN Cut(InOrder([s \in words |-> {o \in words : Ranked(o, s)}]), window)

(* _symbol_search_candidates: names with the text as a part, then names    *)
(* that share a word with it; each list is cut for itself.                 *)
Candidates(symbols, window) ==
  LET like == LikeRows(symbols, window)
      words == WordRows(symbols, window)
  IN like \o Picked(words, {i \in DOMAIN words : words[i] \notin Elements(like)})

Fitting(rows) == Picked(rows, {i \in DOMAIN rows : rows[i].fits})

(* Faulty: the candidates are cut to the limit of the answer.              *)
FindEntityNarrow(symbols, match, limit) ==
  Cut(Fitting(Cut(IF match = "exact" THEN ExactRows(symbols, limit)
                  ELSE Candidates(symbols, Upper(limit, ContainsWindow)), Upper(limit, 1))), Upper(limit, 1))

(* find_entity: the limit is looked at after a hit was added, so 0 and     *)
(* negative ones let one through.                                          *)
FindEntity(symbols, match, limit) ==
  Cut(Fitting(IF match = "exact" THEN ExactRows(symbols, limit)
              ELSE Candidates(symbols, Upper(limit, ContainsWindow))), Upper(limit, 1))

EntityInit == entity = <<>>

EntityNext ==
  /\ entity = <<>>
  /\ \E symbols \in Tables, match \in {"exact", "contains"}, limit \in Limits :
       entity' = [symbols |-> symbols, match |-> match, limit |-> limit, answer |-> FindEntity(symbols, match, limit)]

EntitySpec == EntityInit /\ [][EntityNext]_entity

-----------------------------------------------------------------------------
(* Properties *)

(* What the docstring calls a match: the name itself, or a text it is part *)
(* of.                                                                     *)
Named(symbols, match) ==
  {s \in symbols : IF match = "exact" THEN s.name = "equal" ELSE s.name # "other"}

(* Symbols that contains finds by a word alone: not what it documents.     *)
WordOnly(symbols, match) == {s \in symbols : match = "contains" /\ s.word /\ s.name = "other"}

WindowOf(match, limit) == Upper(limit, IF match = "exact" THEN ExactWindow ELSE ContainsWindow)

(* For a limit of at least 1 (0 lets one hit through, against its          *)
(* docstring): an answer holds no more, each once, of the wanted type and  *)
(* package; and of the wanted name, unless some symbol shares only a word  *)
(* with it.  While no more symbols than the window have the name, one of   *)
(* them is missing only from an answer that is full of others of them, so  *)
(* that the cut before the filter hides nothing and no hit by a word takes *)
(* the place of one by name; and an exact answer keeps the shortest.       *)
FindsWhatFits ==
  entity # <<>> /\ entity.limit >= 1 =>
    LET answer == entity.answer
        named == Named(entity.symbols, entity.match)
        fitting == {s \in named : s.fits}
        left == fitting \ Elements(answer)
    IN /\ Cardinality(Elements(answer)) = Len(answer) /\ Len(answer) <= entity.limit
       /\ \A s \in Elements(answer) : s.fits
       /\ WordOnly(entity.symbols, entity.match) = {} => Elements(answer) \subseteq fitting
       /\ Cardinality(named) <= WindowOf(entity.match, entity.limit) =>
            /\ left # {} => Len(answer) = entity.limit /\ Elements(answer) \subseteq fitting
            /\ entity.match = "exact" => \A a \in Elements(answer), b \in left : Shorter(a, b)
=============================================================================
