\* One insert for two results, so that a page of two has one.
SPECIFICATION MCSpec
CONSTANTS
  Symbols = {1, 2}
  Chunks = {11, 12, 13}
  FileOf <- MCFileOf
  TestCode = {2, 12}
  TopKs = {0, 1, 2}
  Strategies = {"linear", "rrf", "dense_guarded"}
  Ops = {"search", "symbol_exact", "def_of", "refs_of", "callers_of"}
  KeywordScores = {100, 200}
  SemanticScores <- MCSemanticScores
  Confidences = {1, 2}
  Shares <- MCShares
  Scenes = {"queries", "graph", "names", "seeds"}
  One = 200
  FactorNum = 11
  FactorDen = 20
  InsertEvery = 2
  Names <- Members
  Packages = {"p"}
  NoOwner = "none"
  KindOf <- MCKindOf
  Place <- MCPlace
  Rows <- MCRows
  LastLine = 9
  MaxIngests = 1
  ExactWindow = 2
  ContainsWindow = 2
  Tables <- MCTables
  Limits = {0, 1, 3}
  NodeOf <- MCNodeOf
  Mentioned = {"a", "b", "c", "d"}
  HitLists <- MCHitLists
  Intents <- MCIntents
  Explorations <- MCExplorations
INVARIANTS AnswerIsAPage AheadIsFirst FindsWhatFits StrongestCalls EdgesAreExplained SubgraphIsBall SeedsAreNearest
CHECK_DEADLOCK FALSE
