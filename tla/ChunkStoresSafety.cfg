SPECIFICATION MCSpec
CONSTANTS
  d1 = d1
  d2 = d2
  old = old
  new = new
  Docs = {d1, d2}
  Contents = {old, new}
  NoDoc = NoDoc
  Kinds <- MCKinds
  Mode <- Dual
  MaxCommands = 5
  Tokens <- MCTokens
  Documents <- MCDocuments
  Settings <- MCSettings
  Scenes = {"stores", "cutting"}
INVARIANTS KeywordHitsAreCurrent VectorsFitTexts StoresAgree PiecesCoverSpan TextIsFound
CHECK_DEADLOCK FALSE
