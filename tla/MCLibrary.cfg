\* Four articles, one edit of the source in between, windows of two and three tokens.
SPECIFICATION FairSpec
CONSTANTS
  None = None
  a1 = a1
  a2 = a2
  a3 = a3
  a4 = a4
  faiz = faiz
  oran = oran
  kvkk = kvkk
  macro = macro
  finance = finance
  regulatory = regulatory
  news = news
  market = market
  Article = {a1, a2, a3, a4}
  Text <- MCText
  Keyword = {faiz, oran, kvkk}
  Category = {macro, finance, regulatory}
  CategoryRules <- MCRules
  SchemaOf <- MCSchema
  Fallback = macro
  Config <- MCConfig
  Origin = {"media", "official"}
  Kind = {"weekly", "media"}
  Query <- MCQuery
  Period <- MCPeriod
  Limit = 1
  Question = {q1}
  Similar <- MCSimilar
  Thresholds = {1}
  Candidates = 3
  Top = 2
  ContextTokens = 6
  Cutting <- MCCutting
  Day = 1
  MaxClock = 1
  MaxEdits = 1
INVARIANTS
  Tiles
  FiledForAReason
  NothingIsCut
PROPERTIES
  BestOfPeriod
  Settles
CHECK_DEADLOCK FALSE
