CONSTANTS
  LUA_MAXCAPTURES = 4
  MAXCCALLS = 30
  MaxList = 6
  Cutoff = 3
  NoMax = 9
  MaxCalls = 5
  MaxItems = 3
  MaxText = 3
  MaxSort = 5
  Chars <- MCChars
  Jobs <- MCJobs
  Find <- MCFind
  TryAt <- MCTryAt
  Substitute <- MCSubstitute
  SortTable <- MCSortTable
  FirstOf <- MCFirstOf
  AllOf <- MCAllOf
  se = se
  sa = sa
  sb = sb
  sc = sc
  sd = sd
  Strings = {se, sa, sb, sc, sd}
  EmptyStr = se
  Hash <- MCHash
  InitCap = 4
  MaxCap = 8
  MaxIds = 7
SPECIFICATION MCSpec
INVARIANTS
  ProbesEnd
  SlotsLive
  Findable
  FirstMatch
  EveryMatch
  Rebuilt
  SubRange
  IsList
  SortsOrKeeps
PROPERTIES ImplementsTable
