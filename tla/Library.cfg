SPECIFICATION Spec
CONSTANTS
  LLONG_MAX = 127
  LLSTR_SIZE = 5
  StaticBuf = 4
  FirstSlots = 5
  MAX_TOKEN = 3
  NESTING_LIMIT = 2
  BufferSize = 8
  Patterns <- MCPatterns
  Strings <- MCStrings
  Longs <- MCLongs
  Lines <- MCLines
  Separators <- MCSeparators
  WordLists <- MCWordLists
  Triples <- MCTriples
  Values <- MCValues
  Pairs <- MCPairs
  SomePaths <- MCPaths
  Trees <- MCTrees
  UnitLists <- MCUnitLists
  Prebuffers <- MCPrebuffers
  Damage <- MCDamage
  Comments <- MCComments
  Items = {i1, i2, i3, i4}
  Names = {"a", "A"}
  NULL = null
  Folded <- MCFolded
  RowObjects = {r1, r2}
  Statements = {s1, s2}
  Results <- MCResults
  SQL_MAX_SPEC = 2
  Memory = {0, 7}
  MaxRowid = 2
  NONE = none
SYMMETRY ItemSymmetry
INVARIANTS PatternMeaning CompareOrders NumberReadsBack PrintedWhole SplitJoin
  QuotingRoundTrips SelectFollowsPath CompareIsEquality PrintStaysInside
  ParseReadsBack ParsesOnlyJson Utf16Decodes MinifyKeepsValue
  ListsSound OwnedOnce StatementsOwned RowsInOrder SelectIntTrue
