SPECIFICATION MemoriesSpec
CONSTANTS
  MaxMem = 5
  Drafts <- SomeDrafts
  Keys = {"k"}
  Semantic = {"elaborates_on"}
  Callers = {c1, c2}
  MaxEdges = 2
  Seeds <- SomeSeeds
  MaxItems = 2
  MaxCalls = 2
  TagNames <- MCNames
  CoreName = "core"
  SanitizedName <- MCSanitized
  NormalForm <- MCNormal
  PluralStem <- MCStem
  TaggedMemories = {e1}
  TagLists <- MCLists
  LegacyTables <- MCLegacy
  OtherRaw = 1
  TagCooldown = 1
INVARIANTS LineageSound EdgesFollow
PROPERTIES PastIsFixed TagsKept
SYMMETRY Alike
CHECK_DEADLOCK FALSE
