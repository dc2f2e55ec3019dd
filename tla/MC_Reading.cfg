SPECIFICATION ReadingSpec
CONSTANTS
  m1 = m1
  m2 = m2
  m3 = m3
  Memories = {m1,m2,m3}
  Recency <- MCRecency
  VectorOrder <- MCVectorOrder
  SideOrder <- MCSideOrder
  Queries <- MCQueries
  Corpora <- MCCorpora
  PageSize = 1
  PoolSize = 2
  WindowCap = 3
  ChunkWindow = 2
  EncoderCap = 2
  ChainDepth = 2
  MaxEdits = 1
  a = a
  b = b
  c = c
  d = d
  CtxMemories = {a, b, c, d}
  CtxPlace <- MCPlace
  CtxTokens <- MCTokens
  CtxGraphs <- MCGraphs
  CtxRequests <- MCRequests
  ExpansionTopK = 1
  ConflictCap = 1
  OrphanCap = 1
  HistoryCap = 1
  LineageDepth = 3
  MaxCtxEdits = 1
  k1 = k1
  k2 = k2
  k3 = k3
  Linked = {k1, k2, k3}
  Pairs <- MCPairs
  Similarity <- MCSimilarity
  IdOrder <- MCIdOrder
  Runners = {n1, n2}
  SplitAbove = 2
  LevelCap = 2
  SeedCap = 2
  RepresentativeCap = 1
  MemberCap = 2
  SimilarityGap = 1
  MemberBudget = 1
  MaxPasses = 2
  MaxStoreEdits = 1
INVARIANTS ServedRightly PagesComplete ConflictsTold ContextPacked IndexSound
CHECK_DEADLOCK FALSE
