CONSTANTS
  p1 = p1
  p2 = p2
  p3 = p3
  p4 = p4
  e1 = e1
  e2 = e2
  e3 = e3
  Program = {p1, p2, p3, p4}
  Elements <- UpTo9
  SplayValues <- UpTo6
  Keys <- UpTo3
  VectorValues <- SmallValues
  ChangeValues <- SmallChanges
  Memory = 16
  Size = 20
  Counts = {0, 1, 3}
  Types <- ByteAndWord
  Exception = {e1, e2, e3}
  Foreign = {e3}
  MaxDepth = 3
  Bound = 3
  Totals = {0, 1, 4, 5}
  LimitedIndex = 1
  Limits = {0, 1, 2}
  MaxLength = 6
  Leaves = 6
  LeafCount = 7
  Sizes = {1, 2, 3, 4}
  StackUse = TRUE
  ChunkSize = 8
  MetadataSize = 7
  FreeListLimit = 8
  StealCoef = 3
  Requests = {3, 8, 9, 17}
  MaxBlocks = 4
  Values = {0, 1, 2}
INIT MCInit
NEXT MCNext
INVARIANTS OneExecutor StackUseIsExact MemoryIsNotShared BlocksAreApart AvlIsBalancedSet SplayIsConsistent FindIsExact ComponentsAreExact WalkIsExact UpdateIsMapMerge JoinsAgree ContextsReachTheirException PhysicalFollowsLogical DiffIsExact
CHECK_DEADLOCK FALSE
